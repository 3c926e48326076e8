---------------------------- MODULE DeviceStore -----------------------------
(* The operator's device registry (crates/ce-iam-core/src/device.rs): a map  *)
(* under a mutex, shared by the threads of one process and mirrored to       *)
(* devices.json.  An operation changes the map in one critical section, then *)
(* `persist` takes the lock again to serialise the map and writes it through *)
(* one fixed temporary file, without the lock.                               *)
(*                                                                           *)
(* Files are modelled as the names devices.json and devices.json.tmp bound   *)
(* to inodes: opening the temporary truncates what the name is bound to, a   *)
(* write goes to the opened inode wherever it is now linked, and a rename    *)
(* moves whatever the name is bound to.                                      *)
EXTENDS Naturals, FiniteSets

CONSTANTS
    Threads,    \* callers of the store in one process
    Devices,    \* device ids
    Pubs,       \* device public keys
    NodeIds,    \* CE NodeIds
    Seeds,      \* device ids the environment may seed as admins
    SeedPub,    \* the public key a seeded device has
    Inodes,     \* names for file bodies
    None        \* no value; also the empty NodeId

ASSUME DeviceStoreAssumption ==
    /\ Seeds \subseteq Devices /\ SeedPub \in Pubs
    /\ IsFiniteSet(Devices)
    /\ None \notin Pubs \cup NodeIds \cup Inodes

VARIABLES
    inner,   \* the map under the mutex
    status,  \* of the process: "down", "opening", "up"
    proc,    \* proc[t]: where thread t is in `persist`
    body,    \* body[i]: contents of inode i
    file,    \* the inode devices.json is bound to
    tmp      \* the inode devices.json.tmp is bound to

disk == <<body, file, tmp>>
vars == <<inner, status, proc, body, file, tmp>>

NodeId == NodeIds \cup {None}
Absent == [role |-> "none", pub |-> None, node |-> None]
Device == [role : {"admin", "pending"}, pub : Pubs, node : NodeId]
Registry == [Devices -> Device \cup {Absent}]
NoDevices == [d \in Devices |-> Absent]

Body == [kind : {"empty", "torn"}] \cup [kind : {"json"}, map : Registry]
Empty == [kind |-> "empty"]
Torn == [kind |-> "torn"]
Json(m) == [kind |-> "json", map |-> m]

Admins(m) == {d \in Devices : m[d].role = "admin"}
has_admins(m) == Admins(m) # {}

Idle == [pc |-> "idle", json |-> Empty, fd |-> None]
At(t, label) == proc[t].pc = label
Running(t) == status = "up" /\ At(t, "idle")
Goto(t, r) == proc' = [proc EXCEPT ![t] = r]
Persist(t) == Goto(t, [Idle EXCEPT !.pc = "persist"])
Set(d, r) == inner' = [inner EXCEPT ![d] = r]
-----------------------------------------------------------------------------
(* Operations.  Each action is one critical section; an operation that
   changes nothing (an admin exists, nothing pending, unknown device, last
   admin) returns without persisting and is no step. *)

claim(t, d, pub, node) ==
    /\ Running(t)
    /\ ~has_admins(inner)
    /\ Set(d, [role |-> "admin", pub |-> pub, node |-> node])
    /\ Persist(t) /\ UNCHANGED <<status, disk>>

OrElse(new, old) == IF new = None THEN old ELSE new

(* Mutant: a known device refreshes its key and NodeId whatever its role. *)
RequestRefreshesAnyone(t, d, pub, node) ==
    /\ Running(t)
    /\ Set(d, IF inner[d] = Absent
              THEN [role |-> "pending", pub |-> pub, node |-> node]
              ELSE [inner[d] EXCEPT !.pub = pub, !.node = OrElse(node, @)])
    /\ Persist(t) /\ UNCHANGED <<status, disk>>

request(t, d, pub, node) ==
    /\ Running(t)
    /\ \/ /\ inner[d].role = "admin"
          /\ Set(d, [inner[d] EXCEPT !.node = OrElse(node, @)])
       \/ /\ inner[d].role = "pending"
          /\ Set(d, [inner[d] EXCEPT !.pub = pub, !.node = OrElse(node, @)])
       \/ /\ inner[d] = Absent
          /\ Set(d, [role |-> "pending", pub |-> pub, node |-> node])
    /\ Persist(t) /\ UNCHANGED <<status, disk>>

set_node_id(t, d, node) ==
    /\ Running(t)
    /\ inner[d] # Absent
    /\ Set(d, [inner[d] EXCEPT !.node = node])
    /\ Persist(t) /\ UNCHANGED <<status, disk>>

(* Mutant: whatever is not an admin yet is promoted. *)
ApproveUnknown(t, d) ==
    /\ Running(t)
    /\ inner[d].role # "admin"
    /\ Set(d, [inner[d] EXCEPT !.role = "admin"])
    /\ Persist(t) /\ UNCHANGED <<status, disk>>

approve(t, d) ==
    /\ Running(t)
    /\ inner[d].role = "pending"
    /\ Set(d, [inner[d] EXCEPT !.role = "admin"])
    /\ Persist(t) /\ UNCHANGED <<status, disk>>

(* Mutant: off by one in the last-admin guard. *)
RevokeAnyAdmin(t, d) ==
    /\ Running(t)
    /\ inner[d] # Absent
    /\ ~(d \in Admins(inner) /\ Cardinality(Admins(inner)) < 1)
    /\ Set(d, Absent)
    /\ Persist(t) /\ UNCHANGED <<status, disk>>

revoke(t, d) ==
    /\ Running(t)
    /\ inner[d] # Absent
    /\ ~(d \in Admins(inner) /\ Cardinality(Admins(inner)) <= 1)
    /\ Set(d, Absent)
    /\ Persist(t) /\ UNCHANGED <<status, disk>>
-----------------------------------------------------------------------------
(* persist: snapshot, open and truncate the temporary, write it, rename it *)

persist_snapshot(t) ==
    /\ At(t, "persist")
    /\ Goto(t, [Idle EXCEPT !.pc = "open", !.json = Json(inner)])
    /\ UNCHANGED <<inner, status, disk>>

Unused(i) == i # file /\ i # tmp /\ \A t \in Threads : proc[t].fd # i

(* Mutant: the temporary is opened without truncating it. *)
OpenKeepingOld(t) ==
    /\ At(t, "open")
    /\ \E i \in Inodes :
        /\ IF tmp = None THEN Unused(i) ELSE i = tmp
        /\ tmp' = i
        /\ body' = IF tmp = None THEN [body EXCEPT ![i] = Empty] ELSE body
        /\ Goto(t, [proc[t] EXCEPT !.pc = "write", !.fd = i])
    /\ UNCHANGED <<inner, status, file>>

persist_open(t) ==
    /\ At(t, "open")
    /\ \E i \in Inodes :
        /\ IF tmp = None THEN Unused(i) ELSE i = tmp
        /\ tmp' = i
        /\ body' = [body EXCEPT ![i] = Empty]
        /\ Goto(t, [proc[t] EXCEPT !.pc = "write", !.fd = i])
    /\ UNCHANGED <<inner, status, file>>

(* Written from offset 0: what was there before and is longer shows behind. *)
Overwrite(old, new) == IF old \in {Empty, new} THEN {new} ELSE {new, Torn}

persist_write(t) ==
    /\ At(t, "write")
    /\ \E b \in Overwrite(body[proc[t].fd], proc[t].json) :
        body' = [body EXCEPT ![proc[t].fd] = b]
    /\ Goto(t, [Idle EXCEPT !.pc = "rename"])
    /\ UNCHANGED <<inner, status, file, tmp>>

(* The body devices.json had before has no name any more. *)
persist_rename(t) ==
    /\ At(t, "rename")
    /\ tmp # None
    /\ file' = tmp /\ tmp' = None
    /\ body' = [i \in Inodes |-> IF i = file THEN Empty ELSE body[i]]
    /\ status' = "up"
    /\ Goto(t, Idle)
    /\ UNCHANGED inner

(* A file operation fails (a rename also when the name is gone): the
   operation returns an error and leaves the map as it is. *)
persist_fail(t) ==
    /\ proc[t].pc \in {"open", "write", "rename"}
    /\ Goto(t, Idle)
    /\ status' = IF status = "opening" THEN "down" ELSE status
    /\ \E b \in IF At(t, "write") THEN {body[proc[t].fd], Torn} ELSE {Empty} :
        body' = IF At(t, "write") THEN [body EXCEPT ![proc[t].fd] = b] ELSE body
    /\ UNCHANGED <<inner, file, tmp>>
-----------------------------------------------------------------------------
(* Restart *)

Loaded == IF file = None \/ body[file] = Empty THEN Json(NoDevices) ELSE body[file]

Seeded(m, seed) ==
    [d \in Devices |-> IF d \in seed /\ m[d] = Absent
                       THEN [role |-> "admin", pub |-> SeedPub, node |-> None]
                       ELSE m[d]]

(* `open` fails on a file that does not parse. *)
open(t, seed) ==
    /\ status = "down"
    /\ Loaded # Torn
    /\ inner' = Seeded(Loaded.map, seed)
    /\ IF inner' = Loaded.map
       THEN status' = "up" /\ UNCHANGED proc
       ELSE status' = "opening" /\ Persist(t)
    /\ UNCHANGED disk

(* external: the process dies; a write under way may stop half-way *)
crash(half) ==
    /\ status # "down"
    /\ status' = "down"
    /\ half \subseteq {proc[t].fd : t \in {u \in Threads : At(u, "write")}}
    /\ body' = [i \in Inodes |-> IF i \in half THEN Torn ELSE body[i]]
    /\ proc' = [t \in Threads |-> Idle]
    /\ inner' = NoDevices
    /\ UNCHANGED <<file, tmp>>

Init ==
    /\ inner = NoDevices
    /\ status = "down"
    /\ proc = [t \in Threads |-> Idle]
    /\ body = [i \in Inodes |-> Empty]
    /\ file = None /\ tmp = None

Operation(t, d) ==
    \/ \E pub \in Pubs, node \in NodeId : claim(t, d, pub, node) \/ request(t, d, pub, node)
    \/ \E node \in NodeId : set_node_id(t, d, node)
    \/ approve(t, d) \/ revoke(t, d)

persist(t) ==
    \/ persist_snapshot(t) \/ persist_open(t) \/ persist_write(t)
    \/ persist_rename(t) \/ persist_fail(t)

Next ==
    \/ \E t \in Threads :
        \/ \E d \in Devices : Operation(t, d)
        \/ persist(t)
        \/ \E seed \in SUBSET Seeds : open(t, seed)
    \/ \E half \in SUBSET Inodes : crash(half)

Spec == Init /\ [][Next]_vars
-----------------------------------------------------------------------------
(* Properties *)

(* Type invariant: in particular every device in the map has a key, and a
   thread that is about to write has the temporary open. *)
TypeOK ==
    /\ inner \in Registry
    /\ status \in {"down", "opening", "up"}
    /\ proc \in [Threads -> [pc : {"idle", "persist", "open", "write", "rename"},
                            json : Body, fd : Inodes \cup {None}]]
    /\ \A t \in Threads : At(t, "write") => proc[t].fd \in Inodes
    /\ body \in [Inodes -> Body]
    /\ file \in Inodes \cup {None} /\ tmp \in Inodes \cup {None}

(* "The last admin cannot be removed by anyone": from one step of a running
   process to the next, the registry does not lose its last admin. *)
AdminRemains ==
    [][status = "up" /\ status' = "up" /\ has_admins(inner) => has_admins(inner')]_vars

(* Only a revocation, and enrolment anew, gives an admin another key: nothing
   a re-enrolling device sends replaces the key it is authenticated by. *)
AdminKeyFixed ==
    [][\A d \in Devices :
          /\ status = "up" /\ status' = "up"
          /\ inner[d].role = "admin" /\ inner'[d].role = "admin"
          => inner'[d].pub = inner[d].pub]_vars

(* What a restart would find in devices.json. *)
OperatorFound == Loaded # Torn /\ has_admins(Loaded.map)

(* "A crash mid-write cannot corrupt it": once devices.json names an admin,
   every later devices.json is readable and names one, so a restart never
   locks the operator out or reopens first-come `claim`. *)
OperatorSurvives == [][OperatorFound => OperatorFound']_vars

(* The map is "mirrored to disk": when an operation returns success, a restart
   would load the map as it is at that moment. *)
AckedIsDurable ==
    [][\A t \in Threads : At(t, "rename") /\ file' # file => Loaded' = Json(inner)]_vars
=============================================================================
