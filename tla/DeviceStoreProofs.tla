------------------------- MODULE DeviceStoreProofs --------------------------
(* Proofs about DeviceStore: for every number of threads, what the critical  *)
(* sections keep true of the map in memory; for a single caller, what        *)
(* `persist` keeps true of devices.json across crashes and restarts.         *)
EXTENDS DeviceStore, FiniteSetTheorems, TLAPS

(* The file bodies are told apart by their kind. *)
LEMMA BodiesDiffer ==
    /\ Empty \in Body /\ Torn \in Body /\ Empty # Torn
    /\ \A m : Json(m) # Empty /\ Json(m) # Torn /\ Json(m).map = m
    /\ \A m \in Registry : Json(m) \in Body
    /\ \A b \in Body : b = Empty \/ b = Torn \/ \E m \in Registry : b = Json(m)
<1>1. Empty # Torn
  BY DEF Empty, Torn
<1>2. \A m : Json(m) # Empty /\ Json(m) # Torn /\ Json(m).map = m
  <2> TAKE m
  <2>1. Json(m).kind = "json" /\ Json(m).map = m
    BY DEF Json
  <2>2. Empty.kind = "empty" /\ Torn.kind = "torn"
    BY DEF Empty, Torn
  <2> QED BY <2>1, <2>2
<1>3. \A b \in Body : b = Empty \/ b = Torn \/ \E m \in Registry : b = Json(m)
  BY DEF Body, Empty, Torn, Json
<1>4. \A m \in Registry : Json(m) \in Body
  BY DEF Body, Json
<1>5. Empty \in Body /\ Torn \in Body
  BY DEF Body, Empty, Torn
<1> QED BY <1>1, <1>2, <1>3, <1>4, <1>5

(* What `open` puts in the map is a registry. *)
LEMMA LoadedTyped ==
    ASSUME TypeOK, Loaded # Torn
    PROVE  Loaded.map \in Registry
<1>1. Json(NoDevices).map \in Registry
  BY BodiesDiffer DEF NoDevices, Registry
<1>2. CASE file = None \/ body[file] = Empty
  BY <1>1, <1>2 DEF Loaded
<1>3. CASE ~(file = None \/ body[file] = Empty)
  <2>1. body[file] \in Body
    BY <1>3 DEF TypeOK
  <2>2. PICK m \in Registry : body[file] = Json(m)
    BY <2>1, <1>3, BodiesDiffer DEF Loaded
  <2> QED BY <2>2, <1>3, BodiesDiffer DEF Loaded
<1> QED BY <1>2, <1>3

(* Every step keeps the map, the files and the threads well-formed. *)
LEMMA TypeInductive ==
    ASSUME TypeOK, [Next]_vars
    PROVE  TypeOK'
<1> USE DEF TypeOK
<1>op. ASSUME NEW t \in Threads, NEW d \in Devices, Operation(t, d)
       PROVE  TypeOK'
  <2>0. inner[d] # Absent => inner[d] \in Device
    BY DEF Registry
  <2>1. inner' \in Registry
    <3>1. ASSUME NEW pub \in Pubs, NEW node \in NodeId, claim(t, d, pub, node)
          PROVE  inner' \in Registry
      BY <3>1 DEF claim, Set, Registry, Device
    <3>2. ASSUME NEW pub \in Pubs, NEW node \in NodeId, request(t, d, pub, node)
          PROVE  inner' \in Registry
      <4>1. \A old \in NodeId : OrElse(node, old) \in NodeId
        BY DEF OrElse
      <4>2. \A r \in {"admin", "pending"} : inner[d].role = r => inner[d] \in Device
        BY <2>0 DEF Absent
      <4>3. [role |-> "pending", pub |-> pub, node |-> node] \in Device
        BY DEF Device
      <4>4. ASSUME inner[d] \in Device
            PROVE  /\ [inner[d] EXCEPT !.node = OrElse(node, @)] \in Device
                   /\ [inner[d] EXCEPT !.pub = pub, !.node = OrElse(node, @)] \in Device
        BY <4>1, <4>4 DEF Device
      <4> QED BY <3>2, <4>2, <4>3, <4>4 DEF request, Set, Registry
    <3>3. ASSUME NEW node \in NodeId, set_node_id(t, d, node)
          PROVE  inner' \in Registry
      <4>1. [inner[d] EXCEPT !.node = node] \in Device
        BY <2>0, <3>3 DEF set_node_id, Device
      <4> QED BY <4>1, <3>3 DEF set_node_id, Set, Registry
    <3>4. ASSUME approve(t, d) PROVE inner' \in Registry
      <4>1. inner[d] \in Device
        BY <2>0, <3>4 DEF approve, Absent
      <4>2. [inner[d] EXCEPT !.role = "admin"] \in Device
        BY <4>1 DEF Device
      <4> QED BY <4>2, <3>4 DEF approve, Set, Registry
    <3>5. ASSUME revoke(t, d) PROVE inner' \in Registry
      BY <3>5 DEF revoke, Set, Registry
    <3> QED BY <1>op, <3>1, <3>2, <3>3, <3>4, <3>5 DEF Operation
  <2>2. Persist(t) /\ UNCHANGED <<status, disk>>
    BY <1>op DEF Operation, claim, request, set_node_id, approve, revoke
  <2> QED BY <2>1, <2>2, BodiesDiffer DEF Persist, Goto, Idle, At, disk
<1>1. ASSUME NEW t \in Threads, persist_snapshot(t) PROVE TypeOK'
  <2>1. Json(inner) \in Body
    BY BodiesDiffer
  <2> QED BY <1>1, <2>1 DEF persist_snapshot, Goto, Idle, At, disk
<1>2. ASSUME NEW t \in Threads, persist_open(t) PROVE TypeOK'
  <2>1. PICK i \in Inodes :
            /\ tmp' = i
            /\ body' = [body EXCEPT ![i] = Empty]
            /\ Goto(t, [proc[t] EXCEPT !.pc = "write", !.fd = i])
    BY <1>2 DEF persist_open
  <2>2. body' \in [Inodes -> Body]
    BY <2>1, BodiesDiffer
  <2>3. [proc[t] EXCEPT !.pc = "write", !.fd = i]
            \in [pc : {"idle", "persist", "open", "write", "rename"},
                json : Body, fd : Inodes \cup {None}]
    OBVIOUS
  <2> QED BY <1>2, <2>1, <2>2, <2>3 DEF persist_open, Goto, At
<1>3. ASSUME NEW t \in Threads, persist_write(t) PROVE TypeOK'
  <2>1. Overwrite(body[proc[t].fd], proc[t].json) \subseteq Body
    BY BodiesDiffer DEF Overwrite
  <2> QED BY <1>3, <2>1, BodiesDiffer DEF persist_write, Goto, Idle, At
<1>4. ASSUME NEW t \in Threads, persist_rename(t) PROVE TypeOK'
  BY <1>4, BodiesDiffer DEF persist_rename, Goto, Idle, At
<1>5. ASSUME NEW t \in Threads, persist_fail(t) PROVE TypeOK'
  BY <1>5, BodiesDiffer DEF persist_fail, Goto, Idle, At
<1>6. ASSUME NEW t \in Threads, NEW seed \in SUBSET Seeds, open(t, seed) PROVE TypeOK'
  <2>1. Loaded.map \in Registry
    BY <1>6, LoadedTyped DEF open
  <2>2. inner' \in Registry
    BY <1>6, <2>1, DeviceStoreAssumption DEF open, Seeded, Registry, Device, NodeId
  <2> QED BY <1>6, <2>2, BodiesDiffer DEF open, Persist, Goto, Idle, At, disk
<1>7. ASSUME NEW half \in SUBSET Inodes, crash(half) PROVE TypeOK'
  BY <1>7, BodiesDiffer DEF crash, Idle, At, NoDevices, Registry
<1>8. CASE UNCHANGED vars
  BY <1>8 DEF vars, At
<1> QED BY <1>op, <1>1, <1>2, <1>3, <1>4, <1>5, <1>6, <1>7, <1>8 DEF Next, persist

(* The type invariant of the registry, for every set of threads and devices:
   every device in the map has a key, and what `open` loads is a registry. *)
THEOREM DeviceTypeOK == Spec => []TypeOK
<1>1. Init => TypeOK
  BY BodiesDiffer DEF Init, TypeOK, NoDevices, Registry, Idle, At
<1>2. TypeOK /\ [Next]_vars => TypeOK'
  BY TypeInductive
<1> QED BY <1>1, <1>2, PTL DEF Spec

(* Among at least two admins there is one besides any given device. *)
LEMMA AnotherAdmin ==
    ASSUME NEW m, NEW d \in Admins(m), ~(Cardinality(Admins(m)) <= 1)
    PROVE  \E e \in Admins(m) : e # d
<1> SUFFICES ASSUME Admins(m) = {d} PROVE FALSE
  OBVIOUS
<1>1. Cardinality({d}) = 1
  BY FS_Singleton
<1> QED BY <1>1

(* No operation removes the last admin from the map or changes an admin's
   key: the argument for the two action properties below. *)
LEMMA OperationKeepsAdmins ==
    ASSUME TypeOK, NEW t \in Threads, NEW d \in Devices, Operation(t, d)
    PROVE  /\ has_admins(inner) => has_admins(inner')
           /\ \A e \in Devices : inner[e].role = "admin" /\ inner'[e].role = "admin"
                  => inner'[e].pub = inner[e].pub
<1> USE DEF TypeOK, Registry
<1>0. \A e \in Devices : e # d => inner'[e] = inner[e]
  BY DEF Operation, claim, request, set_node_id, approve, revoke, Set
<1>3. ASSUME has_admins(inner) PROVE has_admins(inner')
  <2>1. CASE d \in Admins(inner)' \/ d \notin Admins(inner)
    BY <1>0, <1>3, <2>1 DEF has_admins, Admins
  <2>2. CASE d \in Admins(inner) /\ d \notin Admins(inner)'
    <3>0. inner[d] \in Device
      BY <2>2 DEF Admins, Absent
    <3>1. revoke(t, d)
      <4>1. ASSUME NEW pub \in Pubs, NEW node \in NodeId
            PROVE  ~claim(t, d, pub, node)
        BY <2>2 DEF claim, has_admins
      <4>2. ASSUME NEW pub \in Pubs, NEW node \in NodeId
            PROVE  ~request(t, d, pub, node)
        BY <2>2, <3>0 DEF request, Set, Admins, Absent, Device
      <4>3. ASSUME NEW node \in NodeId PROVE ~set_node_id(t, d, node)
        BY <2>2, <3>0 DEF set_node_id, Set, Admins, Device
      <4>4. ~approve(t, d)
        BY <2>2 DEF approve, Admins
      <4> QED BY <4>1, <4>2, <4>3, <4>4 DEF Operation
    <3>2. PICK e \in Admins(inner) : e # d
      BY <2>2, <3>1, AnotherAdmin DEF revoke
    <3>3. e \in Admins(inner)'
      BY <1>0, <3>2 DEF Admins
    <3> QED BY <3>3 DEF has_admins
  <2> QED BY <2>1, <2>2
<1>4. ASSUME inner[d].role = "admin", inner'[d].role = "admin"
      PROVE  inner'[d].pub = inner[d].pub
  <2>0. inner[d] \in Device
    BY <1>4 DEF Absent
  <2>1. ASSUME NEW pub \in Pubs, NEW node \in NodeId PROVE ~claim(t, d, pub, node)
    BY <1>4 DEF claim, has_admins, Admins
  <2>2. ~approve(t, d)
    BY <1>4 DEF approve
  <2>3. ~revoke(t, d)
    BY <1>4 DEF revoke, Set, Absent
  <2>4. ASSUME NEW pub \in Pubs, NEW node \in NodeId, request(t, d, pub, node)
        PROVE  inner'[d].pub = inner[d].pub
    BY <1>4, <2>0, <2>4 DEF request, Set, Absent, Device
  <2>5. ASSUME NEW node \in NodeId, set_node_id(t, d, node)
        PROVE  inner'[d].pub = inner[d].pub
    BY <2>0, <2>5 DEF set_node_id, Set, Device
  <2> QED BY <2>1, <2>2, <2>3, <2>4, <2>5 DEF Operation
<1> QED BY <1>0, <1>3, <1>4

(* "The last admin cannot be removed by anyone (that would lock the operator
   out)", whatever the threads do at the same time. *)
THEOREM LastAdminKept == Spec => AdminRemains
<1>1. TypeOK /\ [Next]_vars =>
        [status = "up" /\ status' = "up" /\ has_admins(inner) => has_admins(inner')]_vars
  <2> SUFFICES ASSUME TypeOK, Next, status = "up", status' = "up", has_admins(inner)
               PROVE  has_admins(inner')
    OBVIOUS
  <2>1. ASSUME NEW t \in Threads, NEW d \in Devices, Operation(t, d)
        PROVE  has_admins(inner')
    BY <2>1, OperationKeepsAdmins
  <2>2. ASSUME NEW t \in Threads, persist(t) PROVE has_admins(inner')
    BY <2>2 DEF persist, persist_snapshot, persist_open, persist_write, persist_rename,
                persist_fail
  <2> QED BY <2>1, <2>2 DEF Next, open, crash
<1> QED BY <1>1, DeviceTypeOK, PTL DEF Spec, AdminRemains

(* No request, claim, approval or NodeId binding replaces the key of a device
   that is an admin. *)
THEOREM AdminKeyKept == Spec => AdminKeyFixed
<1>1. TypeOK /\ [Next]_vars =>
        [\A d \in Devices :
            /\ status = "up" /\ status' = "up"
            /\ inner[d].role = "admin" /\ inner'[d].role = "admin"
            => inner'[d].pub = inner[d].pub]_vars
  <2> SUFFICES ASSUME TypeOK, Next, status = "up", status' = "up", NEW e \in Devices,
                      inner[e].role = "admin", inner'[e].role = "admin"
               PROVE  inner'[e].pub = inner[e].pub
    OBVIOUS
  <2>1. ASSUME NEW t \in Threads, NEW d \in Devices, Operation(t, d)
        PROVE  inner'[e].pub = inner[e].pub
    BY <2>1, OperationKeepsAdmins
  <2>2. ASSUME NEW t \in Threads, persist(t) PROVE inner'[e].pub = inner[e].pub
    BY <2>2 DEF persist, persist_snapshot, persist_open, persist_write, persist_rename,
                persist_fail
  <2> QED BY <2>1, <2>2 DEF Next, open, crash
<1> QED BY <1>1, DeviceTypeOK, PTL DEF Spec, AdminKeyFixed
-----------------------------------------------------------------------------
(* A single caller.  What the file already says of the operator, the map says
   too; what a write in progress will publish is the map as it is. *)
SnapshotCurrent ==
    \A t \in Threads :
        /\ proc[t].pc \in {"idle", "persist", "open"} => proc[t].fd = None
        /\ proc[t].pc \in {"open", "write"} => proc[t].json = Json(inner)
        /\ At(t, "write") => proc[t].fd = tmp /\ body[tmp] = Empty
        /\ At(t, "rename") => tmp # None /\ body[tmp] = Json(inner)
        /\ status = "down" => At(t, "idle")
        /\ status = "opening" => ~At(t, "idle")
TmpApart == file # None => file # tmp
MapKeepsOperator == status # "down" /\ OperatorFound => has_admins(inner)
SoleInv == TypeOK /\ SnapshotCurrent /\ TmpApart /\ MapKeepsOperator

(* The steps that leave devices.json alone leave what it says alone. *)
LEMMA SameFile ==
    ASSUME file' = file, file # None => body'[file] = body[file]
    PROVE  Loaded' = Loaded /\ (OperatorFound' <=> OperatorFound)
<1>1. Loaded' = Loaded
  BY DEF Loaded
<1> QED BY <1>1 DEF OperatorFound

(* With one caller, a step keeps SoleInv, never loses an operator that
   devices.json names, and publishes exactly the map. *)
LEMMA SoleStep ==
    ASSUME NEW t0, Threads = {t0}, SoleInv, [Next]_vars
    PROVE  /\ SoleInv'
           /\ OperatorFound => OperatorFound'
           /\ At(t0, "rename") /\ file' # file => Loaded' = Json(inner)
<1> USE DEF SoleInv
<1>0. TypeOK'
  BY TypeInductive
<1>op. ASSUME NEW d \in Devices, Operation(t0, d)
       PROVE  /\ SoleInv'
              /\ OperatorFound => OperatorFound'
              /\ file' = file
  <2>1. Persist(t0) /\ UNCHANGED <<status, disk>> /\ Running(t0)
    BY <1>op DEF Operation, claim, request, set_node_id, approve, revoke
  <2>2. file' = file /\ Loaded' = Loaded /\ (OperatorFound' <=> OperatorFound)
    BY <2>1, SameFile DEF disk
  <2>3. SnapshotCurrent'
    BY <2>1 DEF SnapshotCurrent, Persist, Goto, Idle, At, Running, disk, TypeOK
  <2>4. MapKeepsOperator'
    BY <2>1, <2>2, <1>op, OperationKeepsAdmins DEF MapKeepsOperator, Running
  <2> QED BY <1>0, <2>1, <2>2, <2>3, <2>4 DEF TmpApart, disk
<1>1. ASSUME persist_snapshot(t0)
      PROVE  SoleInv' /\ (OperatorFound => OperatorFound') /\ file' = file
  <2>1. Loaded' = Loaded /\ (OperatorFound' <=> OperatorFound)
    BY <1>1, SameFile DEF persist_snapshot, disk
  <2>2. SnapshotCurrent'
    BY <1>1 DEF persist_snapshot, SnapshotCurrent, Goto, Idle, At, disk, TypeOK
  <2> QED BY <1>0, <1>1, <2>1, <2>2 DEF persist_snapshot, MapKeepsOperator, TmpApart, disk
<1>2. ASSUME persist_open(t0)
      PROVE  SoleInv' /\ (OperatorFound => OperatorFound') /\ file' = file
  <2>1. PICK i \in Inodes :
            /\ IF tmp = None THEN Unused(i) ELSE i = tmp
            /\ tmp' = i
            /\ body' = [body EXCEPT ![i] = Empty]
            /\ Goto(t0, [proc[t0] EXCEPT !.pc = "write", !.fd = i])
    BY <1>2 DEF persist_open
  <2>2. i # file
    BY <2>1 DEF Unused, TmpApart, TypeOK
  <2>3. file' = file /\ Loaded' = Loaded /\ (OperatorFound' <=> OperatorFound)
    BY <1>2, <2>1, <2>2, SameFile DEF persist_open, TypeOK
  <2>4. SnapshotCurrent'
    BY <1>2, <2>1 DEF persist_open, SnapshotCurrent, Goto, At, TypeOK
  <2> QED BY <1>0, <1>2, <2>1, <2>2, <2>3, <2>4 DEF persist_open, MapKeepsOperator, TmpApart
<1>3. ASSUME persist_write(t0)
      PROVE  SoleInv' /\ (OperatorFound => OperatorFound') /\ file' = file
  <2>1. proc[t0].fd = tmp /\ body[tmp] = Empty /\ proc[t0].json = Json(inner) /\ tmp \in Inodes
    BY <1>3 DEF persist_write, SnapshotCurrent, At, TypeOK
  <2>2. body' = [body EXCEPT ![tmp] = Json(inner)]
    BY <1>3, <2>1 DEF persist_write, Overwrite
  <2>3. file' = file /\ Loaded' = Loaded /\ (OperatorFound' <=> OperatorFound)
    BY <1>3, <2>1, <2>2, SameFile DEF persist_write, TmpApart, TypeOK
  <2>4. SnapshotCurrent'
    BY <1>3, <2>1, <2>2, DeviceStoreAssumption
    DEF persist_write, SnapshotCurrent, Goto, Idle, At, TypeOK
  <2> QED BY <1>0, <1>3, <2>3, <2>4 DEF persist_write, MapKeepsOperator, TmpApart
<1>4. ASSUME persist_rename(t0)
      PROVE  SoleInv' /\ (OperatorFound => OperatorFound') /\ Loaded' = Json(inner)
  <2>1. tmp \in Inodes /\ body[tmp] = Json(inner) /\ tmp # file /\ status # "down"
    BY <1>4 DEF persist_rename, SnapshotCurrent, TmpApart, At, TypeOK
  <2>2. file' = tmp /\ body'[tmp] = Json(inner) /\ tmp # None
    BY <1>4, <2>1 DEF persist_rename
  <2>3. Loaded' = Json(inner) /\ inner' = inner
    BY <1>4, <2>2, BodiesDiffer DEF Loaded, persist_rename
  <2>4. OperatorFound' <=> has_admins(inner)
    BY <2>3, BodiesDiffer DEF OperatorFound
  <2>5. SnapshotCurrent'
    BY <1>4 DEF persist_rename, SnapshotCurrent, Goto, Idle, At, TypeOK
  <2> QED BY <1>0, <1>4, <2>1, <2>2, <2>3, <2>4, <2>5
          DEF persist_rename, MapKeepsOperator, TmpApart
<1>5. ASSUME persist_fail(t0)
      PROVE  SoleInv' /\ (OperatorFound => OperatorFound') /\ file' = file
  <2>1. file # None => body'[file] = body[file]
    BY <1>5 DEF persist_fail, SnapshotCurrent, TmpApart, At, TypeOK
  <2>2. file' = file /\ Loaded' = Loaded /\ (OperatorFound' <=> OperatorFound)
    BY <1>5, <2>1, SameFile DEF persist_fail
  <2>3. SnapshotCurrent'
    BY <1>5 DEF persist_fail, SnapshotCurrent, Goto, Idle, At, TypeOK
  <2>4. status' # "down" => status # "down"
    BY <1>5 DEF persist_fail, SnapshotCurrent, At
  <2> QED BY <1>0, <1>5, <2>2, <2>3, <2>4 DEF persist_fail, MapKeepsOperator, TmpApart
<1>6. ASSUME NEW seed \in SUBSET Seeds, open(t0, seed)
      PROVE  SoleInv' /\ (OperatorFound => OperatorFound') /\ file' = file
  <2>1. file' = file /\ Loaded' = Loaded /\ (OperatorFound' <=> OperatorFound)
    BY <1>6, SameFile DEF open, disk
  <2>2. has_admins(Loaded.map) => has_admins(inner')
    <3>1. ASSUME NEW d \in Admins(Loaded.map) PROVE d \in Admins(inner)'
      BY <1>6, <3>1 DEF open, Seeded, Admins, Absent
    <3> QED BY <3>1 DEF has_admins
  <2>3. SnapshotCurrent'
    BY <1>6 DEF open, SnapshotCurrent, Persist, Goto, Idle, At, disk, TypeOK
  <2> QED BY <1>0, <1>6, <2>1, <2>2, <2>3
  DEF open, MapKeepsOperator, OperatorFound, TmpApart, disk
<1>7. ASSUME NEW half \in SUBSET Inodes, crash(half)
      PROVE  SoleInv' /\ (OperatorFound => OperatorFound') /\ file' = file
  <2>1. file # None => file \notin half
    BY <1>7 DEF crash, SnapshotCurrent, TmpApart, At, TypeOK
  <2>2. file' = file /\ Loaded' = Loaded /\ (OperatorFound' <=> OperatorFound)
    BY <1>7, <2>1, SameFile DEF crash, TypeOK
  <2>3. SnapshotCurrent'
    BY <1>7 DEF crash, SnapshotCurrent, Idle, At
  <2> QED BY <1>0, <1>7, <2>2, <2>3 DEF crash, MapKeepsOperator, TmpApart
<1>8. ASSUME UNCHANGED vars
      PROVE  SoleInv' /\ (OperatorFound => OperatorFound') /\ file' = file
  <2>1. Loaded' = Loaded /\ (OperatorFound' <=> OperatorFound)
    BY <1>8, SameFile DEF vars
  <2> QED BY <1>0, <1>8, <2>1 DEF vars, SnapshotCurrent, MapKeepsOperator, TmpApart, At
<1> QED BY <1>op, <1>1, <1>2, <1>3, <1>4, <1>5, <1>6, <1>7, <1>8 DEF Next, persist

(* SoleInv holds initially and forever when the store has a single caller. *)
LEMMA SoleInvariant ==
    ASSUME NEW t0, Threads = {t0}
    PROVE  Spec => []SoleInv
<1>1. Init => SoleInv
  <2>1. Init => TypeOK
    BY BodiesDiffer DEF Init, TypeOK, NoDevices, Registry, Idle, At
  <2> QED BY <2>1 DEF Init, SoleInv, SnapshotCurrent, TmpApart, MapKeepsOperator, Idle, At
<1>2. SoleInv /\ [Next]_vars => SoleInv'
  BY SoleStep
<1> QED BY <1>1, <1>2, PTL DEF Spec

(* With a single caller, whatever crashes, failing file operations and
   restarts do, devices.json never stops naming an operator: it is replaced
   only by a complete file that names one. *)
THEOREM SoleCallerKeepsOperator ==
    ASSUME NEW t0, Threads = {t0}
    PROVE  Spec => OperatorSurvives
<1>1. SoleInv /\ [Next]_vars => [OperatorFound => OperatorFound']_vars
  BY SoleStep
<1> QED BY <1>1, SoleInvariant, PTL DEF Spec, OperatorSurvives

(* With a single caller, an operation that returns success has published the
   map as it is. *)
THEOREM SoleCallerDurable ==
    ASSUME NEW t0, Threads = {t0}
    PROVE  Spec => AckedIsDurable
<1>1. SoleInv /\ [Next]_vars =>
        [\A t \in Threads : At(t, "rename") /\ file' # file => Loaded' = Json(inner)]_vars
  BY SoleStep
<1> QED BY <1>1, SoleInvariant, PTL DEF Spec, AckedIsDurable
=============================================================================
