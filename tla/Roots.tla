------------------------------- MODULE Roots --------------------------------
(* The accepted roots of a verifier (crates/ce-iam/src/roots.rs) and the     *)
(* `ce-iam root` commands that maintain them.  Every command is a process of *)
(* its own: it reads the clock and roots.json, changes its copy and writes   *)
(* the copy back atomically; two commands may run at once.                   *)
EXTENDS Naturals, FiniteSets

CONSTANTS
    Keys,      \* root keys
    Admins,    \* processes that run `root` commands
    Delays,    \* the seconds given to --valid-in, --valid-for, --in-secs
    MaxRoots,  \* MAX_ROOTS
    MaxTime,   \* model bound on the clock
    None

ASSUME RootsAssumption ==
    /\ Delays \subseteq Nat
    /\ MaxRoots \in Nat /\ MaxTime \in Nat
    /\ None \notin Nat /\ None \notin [not_before : Nat, not_after : Nat]

VARIABLES
    clock,    \* unix seconds; 0 means "unset" wherever a time is stored
    roots,    \* roots[k]: the entry of key k in roots.json, or None
    admin,    \* admin[a]: the command process a is running
    retired   \* history: retired[k], when k retires, until it is added again

rootVars == <<roots, admin, retired>>

RootEntry == [not_before : Nat, not_after : Nat]
NoRoots == [k \in Keys |-> None]
Present(m) == {k \in Keys : m[k] # None}
Resting == [pc |-> "idle", map |-> NoRoots, op |-> None, key |-> None]

(* RootEntry::accepted_at; both ends are inclusive. *)
in_force(e, t) ==
    /\ e.not_before # 0 => e.not_before <= t
    /\ e.not_after # 0 => t <= e.not_after

(* Mutant: the end of the window is ignored. *)
AcceptedForEver(m, t) ==
    {k \in Present(m) : m[k].not_before # 0 => m[k].not_before <= t}

(* Roots::accepted_at *)
accepted_at(m, t) == {k \in Present(m) : in_force(m[k], t)}
-----------------------------------------------------------------------------
(* The commands: each reads the clock and the file and prepares a new map. *)

Prepare(a, op, k, m) ==
    /\ admin[a].pc = "idle"
    /\ admin' = [admin EXCEPT ![a] = [pc |-> "save", map |-> m, op |-> op, key |-> k]]
    /\ UNCHANGED <<clock, roots, retired>>

(* The window the command computes is never empty, so `add` refuses only a
   new key in a full set. *)
root_add(a, k, validIn, validFor) ==
    LET nb == IF validIn = 0 THEN 0 ELSE clock + validIn
        start == IF nb = 0 THEN clock ELSE nb
        na == IF validFor = 0 THEN 0 ELSE start + validFor
    IN /\ roots[k] # None \/ Cardinality(Present(roots)) < MaxRoots
       /\ Prepare(a, "add", k, [roots EXCEPT ![k] = [not_before |-> nb, not_after |-> na]])

root_retire(a, k, inSecs) ==
    /\ roots[k] # None
    /\ Prepare(a, "retire", k, [roots EXCEPT ![k].not_after = clock + inSecs])

root_rm(a, k) ==
    /\ roots[k] # None
    /\ Prepare(a, "rm", k, [roots EXCEPT ![k] = None])

(* The atomic write, after which the command reports success. *)
save(a) ==
    LET c == admin[a]
    IN /\ c.pc = "save"
       /\ roots' = c.map
       /\ retired' = CASE c.op = "add"    -> [retired EXCEPT ![c.key] = None]
                       [] c.op = "retire" -> [retired EXCEPT ![c.key] = c.map[c.key].not_after]
                       [] OTHER           -> retired
       /\ admin' = [admin EXCEPT ![a] = Resting]
       /\ UNCHANGED clock

(* The write fails or the process is stopped: the file is as it was. *)
save_fails(a) ==
    /\ admin[a].pc = "save"
    /\ admin' = [admin EXCEPT ![a] = Resting]
    /\ UNCHANGED <<clock, roots, retired>>

RootMap == [Keys -> RootEntry \cup {None}]
Command == [pc : {"idle", "save"}, map : RootMap,
            op : {"add", "retire", "rm", None}, key : Keys \cup {None}]

(* The type invariant of this module's variables: in particular a command
   that retires a key has an entry for it. *)
RootsTypeOK ==
    /\ clock \in Nat \ {0}
    /\ roots \in RootMap
    /\ retired \in [Keys -> Nat \cup {None}]
    /\ admin \in [Admins -> Command]
    /\ \A a \in Admins : admin[a].pc = "save" =>
        /\ admin[a].key \in Keys
        /\ admin[a].op = "retire" => admin[a].map[admin[a].key] # None

RootsInit ==
    /\ clock = 1
    /\ roots = NoRoots
    /\ admin = [a \in Admins |-> Resting]
    /\ retired = [k \in Keys |-> None]

cmd_root(a) ==
    \/ save(a) \/ save_fails(a)
    \/ \E k \in Keys :
        \/ root_rm(a, k)
        \/ \E s \in Delays : root_retire(a, k, s)
        \/ \E s, l \in Delays : root_add(a, k, s, l)
=============================================================================
