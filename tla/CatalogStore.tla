---------------------------- MODULE CatalogStore ----------------------------
(* The durable catalog (crates/ce-iam/src/store.rs over catalog.rs): a       *)
(* process loads the operation log, replays it, and for every operation      *)
(* writes the extended log to a temporary file of its own and renames it     *)
(* over the log before it touches its memory.  The store is documented as    *)
(* single-writer; Processes says how many really have it open.  A process    *)
(* may stop after any step and start again.                                  *)
EXTENDS Catalog, SequencesExt

CONSTANTS
    Processes,   \* the processes that open the store
    Weight,      \* Weight[d]: the size of an operation that carries document d
    MaxOps,      \* MAX_CATALOG_OPS
    MaxBytes,    \* MAX_STORE_BYTES
    MaxAudit     \* MAX_AUDIT_ENTRIES

ASSUME CatalogStoreAssumption ==
    /\ MaxOps \in Nat /\ MaxBytes \in Nat /\ MaxAudit \in Nat \ {0}
    /\ Weight \in [Docs -> Nat]

VARIABLES
    file,      \* catalog.json: the log (a missing file is the empty log)
    running,   \* running[p]: process p has the store open
    log,       \* log[p]: its copy of the log
    catalog,   \* catalog[p]: its live catalog
    pc,        \* pc[p]: "idle", or the operation whose temporary file is written
    pending    \* pending[p]: the log in its temporary file

vars == <<file, running, log, catalog, pc, pending>>

Empty == [content |-> new, version |-> 0, audit |-> <<>>]

(* Mutant: a full audit ring drops the newest line. *)
FoldDroppingNewest(cat, o) ==
    LET v == cat.version + 1
        trail == Append(cat.audit, [version |-> v, op |-> o])
    IN [content |-> apply(cat.content, o), version |-> v,
        audit |-> IF Len(trail) > MaxAudit THEN SubSeq(trail, 1, MaxAudit) ELSE trail]

(* Catalog::apply with the version and the audit ring. *)
fold(cat, o) ==
    LET v == cat.version + 1
        trail == Append(cat.audit, [version |-> v, op |-> o])
        overflow == Len(trail) - MaxAudit
    IN [content |-> apply(cat.content, o), version |-> v,
        audit |-> IF Len(trail) > MaxAudit THEN SubSeq(trail, overflow + 1, Len(trail)) ELSE trail]

replay(entries) ==
    LET upto[n \in 0..Len(entries)] ==
            IF n = 0 THEN Empty ELSE fold(upto[n - 1], entries[n])
    IN upto[Len(entries)]

bytes(entries) ==
    LET size(o) == IF "doc" \in DOMAIN o THEN Weight[o.doc] ELSE 1
        upto[n \in 0..Len(entries)] == IF n = 0 THEN 0 ELSE upto[n - 1] + size(entries[n])
    IN upto[Len(entries)]

(* load_json_or_default and the length check of CatalogStore::open *)
loadable(entries) == bytes(entries) <= MaxBytes /\ Len(entries) <= MaxOps

open(p) ==
    /\ ~running[p]
    /\ loadable(file)
    /\ running' = [running EXCEPT ![p] = TRUE]
    /\ log' = [log EXCEPT ![p] = file]
    /\ catalog' = [catalog EXCEPT ![p] = replay(file)]
    /\ UNCHANGED <<file, pc, pending>>

(* Mutant: the operation is folded into memory before it is on disk. *)
ApplyEagerly(p, o) ==
    /\ running[p] /\ pc[p] = "idle"
    /\ Len(log[p]) < MaxOps
    /\ validate(catalog[p].content, o)
    /\ pc' = [pc EXCEPT ![p] = "apply"]
    /\ pending' = [pending EXCEPT ![p] = Append(log[p], o)]
    /\ log' = [log EXCEPT ![p] = Append(@, o)]
    /\ catalog' = [catalog EXCEPT ![p] = fold(@, o)]
    /\ UNCHANGED <<file, running>>

apply_write(p, o) ==
    /\ running[p] /\ pc[p] = "idle"
    /\ Len(log[p]) < MaxOps
    /\ validate(catalog[p].content, o)
    /\ pc' = [pc EXCEPT ![p] = "apply"]
    /\ pending' = [pending EXCEPT ![p] = Append(log[p], o)]
    /\ UNCHANGED <<file, running, log, catalog>>

(* Mutant: the appended operation is put on top of whatever the file holds
   now, not on top of the log it was validated against. *)
CommitOntoFile(p) ==
    /\ pc[p] = "apply"
    /\ LET o == pending[p][Len(pending[p])]
       IN /\ file' = Append(file, o)
          /\ log' = [log EXCEPT ![p] = Append(file, o)]
          /\ catalog' = [catalog EXCEPT ![p] = fold(@, o)]
    /\ pc' = [pc EXCEPT ![p] = "idle"]
    /\ pending' = [pending EXCEPT ![p] = <<>>]
    /\ UNCHANGED running

(* The rename, and the commit to memory that follows a successful one. *)
apply_commit(p) ==
    /\ pc[p] = "apply"
    /\ file' = pending[p]
    /\ log' = [log EXCEPT ![p] = pending[p]]
    /\ catalog' = [catalog EXCEPT ![p] = fold(@, pending[p][Len(pending[p])])]
    /\ pc' = [pc EXCEPT ![p] = "idle"]
    /\ pending' = [pending EXCEPT ![p] = <<>>]
    /\ UNCHANGED running

Puts(op, docs) ==
    {[op |-> op, name |-> x, doc |-> docs[x]] : x \in {y \in DOMAIN docs : docs[y] # None}}

(* Mutant: the snapshot holds the roles only. *)
SnapshotOfRoles(c) == SetToSeq(Puts("put_role", c.roles))

(* Mutant: the snapshot also says which roles are not attached. *)
SnapshotOfAllPairs(c) ==
    SetToSeq(Puts("put_role", c.roles))
        \o SetToSeq(Puts("put_policy", c.policies))
        \o SetToSeq({[op |-> IF a \in c.attachments THEN "attach_role" ELSE "detach_role",
                      name |-> a[2], principal |-> a[1]] :
                     a \in {b \in Principals \X RoleNames : c.roles[b[2]] # None}})

(* The minimal log: roles, policies, then attachments. *)
snapshot(c) ==
    SetToSeq(Puts("put_role", c.roles))
        \o SetToSeq(Puts("put_policy", c.policies))
        \o SetToSeq({[op |-> "attach_role", name |-> a[2], principal |-> a[1]] : a \in c.attachments})

compact_write(p) ==
    /\ running[p] /\ pc[p] = "idle"
    /\ pc' = [pc EXCEPT ![p] = "compact"]
    /\ pending' = [pending EXCEPT ![p] = snapshot(catalog[p].content)]
    /\ UNCHANGED <<file, running, log, catalog>>

compact_commit(p) ==
    /\ pc[p] = "compact"
    /\ file' = pending[p]
    /\ log' = [log EXCEPT ![p] = pending[p]]
    /\ catalog' = [catalog EXCEPT ![p] = replay(pending[p])]
    /\ pc' = [pc EXCEPT ![p] = "idle"]
    /\ pending' = [pending EXCEPT ![p] = <<>>]
    /\ UNCHANGED running

(* Writing, syncing or renaming the temporary fails: an error is returned. *)
write_fails(p) ==
    /\ pc[p] # "idle"
    /\ pc' = [pc EXCEPT ![p] = "idle"]
    /\ pending' = [pending EXCEPT ![p] = <<>>]
    /\ UNCHANGED <<file, running, log, catalog>>

(* external: the process ends, between two operations or within one *)
exit(p) ==
    /\ running[p]
    /\ running' = [running EXCEPT ![p] = FALSE]
    /\ log' = [log EXCEPT ![p] = <<>>]
    /\ catalog' = [catalog EXCEPT ![p] = Empty]
    /\ pc' = [pc EXCEPT ![p] = "idle"]
    /\ pending' = [pending EXCEPT ![p] = <<>>]
    /\ UNCHANGED file

Init ==
    /\ file = <<>>
    /\ running = [p \in Processes |-> FALSE]
    /\ log = [p \in Processes |-> <<>>]
    /\ catalog = [p \in Processes |-> Empty]
    /\ pc = [p \in Processes |-> "idle"]
    /\ pending = [p \in Processes |-> <<>>]

Next ==
    \E p \in Processes :
        \/ open(p) \/ apply_commit(p)
        \/ compact_write(p) \/ compact_commit(p)
        \/ write_fails(p) \/ exit(p)
        \/ \E o \in CatalogOp : apply_write(p, o)

Spec == Init /\ [][Next]_vars
-----------------------------------------------------------------------------
(* Properties *)

Recorded ==
    {o \in CatalogOp : o.op \in {"put_role", "put_policy", "attach_role"} => o.name # Blank}
Content ==
    [roles : [RoleNames -> Docs \cup {None}], policies : [PolicyNames -> Docs \cup {None}],
     attachments : SUBSET (Principals \X RoleNames)]

(* Type invariant: in particular no log puts or attaches anything nameless. *)
TypeOK ==
    /\ file \in Seq(Recorded)
    /\ running \in [Processes -> BOOLEAN]
    /\ log \in [Processes -> Seq(Recorded)]
    /\ pending \in [Processes -> Seq(Recorded)]
    /\ pc \in [Processes -> {"idle", "apply", "compact"}]
    /\ \A p \in Processes :
        /\ catalog[p].content \in Content
        /\ catalog[p].version \in Nat
        /\ catalog[p].audit \in Seq([version : Nat \ {0}, op : Recorded])

(* What a log makes of the content, version and audit ring left out. *)
replay_content(entries) ==
    LET upto[n \in 0..Len(entries)] == IF n = 0 THEN new ELSE apply(upto[n - 1], entries[n])
    IN upto[Len(entries)]

Durable == INSTANCE DurableCatalog WITH content <- replay_content(file)

(* The catalog on disk changes by one valid operation at a time, through
   crashes, failed writes and restarts. *)
ImplementsDurableCatalog == Durable!Spec

(* Compaction works "without losing any effective state": the log that
   replaces the old one reloads to the same roles, policies and attachments. *)
CompactionKeepsState ==
    [][(\E p \in Processes : compact_commit(p)) =>
          replay(file').content = replay(file).content]_vars

(* Compaction "bounds on-disk growth": what it writes has no more operations
   and no more bytes than the log it replaces, so a store that opens, opens
   after it was compacted. *)
CompactionShrinks ==
    [][\A p \in Processes : compact_write(p) =>
          Len(pending'[p]) <= Len(log[p]) /\ bytes(pending'[p]) <= bytes(log[p])]_vars

(* "The on-disk log and the in-memory state never diverge": between
   operations a sole writer's live catalog, its version and its audit ring are
   what a reload would reproduce. *)
MemoryIsDisk ==
    \A p \in Processes : running[p] =>
        log[p] = file /\ catalog[p] = replay(file) /\ catalog[p].version = Len(file)

(* "A durable write can never record an invalid op": every operation in the
   file was valid in the catalog the operations before it produce, so every
   attached role exists after a reload, also when two processes overwrite each
   other's log. *)
FileIsValidLog ==
    \A i \in 1..Len(file) : validate(replay(SubSeq(file, 1, i - 1)).content, file[i])

(* "An effective-grant lookup never references a missing role": whatever was
   removed, attached, compacted or reloaded, an attached role exists. *)
AttachedRolesExist ==
    \A p \in Processes : \A a \in catalog[p].content.attachments :
        catalog[p].content.roles[a[2]] # None

(* The audit ring holds the most recent lines of the log, each with the
   version it produced, and drops the oldest first. *)
AuditIsRecent ==
    \A p \in Processes :
        LET ring == catalog[p].audit
            drop == Len(log[p]) - Len(ring)
        IN /\ Len(ring) = IF Len(log[p]) > MaxAudit THEN MaxAudit ELSE Len(log[p])
           /\ \A i \in 1..Len(ring) : ring[i] = [version |-> drop + i, op |-> log[p][drop + i]]

(* "A reload reproduces the exact catalog": what the store has written, the
   store opens.  The code bounds a log in operations when it writes and in
   bytes when it reads; a run with heavy documents refutes this. *)
Reloadable == loadable(file)

(* The effective grants are "the set of capabilities the catalog would mint":
   for a principal whose attached roles all compile, the report has one group
   for each scope some role mints in, from exactly the roles that do, with
   exactly the abilities they mint in it: nothing hidden, nothing added. *)
EffectiveIsMint ==
    \A p \in Processes, x \in Principals :
        LET c == catalog[p].content
            roles == roles_for(c, x)
            report == effective_grants(c, x)
            minting(k) == {r \in roles : k \in ScopeKeys(c.roles[r])}
        IN effective_ok(c, x) /\ (\A r \in roles : compile_scopes_ok(c.roles[r])) =>
            /\ {g.scope : g \in report} = UNION {ScopeKeys(c.roles[r]) : r \in roles}
            /\ \A g, h \in report : g.scope = h.scope => g = h
            /\ \A g \in report :
                /\ g.from_roles = minting(g.scope)
                /\ expand_actions(g.abilities) =
                       UNION {CompileScope(c.roles[r], g.scope).abilities : r \in minting(g.scope)}
=============================================================================
