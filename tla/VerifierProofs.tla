--------------------------- MODULE VerifierProofs ---------------------------
(* Proofs about module Verifier, for any number of verifiers, administrators,*)
(* keys, links and tokens, and any TTL; one of them needs a sole             *)
(* administrator.                                                            *)
EXTENDS Verifier, TLAPS

(* At time t, with the revocations r on the chain, snapshot c misses no link
   that was revoked before it was asked for, and is not from the future. *)
Complete(c, t, r) ==
    /\ c.fetched_at <= t
    /\ \A l \in Links : r[l] # None => l \in c.pairs \/ c.fetched_at <= r[l]

(* Every snapshot, on disk or in a verifier, is complete. *)
SnapshotsComplete ==
    /\ Complete(cache, clock, revokedAt)
    /\ \A v \in Verifiers : Complete(proc[v].cached, clock, revokedAt) /\ proc[v].now <= clock

(* What a verifier that is about to decide, or has allowed, has checked. *)
Checked(p) ==
    /\ p.live => p.pc \in {"decide", "allow", "deny"}
    /\ p.pc = "save" \/ p.live => p.cached.fetched_at = p.now
    /\ (p.pc \in {"decide", "allow"} /\ p.stance = "closed" /\ ~p.live) => is_fresh(p.cached, p.now)
    /\ p.pc = "allow" => p.token.links \cap p.cached.pairs = {}

VerifiersChecked == \A v \in Verifiers : Checked(proc[v])

IInv == TypeOK /\ SnapshotsComplete /\ VerifiersChecked

USE DEF RootMap, RootEntry, Command, Snapshot, At, Goto

(* The type invariant holds at the start. *)
LEMMA TypeInit == Init => TypeOK
  BY RootsAssumption, VerifierAssumption
     DEF Init, RootsInit, TypeOK, RootsTypeOK, NoRoots, Resting, NeverFetched, Idle, Process

(* No root command breaks its part of the type invariant. *)
LEMMA RootsTypeStep ==
    ASSUME RootsTypeOK, NEW a \in Admins, cmd_root(a) PROVE RootsTypeOK'
<1> USE RootsAssumption DEF RootsTypeOK
<1>1. CASE save(a)
  <2> DEFINE c == admin[a]
  <2>1. c \in Command /\ c.pc = "save" /\ c.key \in Keys
    BY <1>1 DEF save
  <2>2. roots' \in RootMap
    BY <1>1, <2>1 DEF save
  <2>3. retired' \in [Keys -> Nat \cup {None}]
    <3>1. CASE c.op = "add"
      BY <1>1, <2>1, <3>1 DEF save
    <3>2. CASE c.op = "retire"
      <4>1. c.map[c.key] \in RootEntry
        BY <1>1, <2>1, <3>2
      <4> QED BY <1>1, <2>1, <3>2, <4>1 DEF save
    <3>3. CASE c.op \notin {"add", "retire"}
      BY <1>1, <2>1, <3>3 DEF save
    <3> QED BY <3>1, <3>2, <3>3
  <2>4. Resting \in Command
    BY DEF Resting, NoRoots
  <2> QED BY <1>1, <2>2, <2>3, <2>4 DEF save, Resting
<1>2. CASE save_fails(a)
  BY <1>2 DEF save_fails, Resting, NoRoots
<1>3. ASSUME NEW k \in Keys, root_rm(a, k) PROVE RootsTypeOK'
  BY <1>3 DEF root_rm, Prepare
<1>4. ASSUME NEW k \in Keys, NEW s \in Delays, root_retire(a, k, s) PROVE RootsTypeOK'
  <2> DEFINE e == [roots[k] EXCEPT !.not_after = clock + s]
             map == [roots EXCEPT ![k].not_after = clock + s]
  <2>1. roots[k] \in RootEntry /\ clock + s \in Nat
    BY <1>4 DEF root_retire
  <2>2. e \in RootEntry /\ e # None
    BY <2>1
  <2>3. map \in RootMap /\ map[k] = e
    BY <2>2
  <2>4. admin' = [admin EXCEPT ![a] = [pc |-> "save", map |-> map, op |-> "retire", key |-> k]]
    BY <1>4 DEF root_retire, Prepare
  <2>5. UNCHANGED <<clock, roots, retired>>
    BY <1>4 DEF root_retire, Prepare
  <2> HIDE DEF map, e
  <2> QED BY <2>2, <2>3, <2>4, <2>5
<1>5. ASSUME NEW k \in Keys, NEW s \in Delays, NEW l \in Delays, root_add(a, k, s, l)
      PROVE RootsTypeOK'
  <2> DEFINE nb == IF s = 0 THEN 0 ELSE clock + s
             start == IF nb = 0 THEN clock ELSE nb
             na == IF l = 0 THEN 0 ELSE start + l
             map == [roots EXCEPT ![k] = [not_before |-> nb, not_after |-> na]]
  <2>1. nb \in Nat /\ na \in Nat
    <3>1. s \in Nat /\ l \in Nat /\ clock \in Nat
      OBVIOUS
    <3>2. nb \in Nat
      BY <3>1
    <3>3. start \in Nat
      BY <3>1, <3>2
    <3> HIDE DEF start
    <3> QED BY <3>1, <3>2, <3>3
  <2>2. map \in RootMap
    BY <2>1
  <2>3. admin' = [admin EXCEPT ![a] = [pc |-> "save", map |-> map, op |-> "add", key |-> k]]
    BY <1>5 DEF root_add, Prepare
  <2>4. UNCHANGED <<clock, roots, retired>>
    BY <1>5 DEF root_add, Prepare
  <2> HIDE DEF map
  <2> QED BY <2>2, <2>3, <2>4
<1> QED BY <1>1, <1>2, <1>3, <1>4, <1>5 DEF cmd_root

(* A verifier whose new record has the right type keeps the invariant. *)
LEMMA GotoKeepsType ==
    ASSUME TypeOK, UNCHANGED <<clock, rootVars, mempool, revokedAt>>, cache' \in Snapshot,
           NEW v \in Verifiers, NEW r \in Process,
           r.pc # "idle" => r.token \in Tokens /\ r.now # 0,
           Goto(v, r)
    PROVE  TypeOK'
<1>1. RootsTypeOK'
  BY DEF TypeOK, RootsTypeOK, rootVars
<1>2. proc' \in [Verifiers -> Process]
  BY DEF TypeOK
<1>3. ASSUME NEW u \in Verifiers, proc'[u].pc # "idle"
      PROVE proc'[u].token \in Tokens /\ proc'[u].now # 0
  BY <1>3 DEF TypeOK
<1> QED BY <1>1, <1>2, <1>3 DEF TypeOK

(* No step of any process breaks the type invariant. *)
LEMMA TypeStep == TypeOK /\ [Next]_vars => TypeOK'
<1> SUFFICES ASSUME TypeOK, [Next]_vars PROVE TypeOK'
  OBVIOUS
<1>r. ASSUME UNCHANGED <<clock, rootVars>> PROVE RootsTypeOK'
  BY <1>r DEF TypeOK, RootsTypeOK, rootVars
<1>1. ASSUME NEW v \in Verifiers, Verify(v) PROVE TypeOK'
  <2> DEFINE p == proc[v]
  <2>0. p \in Process /\ (p.pc # "idle" => p.token \in Tokens /\ p.now # 0)
        /\ cache \in Snapshot /\ NeverFetched \in Snapshot
    BY DEF TypeOK, NeverFetched
  <2>1. ASSUME NEW t \in Tokens \cup {None}, NEW s \in Stances, NEW u \in BOOLEAN, cmd_verify(v, t, s, u)
        PROVE TypeOK'
    <3> DEFINE r == [Idle EXCEPT !.pc = "roots", !.token = t, !.stance = s,
                                 !.use_roots = u, !.now = clock, !.retired = retired]
    <3>1. r \in Process /\ r.token \in Tokens /\ r.now # 0
      BY <2>0, <2>1 DEF cmd_verify, TypeOK, RootsTypeOK, Process, Idle
    <3>2. Goto(v, r) /\ UNCHANGED <<clock, rootVars, mempool, revokedAt, cache>>
      BY <2>1 DEF cmd_verify
    <3> HIDE DEF r
    <3> QED BY <2>0, <3>1, <3>2, GotoKeepsType
  <2>2. CASE verify_roots(v)
    <3> DEFINE r == [p EXCEPT !.pc = IF p.stance = "none" THEN "decide" ELSE "load",
                              !.accepted = IF p.use_roots THEN accepted_at(roots, p.now) ELSE {}]
    <3>1. accepted_at(roots, p.now) \subseteq Keys
      BY DEF accepted_at, Present
    <3>2. r \in Process /\ r.token = p.token /\ r.now = p.now /\ p.pc # "idle"
      BY <2>0, <2>2, <3>1 DEF Process, verify_roots
    <3>3. Goto(v, r) /\ UNCHANGED <<clock, rootVars, mempool, revokedAt, cache>>
      BY <2>2 DEF verify_roots
    <3> HIDE DEF r
    <3> QED BY <2>0, <3>2, <3>3, GotoKeepsType
  <2>3. CASE load(v)
    <3> DEFINE r == [p EXCEPT !.pc = "fetch", !.cached = cache]
    <3>1. r \in Process /\ r.token = p.token /\ r.now = p.now /\ p.pc # "idle"
      BY <2>0, <2>3 DEF Process, load
    <3>2. Goto(v, r) /\ UNCHANGED <<clock, rootVars, mempool, revokedAt, cache>>
      BY <2>3 DEF load
    <3> HIDE DEF r
    <3> QED BY <2>0, <3>1, <3>2, GotoKeepsType
  <2>4. CASE refresh(v)
    <3> DEFINE r == [p EXCEPT !.pc = "save", !.cached = [pairs |-> Mined, fetched_at |-> p.now]]
    <3>1. r \in Process /\ r.token = p.token /\ r.now = p.now /\ p.pc # "idle"
      BY <2>0, <2>4 DEF Process, refresh, Mined
    <3>2. Goto(v, r) /\ UNCHANGED <<clock, rootVars, mempool, revokedAt, cache>>
      BY <2>4 DEF refresh
    <3> HIDE DEF r
    <3> QED BY <2>0, <3>1, <3>2, GotoKeepsType
  <2>5. CASE refresh_unreachable(v) \/ refresh_save_fails(v)
    <3> DEFINE r == [p EXCEPT !.pc = AfterError(p, p.cached)]
    <3>1. r \in Process /\ r.token = p.token /\ r.now = p.now /\ p.pc # "idle"
      BY <2>0, <2>5 DEF Process, refresh_unreachable, refresh_save_fails, AfterError
    <3>2. Goto(v, r) /\ UNCHANGED <<clock, rootVars, mempool, revokedAt, cache>>
      BY <2>5 DEF refresh_unreachable, refresh_save_fails
    <3> HIDE DEF r
    <3> QED BY <2>0, <3>1, <3>2, GotoKeepsType
  <2>6. CASE refresh_save(v)
    <3> DEFINE r == [p EXCEPT !.pc = "decide", !.live = TRUE]
    <3>1. r \in Process /\ r.token = p.token /\ r.now = p.now /\ p.pc # "idle"
      BY <2>0, <2>6 DEF Process, refresh_save
    <3>2. Goto(v, r) /\ cache' \in Snapshot /\ UNCHANGED <<clock, rootVars, mempool, revokedAt>>
      BY <2>0, <2>6 DEF refresh_save, Process
    <3> HIDE DEF r
    <3> QED BY <2>0, <3>1, <3>2, GotoKeepsType
  <2>7. CASE decide(v)
    <3> DEFINE r == [p EXCEPT !.pc = IF Authorized(p) THEN "allow" ELSE "deny"]
    <3>1. r \in Process /\ r.token = p.token /\ r.now = p.now /\ p.pc # "idle"
      BY <2>0, <2>7 DEF Process, decide
    <3>2. Goto(v, r) /\ UNCHANGED <<clock, rootVars, mempool, revokedAt, cache>>
      BY <2>7 DEF decide
    <3> HIDE DEF r
    <3> QED BY <2>0, <3>1, <3>2, GotoKeepsType
  <2>8. CASE crash(v)
    <3>1. Idle \in Process /\ Idle.pc = "idle"
      BY <2>0 DEF Process, Idle
    <3> QED BY <2>0, <2>8, <3>1, GotoKeepsType DEF crash
  <2> QED BY <1>1, <2>1, <2>2, <2>3, <2>4, <2>5, <2>6, <2>7, <2>8 DEF Verify
<1>2. ASSUME NEW l \in Links, submit_revoke(l) \/ mine(l) PROVE TypeOK'
  <2>1. mempool' \subseteq Links /\ revokedAt' \in [Links -> Nat \cup {None}]
    BY <1>2 DEF submit_revoke, mine, TypeOK, RootsTypeOK
  <2>2. UNCHANGED <<clock, rootVars, cache, proc>>
    BY <1>2 DEF submit_revoke, mine
  <2> QED BY <1>r, <2>1, <2>2 DEF TypeOK
<1>3. ASSUME NEW a \in Admins, cmd_root(a), UNCHANGED verifyVars PROVE TypeOK'
  <2>1. RootsTypeOK'
    BY <1>3, RootsTypeStep DEF TypeOK
  <2> QED BY <1>3, <2>1 DEF verifyVars, TypeOK
<1>4. CASE tick
  BY <1>4 DEF tick, TypeOK, RootsTypeOK, rootVars, verifyVars
<1>5. CASE UNCHANGED vars
  BY <1>r, <1>5 DEF vars, rootVars, TypeOK
<1> QED BY <1>1, <1>2, <1>3, <1>4, <1>5 DEF Next

(* Verifier's type invariant, for all constants: whatever verifiers, root
   commands and revocations do, a process that decides has a token and the
   roots file holds entries. *)
THEOREM VerifierTypeOK == Spec => []TypeOK
  BY TypeInit, TypeStep, PTL DEF Spec

(* Strengthening: the snapshots are complete at the start ... *)
LEMMA SnapshotInit == Init => SnapshotsComplete /\ VerifiersChecked
  BY DEF Init, RootsInit, SnapshotsComplete, VerifiersChecked, Complete, Checked,
         NeverFetched, Idle

(* ... a snapshot stays complete as the clock advances and revocations are
   mined, because they are mined at the current time ... *)
LEMMA CompleteStays ==
    ASSUME TypeOK, TypeOK', [Next]_vars, NEW c \in Snapshot, Complete(c, clock, revokedAt)
    PROVE  Complete(c, clock', revokedAt') /\ clock <= clock'
<1>0. clock \in Nat /\ revokedAt \in [Links -> Nat \cup {None}]
  BY DEF TypeOK, RootsTypeOK
<1>1. CASE UNCHANGED <<clock, revokedAt>>
  BY <1>0, <1>1
<1>2. ASSUME NEW l \in Links, mine(l) PROVE Complete(c, clock', revokedAt') /\ clock <= clock'
  BY <1>0, <1>2 DEF mine, Complete
<1>3. CASE tick
  BY <1>0, <1>3 DEF tick, verifyVars, Complete
<1>4. ASSUME NEW v \in Verifiers, Verify(v) PROVE UNCHANGED <<clock, revokedAt>>
  BY <1>4 DEF Verify, cmd_verify, verify_roots, load, refresh, refresh_unreachable,
              refresh_save, refresh_save_fails, decide, crash
<1>5. ASSUME NEW a \in Admins, cmd_root(a), UNCHANGED verifyVars
      PROVE UNCHANGED <<clock, revokedAt>>
  BY <1>5 DEF cmd_root, save, save_fails, root_rm, root_retire, root_add, Prepare, verifyVars
<1>6. ASSUME NEW l \in Links, submit_revoke(l) PROVE UNCHANGED <<clock, revokedAt>>
  BY <1>6 DEF submit_revoke
<1>7. UNCHANGED vars => UNCHANGED <<clock, revokedAt>>
  BY DEF vars
<1> QED BY <1>1, <1>2, <1>3, <1>4, <1>5, <1>6, <1>7 DEF Next

(* ... and no step of a verifier, on disk or in memory, makes an incomplete
   one: it stamps the snapshot with the time at which it started. *)
LEMMA SnapshotStep == IInv /\ [Next]_vars => SnapshotsComplete'
<1> SUFFICES ASSUME IInv, [Next]_vars PROVE SnapshotsComplete'
  OBVIOUS
<1> USE DEF IInv
<1>t. TypeOK'
  BY TypeStep
<1>0. /\ cache \in Snapshot /\ proc \in [Verifiers -> Process] /\ clock \in Nat /\ clock' \in Nat
      /\ \A v \in Verifiers : proc[v].cached \in Snapshot /\ proc[v].now \in Nat
  BY <1>t DEF TypeOK, RootsTypeOK, Process
<1>k. /\ clock <= clock'
      /\ Complete(cache, clock', revokedAt')
      /\ \A v \in Verifiers : Complete(proc[v].cached, clock', revokedAt') /\ proc[v].now <= clock'
  <2>1. Complete(cache, clock', revokedAt') /\ clock <= clock'
    BY <1>t, <1>0, CompleteStays DEF SnapshotsComplete
  <2>2. ASSUME NEW v \in Verifiers
        PROVE Complete(proc[v].cached, clock', revokedAt') /\ proc[v].now <= clock'
    <3>1. proc[v].now <= clock /\ proc[v].now \in Nat /\ Complete(proc[v].cached, clock, revokedAt)
      BY <1>0 DEF SnapshotsComplete
    <3> QED BY <1>t, <1>0, <2>1, <3>1, CompleteStays
  <2> QED BY <2>1, <2>2
<1>1. ASSUME NEW v \in Verifiers, Verify(v) PROVE SnapshotsComplete'
  <2> DEFINE answer(u) == [pairs |-> Mined, fetched_at |-> proc[u].now]
  <2>0. UNCHANGED <<clock, revokedAt>>
    BY <1>1 DEF Verify, cmd_verify, verify_roots, load, refresh, refresh_unreachable,
                refresh_save, refresh_save_fails, decide, crash
  <2> DEFINE Moved ==
        /\ proc'[v].now \in {0, clock, proc[v].now}
        /\ proc'[v].cached \in {NeverFetched, proc[v].cached, cache, answer(v)}
  <2>1. Moved
    <3>1. ASSUME NEW t \in Tokens \cup {None}, NEW s \in Stances, NEW u \in BOOLEAN, cmd_verify(v, t, s, u)
          PROVE Moved
      BY <1>0, <3>1 DEF cmd_verify, Idle
    <3>2. CASE verify_roots(v)
      BY <1>0, <3>2 DEF verify_roots, Process
    <3>3. CASE load(v)
      BY <1>0, <3>3 DEF load, Process
    <3>4. CASE refresh(v)
      BY <1>0, <3>4 DEF refresh, Process
    <3>5. CASE refresh_unreachable(v)
      BY <1>0, <3>5 DEF refresh_unreachable, Process
    <3>6. CASE refresh_save(v)
      BY <1>0, <3>6 DEF refresh_save, Process
    <3>7. CASE refresh_save_fails(v)
      BY <1>0, <3>7 DEF refresh_save_fails, Process
    <3>8. CASE decide(v)
      BY <1>0, <3>8 DEF decide, Process
    <3>9. CASE crash(v)
      BY <1>0, <3>9 DEF crash, Idle
    <3> QED BY <1>1, <3>1, <3>2, <3>3, <3>4, <3>5, <3>6, <3>7, <3>8, <3>9 DEF Verify
  <2>2. \A u \in Verifiers \ {v} : proc'[u] = proc[u]
    BY <1>0, <1>1 DEF Verify, cmd_verify, verify_roots, load, refresh, refresh_unreachable,
                refresh_save, refresh_save_fails, decide, crash
  <2>3. Complete(NeverFetched, clock', revokedAt')
    BY <1>0, <1>t DEF Complete, NeverFetched, TypeOK
  <2>4. Complete(answer(v), clock', revokedAt')
    BY <1>0, <1>k, <2>0 DEF Complete, Mined
  <2>5. cache' = cache \/ cache' = proc[v].cached
    BY <1>1 DEF Verify, cmd_verify, verify_roots, load, refresh, refresh_unreachable,
                refresh_save, refresh_save_fails, decide, crash
  <2>6. Complete(cache', clock', revokedAt')
    BY <2>5, <1>k
  <2>7. Complete(proc'[v].cached, clock', revokedAt') /\ proc'[v].now <= clock'
    <3> HIDE DEF answer
    <3> QED BY <1>0, <1>k, <2>1, <2>3, <2>4
  <2> QED BY <1>k, <2>2, <2>6, <2>7 DEF SnapshotsComplete
<1>2. CASE UNCHANGED <<cache, proc>>
  BY <1>2, <1>k DEF SnapshotsComplete
<1>3. ASSUME NEW l \in Links, submit_revoke(l) \/ mine(l) PROVE UNCHANGED <<cache, proc>>
  BY <1>3 DEF submit_revoke, mine
<1>4. UNCHANGED verifyVars \/ UNCHANGED vars \/ tick => UNCHANGED <<cache, proc>>
  BY DEF verifyVars, vars, tick
<1> QED BY <1>1, <1>2, <1>3, <1>4 DEF Next

(* A verifier decides only on a snapshot of its own, or on one that is fresh. *)
LEMMA CheckedStep == IInv /\ [Next]_vars => VerifiersChecked'
<1> SUFFICES ASSUME IInv, [Next]_vars, NEW w \in Verifiers PROVE Checked(proc'[w])
  BY DEF VerifiersChecked, Checked, is_fresh
<1> USE DEF IInv
<1>0. Checked(proc[w])
  BY DEF VerifiersChecked
<1>1. ASSUME NEW v \in Verifiers, Verify(v) PROVE Checked(proc'[w])
  <2>0. CASE w # v
    BY <1>0, <1>1, <2>0 DEF Verify, cmd_verify, verify_roots, load, refresh,
         refresh_unreachable, refresh_save, refresh_save_fails, decide, crash, TypeOK
  <2> SUFFICES ASSUME w = v PROVE Checked(proc'[w])
    BY <2>0
  <2>p. proc \in [Verifiers -> Process] /\ proc[v] \in Process
    BY DEF TypeOK
  <2>1. ASSUME NEW t \in Tokens \cup {None}, NEW s \in Stances, NEW u \in BOOLEAN, cmd_verify(v, t, s, u)
        PROVE Checked(proc'[w])
    BY <2>1, <2>p DEF cmd_verify, Idle, Checked
  <2>2. CASE verify_roots(v)
    BY <1>0, <2>2, <2>p DEF verify_roots, Checked, Process
  <2>3. CASE load(v)
    BY <1>0, <2>3, <2>p DEF load, Checked, Process
  <2>4. CASE refresh(v)
    BY <1>0, <2>4, <2>p DEF refresh, Checked, Process
  <2>5. CASE refresh_unreachable(v)
    BY <1>0, <2>5, <2>p DEF refresh_unreachable, AfterError, Checked, Process
  <2>6. CASE refresh_save(v)
    BY <1>0, <2>6, <2>p DEF refresh_save, Checked, Process
  <2>7. CASE refresh_save_fails(v)
    BY <1>0, <2>7, <2>p DEF refresh_save_fails, AfterError, Checked, Process
  <2>8. CASE decide(v)
    BY <1>0, <2>8, <2>p DEF decide, Authorized, Checked, Process
  <2>9. CASE crash(v)
    BY <2>9, <2>p DEF crash, Idle, Checked
  <2> QED BY <1>1, <2>1, <2>2, <2>3, <2>4, <2>5, <2>6, <2>7, <2>8, <2>9 DEF Verify
<1>2. CASE UNCHANGED proc
  BY <1>0, <1>2
<1>3. ASSUME NEW l \in Links, submit_revoke(l) \/ mine(l) PROVE UNCHANGED proc
  BY <1>3 DEF submit_revoke, mine
<1>4. UNCHANGED verifyVars \/ UNCHANGED vars \/ tick => UNCHANGED proc
  BY DEF verifyVars, vars, tick
<1> QED BY <1>1, <1>2, <1>3, <1>4 DEF Next

(* The strengthened invariant bounds the age of what a verifier may miss. *)
LEMMA InvBounds == IInv => RevocationBound
<1> SUFFICES ASSUME IInv, NEW v \in Verifiers,
                    proc[v].pc = "allow",
                    proc[v].live \/ (proc[v].stance = "closed" /\ Ttl # 0),
                    NEW l \in proc[v].token.links, revokedAt[l] # None
             PROVE  proc[v].now <= revokedAt[l] + Horizon(proc[v])
  BY DEF RevocationBound
<1> USE VerifierAssumption DEF IInv
<1>1. proc[v] \in Process /\ proc[v].token \in Tokens
  BY DEF TypeOK
<1>2. l \in Links /\ revokedAt[l] \in Nat
  BY <1>1 DEF TypeOK
<1>3. proc[v].cached.fetched_at <= revokedAt[l]
  <2>1. l \notin proc[v].cached.pairs
    BY DEF VerifiersChecked, Checked
  <2> QED BY <1>2, <2>1 DEF SnapshotsComplete, Complete
<1>4. CASE proc[v].live
  BY <1>1, <1>2, <1>3, <1>4 DEF VerifiersChecked, Checked, Horizon, Process
<1>5. CASE ~proc[v].live
  <2>1. is_fresh(proc[v].cached, proc[v].now)
    BY <1>5 DEF VerifiersChecked, Checked
  <2> QED BY <1>1, <1>2, <1>3, <1>5, <2>1 DEF is_fresh, Horizon, Process
<1> QED BY <1>4, <1>5

(* "If the live fetch fails and the cached snapshot is stale, verification is
   denied" (resolve_revocation, CachedRevocationSet): for every number of
   verifiers that share the cache, and however long each fetch takes, an
   allowed token has no link that was revoked before the verification began,
   or longer than the TTL before it. *)
THEOREM RevocationIsBounded == Spec => []RevocationBound
<1>1. Init => IInv
  BY TypeInit, SnapshotInit DEF IInv
<1>2. IInv /\ [Next]_vars => IInv'
  BY TypeStep, SnapshotStep, CheckedStep DEF IInv
<1>3. IInv => RevocationBound
  BY InvBounds
<1> QED BY <1>1, <1>2, <1>3, PTL DEF Spec
-----------------------------------------------------------------------------
(* Retirement.  With one administrator a retirement is in roots.json for as
   long as it is remembered, and the one command under way differs from the
   file at its own key only. *)
RetirementsKept(a) ==
    /\ \A k \in Keys : retired[k] # None =>
        retired[k] # 0 /\ (roots[k] # None => roots[k].not_after = retired[k])
    /\ admin[a].pc = "save" =>
        /\ \A k \in Keys \ {admin[a].key} : admin[a].map[k] = roots[k]
        /\ admin[a].op \in {"add", "retire", "rm"}
        /\ admin[a].op = "retire" => admin[a].map[admin[a].key].not_after # 0
        /\ admin[a].op = "rm" => admin[a].map[admin[a].key] = None

(* The root k was retired, for a time before that of the verification p. *)
Late(p, k) == p.retired[k] # None /\ p.retired[k] < p.now

(* A root that p accepted although it had been retired is no longer as it was
   then; and once that is so, no retirement under way can make it so again. *)
Diverged(p, a) ==
    \A k \in Keys : Late(p, k) =>
        /\ k \in p.accepted => retired[k] # p.retired[k]
        /\ retired[k] # p.retired[k] =>
             (admin[a].pc = "save" /\ admin[a].op = "retire" /\ admin[a].key = k
                 => admin[a].map[k].not_after # p.retired[k])

AllowedByRoots(p) == p.pc = "allow" => p.token.root \in {Self} \cup p.accepted

RetireInv(a) ==
    /\ IInv
    /\ RetirementsKept(a)
    /\ \A v \in Verifiers : Diverged(proc[v], a) /\ AllowedByRoots(proc[v])

(* No command of the sole administrator loses a retirement, or restores one
   that a verification has seen replaced. *)
LEMMA RetireRootStep ==
    ASSUME NEW a, Admins = {a}, RetireInv(a), TypeOK', cmd_root(a), UNCHANGED verifyVars
    PROVE  /\ RetirementsKept(a)'
           /\ \A v \in Verifiers : (Diverged(proc[v], a) /\ AllowedByRoots(proc[v]))'
<1>0. /\ clock \in Nat \ {0} /\ roots \in RootMap /\ retired \in [Keys -> Nat \cup {None}]
      /\ admin \in [Admins -> Command] /\ proc \in [Verifiers -> Process]
      /\ clock' = clock /\ proc' = proc /\ None \notin Nat
      /\ admin[a].pc = "save" => admin[a].key \in Keys
  BY RootsAssumption
     DEF RetireInv, IInv, TypeOK, RootsTypeOK, verifyVars, cmd_root, save, save_fails,
         root_rm, root_retire, root_add, Prepare
<1>1. \A v \in Verifiers : AllowedByRoots(proc[v])'
  BY <1>0 DEF RetireInv, AllowedByRoots
<1>2. CASE save(a)
  <2> DEFINE c == admin[a]
  <2>1. /\ c.pc = "save" /\ c.key \in Keys /\ c.op \in {"add", "retire", "rm"}
        /\ roots' = c.map /\ admin'[a].pc = "idle" /\ c.map \in RootMap
    BY <1>0, <1>2 DEF save, Resting, RetireInv, RetirementsKept
  <2>2. \A k \in Keys \ {c.key} : roots'[k] = roots[k] /\ retired'[k] = retired[k]
    BY <1>0, <1>2, <2>1 DEF save, RetireInv, RetirementsKept
  <2>3. \/ c.op = "add" /\ retired'[c.key] = None
        \/ c.op = "retire" /\ retired'[c.key] = c.map[c.key].not_after
        \/ c.op = "rm" /\ retired'[c.key] = retired[c.key]
    BY <1>0, <1>2, <2>1 DEF save
  <2>4. RetirementsKept(a)'
    <3> SUFFICES ASSUME NEW k \in Keys, retired'[k] # None
                 PROVE  retired'[k] # 0 /\ (roots'[k] # None => roots'[k].not_after = retired'[k])
      BY <2>1 DEF RetirementsKept
    <3>1. CASE k # c.key
      BY <2>2, <3>1 DEF RetireInv, RetirementsKept
    <3>2. CASE k = c.key
      BY <2>1, <2>3, <3>2 DEF RetireInv, RetirementsKept
    <3> QED BY <3>1, <3>2
  <2>5. ASSUME NEW v \in Verifiers PROVE Diverged(proc[v], a)'
    <3> DEFINE p == proc[v]
    <3> SUFFICES ASSUME NEW k \in Keys, Late(p, k), k \in p.accepted PROVE retired'[k] # p.retired[k]
      BY <1>0, <2>1 DEF Diverged, Late
    <3>0. /\ retired[k] # p.retired[k] /\ p.retired[k] # None
          /\ (c.op = "retire" /\ c.key = k) => c.map[k].not_after # p.retired[k]
      BY <2>1 DEF RetireInv, Diverged, Late
    <3> QED BY <2>2, <2>3, <3>0
  <2> QED BY <1>1, <2>4, <2>5
<1>3. CASE save_fails(a)
  <2>1. admin'[a].pc = "idle" /\ roots' = roots /\ retired' = retired
    BY <1>0, <1>3 DEF save_fails, Resting
  <2> QED BY <1>0, <1>1, <2>1 DEF RetireInv, RetirementsKept, Diverged, Late
<1>4. ASSUME NEW op \in {"add", "retire", "rm"}, NEW k \in Keys, NEW m \in RootMap,
             Prepare(a, op, k, m), \A j \in Keys \ {k} : m[j] = roots[j],
             op = "retire" => m[k].not_after \in Nat /\ clock <= m[k].not_after,
             op = "rm" => m[k] = None
      PROVE  /\ RetirementsKept(a)'
             /\ \A v \in Verifiers : (Diverged(proc[v], a) /\ AllowedByRoots(proc[v]))'
  <2>1. /\ admin'[a] = [pc |-> "save", map |-> m, op |-> op, key |-> k]
        /\ roots' = roots /\ retired' = retired
    BY <1>0, <1>4 DEF Prepare
  <2>2. RetirementsKept(a)'
    <3>1. op = "retire" => m[k].not_after # 0
      BY <1>0, <1>4
    <3> QED BY <1>4, <2>1, <3>1 DEF RetireInv, RetirementsKept
  <2>3. ASSUME NEW v \in Verifiers PROVE Diverged(proc[v], a)'
    <3> DEFINE p == proc[v]
    <3>1. p.now \in Nat /\ p.now <= clock /\ p.retired \in [Keys -> Nat \cup {None}]
      BY <1>0 DEF RetireInv, IInv, SnapshotsComplete, Process
    <3>2. ASSUME Late(p, k), op = "retire" PROVE m[k].not_after # p.retired[k]
      BY <1>0, <1>4, <3>1, <3>2 DEF Late
    <3> QED BY <1>0, <2>1, <3>2 DEF RetireInv, Diverged, Late
  <2> QED BY <1>1, <2>2, <2>3
<1>5. ASSUME NEW k \in Keys, root_rm(a, k) PROVE
        /\ RetirementsKept(a)'
        /\ \A v \in Verifiers : (Diverged(proc[v], a) /\ AllowedByRoots(proc[v]))'
  <2> DEFINE m == [roots EXCEPT ![k] = None]
  <2>1. m \in RootMap /\ m[k] = None /\ \A j \in Keys \ {k} : m[j] = roots[j]
    BY <1>0
  <2>2. Prepare(a, "rm", k, m)
    BY <1>5 DEF root_rm
  <2> HIDE DEF m
  <2> QED BY <1>4, <2>1, <2>2
<1>6. ASSUME NEW k \in Keys, NEW s \in Delays, root_retire(a, k, s) PROVE
        /\ RetirementsKept(a)'
        /\ \A v \in Verifiers : (Diverged(proc[v], a) /\ AllowedByRoots(proc[v]))'
  <2> DEFINE m == [roots EXCEPT ![k].not_after = clock + s]
  <2>1. s \in Nat /\ roots[k] \in RootEntry
    BY <1>0, <1>6, RootsAssumption DEF root_retire
  <2>2. m \in RootMap /\ m[k].not_after = clock + s /\ \A j \in Keys \ {k} : m[j] = roots[j]
    BY <1>0, <2>1
  <2>3. Prepare(a, "retire", k, m)
    BY <1>6 DEF root_retire
  <2>4. clock + s \in Nat /\ clock <= clock + s
    BY <1>0, <2>1
  <2> HIDE DEF m
  <2> QED BY <1>4, <2>2, <2>3, <2>4
<1>7. ASSUME NEW k \in Keys, NEW s \in Delays, NEW l \in Delays, root_add(a, k, s, l) PROVE
        /\ RetirementsKept(a)'
        /\ \A v \in Verifiers : (Diverged(proc[v], a) /\ AllowedByRoots(proc[v]))'
  <2>1. PICK e \in RootEntry : Prepare(a, "add", k, [roots EXCEPT ![k] = e])
    <3> DEFINE nb == IF s = 0 THEN 0 ELSE clock + s
               start == IF nb = 0 THEN clock ELSE nb
               na == IF l = 0 THEN 0 ELSE start + l
    <3>1. s \in Nat /\ l \in Nat /\ clock \in Nat
      BY <1>0, RootsAssumption
    <3>2. nb \in Nat
      BY <3>1
    <3>3. start \in Nat
      BY <3>1, <3>2
    <3>4. na \in Nat
      BY <3>1, <3>3
    <3>5. Prepare(a, "add", k, [roots EXCEPT ![k] = [not_before |-> nb, not_after |-> na]])
      BY <1>7 DEF root_add
    <3> HIDE DEF nb, na
    <3> QED BY <3>2, <3>4, <3>5
  <2> DEFINE m == [roots EXCEPT ![k] = e]
  <2>2. m \in RootMap /\ \A j \in Keys \ {k} : m[j] = roots[j]
    BY <1>0, <2>1
  <2> HIDE DEF m
  <2> QED BY <1>4, <2>1, <2>2 DEF m
<1> QED BY <1>2, <1>3, <1>5, <1>6, <1>7 DEF cmd_root

(* A verification accepts a retired root only before it has expired. *)
LEMMA RetireVerifyStep ==
    ASSUME NEW a, RetireInv(a), NEW v \in Verifiers, Verify(v)
    PROVE  /\ RetirementsKept(a)'
           /\ \A u \in Verifiers : (Diverged(proc[u], a) /\ AllowedByRoots(proc[u]))'
<1> DEFINE p == proc[v]
<1>0. /\ proc \in [Verifiers -> Process] /\ p \in Process
      /\ UNCHANGED <<clock, roots, admin, retired>>
      /\ \A u \in Verifiers \ {v} : proc'[u] = proc[u]
  <2>1. proc \in [Verifiers -> Process]
    BY DEF RetireInv, IInv, TypeOK
  <2> QED BY <2>1 DEF rootVars, Verify, cmd_verify, verify_roots, load, refresh,
                refresh_unreachable, refresh_save, refresh_save_fails, decide, crash
<1>1. RetirementsKept(a)'
  BY <1>0 DEF RetireInv, RetirementsKept
<1>2. Diverged(p, a) /\ AllowedByRoots(p)
  BY DEF RetireInv
<1>3. Diverged(proc'[v], a) /\ AllowedByRoots(proc'[v])
  <2>1. ASSUME NEW t \in Tokens \cup {None}, NEW s \in Stances, NEW r \in BOOLEAN, cmd_verify(v, t, s, r)
        PROVE Diverged(proc'[v], a) /\ AllowedByRoots(proc'[v])
    <3>1. proc'[v].pc = "roots" /\ proc'[v].accepted = {} /\ proc'[v].retired = retired
      BY <1>0, <2>1 DEF cmd_verify, Idle
    <3> QED BY <3>1 DEF Diverged, AllowedByRoots
  <2>2. CASE verify_roots(v)
    <3>1. /\ proc'[v].pc # "allow" /\ proc'[v].retired = p.retired /\ proc'[v].now = p.now
          /\ proc'[v].accepted \subseteq accepted_at(roots, p.now)
      BY <1>0, <2>2 DEF verify_roots, Process
    <3>2. ASSUME NEW k \in accepted_at(roots, p.now), Late(p, k) PROVE retired[k] # p.retired[k]
      <4> SUFFICES ASSUME retired[k] = p.retired[k] PROVE FALSE
        OBVIOUS
      <4>1. k \in Keys /\ roots[k] # None /\ (roots[k].not_after # 0 => p.now <= roots[k].not_after)
        BY DEF accepted_at, Present, in_force
      <4>2. retired[k] # None /\ retired[k] < p.now
        BY <3>2 DEF Late
      <4>3. roots[k].not_after = retired[k] /\ retired[k] # 0
        BY <4>1, <4>2 DEF RetireInv, RetirementsKept
      <4>4. retired[k] \in Nat /\ p.now \in Nat
        BY <1>0, <4>1, <4>2 DEF RetireInv, IInv, TypeOK, RootsTypeOK, Process
      <4> QED BY <4>1, <4>2, <4>3, <4>4
    <3> QED BY <1>2, <3>1, <3>2 DEF Diverged, AllowedByRoots, Late
  <2> DEFINE Same == /\ proc'[v].retired = p.retired /\ proc'[v].now = p.now
                     /\ proc'[v].accepted = p.accepted /\ proc'[v].token = p.token
  <2>3. CASE load(v) \/ refresh(v) \/ refresh_unreachable(v) \/ refresh_save(v) \/ refresh_save_fails(v)
    <3> DEFINE Passes == Same /\ proc'[v].pc # "allow"
    <3>1. ASSUME load(v) PROVE Passes
      BY <1>0, <3>1 DEF load, Process
    <3>2. ASSUME refresh(v) PROVE Passes
      BY <1>0, <3>2 DEF refresh, Process
    <3>3. AfterError(p, p.cached) # "allow"
      BY DEF AfterError
    <3>4. ASSUME refresh_unreachable(v) PROVE Passes
      BY <1>0, <3>3, <3>4 DEF refresh_unreachable, Process
    <3>5. ASSUME refresh_save(v) PROVE Passes
      BY <1>0, <3>5 DEF refresh_save, Process
    <3>6. ASSUME refresh_save_fails(v) PROVE Passes
      BY <1>0, <3>3, <3>6 DEF refresh_save_fails, Process
    <3>7. Passes
      BY <2>3, <3>1, <3>2, <3>4, <3>5, <3>6
    <3> QED BY <1>2, <3>7 DEF Diverged, AllowedByRoots, Late
  <2>4. CASE decide(v)
    <3>1. Same /\ (proc'[v].pc = "allow" => Authorized(p))
      BY <1>0, <2>4 DEF decide, Process
    <3> QED BY <1>2, <3>1 DEF Diverged, AllowedByRoots, Late, Authorized
  <2>5. CASE crash(v)
    <3>1. proc'[v].pc = "idle" /\ proc'[v].retired = [k \in Keys |-> None]
      BY <1>0, <2>5 DEF crash, Idle
    <3> QED BY <3>1 DEF Diverged, AllowedByRoots, Late
  <2> QED BY <2>1, <2>2, <2>3, <2>4, <2>5 DEF Verify
<1>4. ASSUME NEW u \in Verifiers PROVE (Diverged(proc[u], a) /\ AllowedByRoots(proc[u]))'
  BY <1>0, <1>3 DEF RetireInv, Diverged, AllowedByRoots, Late
<1> QED BY <1>1, <1>4

(* With one administrator, a verification that starts after the time at which
   a root retires refuses its tokens unless the root is added (or retired)
   again, for any number of verifiers, roots and tokens: retirement is not
   lost in the read-modify-write of roots.json. *)
THEOREM SoleAdminRetirementHolds ==
    ASSUME NEW a, Admins = {a}
    PROVE  Spec => []RetiredRootRefused
<1>1. Init => RetireInv(a)
  <2> SUFFICES ASSUME Init PROVE RetireInv(a)
    OBVIOUS
  <2>1. IInv
    BY TypeInit, SnapshotInit DEF IInv
  <2>2. RetirementsKept(a)
    BY DEF Init, RootsInit, RetirementsKept, Resting
  <2>3. \A v \in Verifiers : Diverged(proc[v], a) /\ AllowedByRoots(proc[v])
    BY DEF Init, Diverged, Late, AllowedByRoots, Idle
  <2> QED BY <2>1, <2>2, <2>3 DEF RetireInv
<1>2. RetireInv(a) /\ [Next]_vars => RetireInv(a)'
  <2> SUFFICES ASSUME RetireInv(a), [Next]_vars PROVE RetireInv(a)'
    OBVIOUS
  <2>0. IInv'
    BY TypeStep, SnapshotStep, CheckedStep DEF IInv, RetireInv
  <2>1. ASSUME NEW v \in Verifiers, Verify(v) PROVE RetireInv(a)'
    BY <2>0, <2>1, RetireVerifyStep DEF RetireInv
  <2>2. ASSUME NEW b \in Admins, cmd_root(b), UNCHANGED verifyVars PROVE RetireInv(a)'
    <3>1. b = a /\ TypeOK'
      BY <2>0 DEF IInv
    <3> QED BY <2>0, <2>2, <3>1, RetireRootStep DEF RetireInv
  <2>3. CASE UNCHANGED <<roots, admin, retired, proc>>
    BY <2>0, <2>3 DEF RetireInv, RetirementsKept, Diverged, AllowedByRoots, Late
  <2>4. ASSUME NEW l \in Links, submit_revoke(l) \/ mine(l) PROVE RetireInv(a)'
    BY <2>3, <2>4 DEF submit_revoke, mine, rootVars
  <2>5. CASE tick \/ UNCHANGED vars
    BY <2>3, <2>5 DEF tick, rootVars, verifyVars, vars
  <2> QED BY <2>1, <2>2, <2>4, <2>5 DEF Next
<1>3. RetireInv(a) => RetiredRootRefused
  <2> SUFFICES ASSUME RetireInv(a), NEW v \in Verifiers, NEW k \in Keys, proc[v].pc = "allow",
                      proc[v].token.root = k, Late(proc[v], k)
               PROVE  retired[k] # proc[v].retired[k]
    BY DEF RetiredRootRefused, Late
  <2>1. k \in proc[v].accepted
    BY VerifierAssumption DEF RetireInv, AllowedByRoots
  <2> QED BY <2>1 DEF RetireInv, Diverged
<1> QED BY <1>1, <1>2, <1>3, PTL DEF Spec
=============================================================================
