------------------------------ MODULE Verifier ------------------------------
(* `ce-iam verify` (crates/ce-iam/src/main.rs, revocation.rs): processes     *)
(* that check a token against the accepted roots and against a snapshot of   *)
(* the revocations on the chain, and share the last-known-good snapshot in   *)
(* revocation-cache.json.  It runs beside the `root` commands of Roots.      *)
(*                                                                           *)
(* Data.  What a chain of links proves by itself (signatures, attenuation,   *)
(* audience, action) is the subject of module Grant; here a token is its     *)
(* root, the (issuer, nonce) pairs that revoke it, and its expiry.           *)
EXTENDS Roots

CONSTANTS
    Verifiers,  \* `verify` processes
    Self,       \* the verifying node's own id: always an accepted root
    Links,      \* (issuer, nonce) pairs
    Tokens,     \* the tokens presented
    Stances,    \* the subset of {"none", "open", "closed"} in use
    Ttl         \* --revocation-ttl; 0 means no limit

ASSUME VerifierAssumption ==
    /\ Self \notin Keys
    /\ Tokens \subseteq [root : Keys \cup {Self}, links : SUBSET Links, not_after : Nat]
    /\ Ttl \in Nat
    /\ Stances \subseteq {"none", "open", "closed"}

VARIABLES
    mempool,    \* revocations submitted
    revokedAt,  \* revokedAt[l]: when the revocation of l was mined, or None
    cache,      \* revocation-cache.json
    proc        \* proc[v]: where process v is in cmd_verify

verifyVars == <<mempool, revokedAt, cache, proc>>
vars == <<clock, roots, admin, retired, mempool, revokedAt, cache, proc>>

NeverFetched == [pairs |-> {}, fetched_at |-> 0]
Idle == [pc |-> "idle", token |-> None, stance |-> None, use_roots |-> FALSE, now |-> 0,
         retired |-> [k \in Keys |-> None], accepted |-> {}, cached |-> NeverFetched,
         live |-> FALSE]

At(v, label) == proc[v].pc = label
Goto(v, r) == proc' = [proc EXCEPT ![v] = r]
Mined == {l \in Links : revokedAt[l] # None}
-----------------------------------------------------------------------------
(* Revoking *)

submit_revoke(l) ==
    /\ mempool' = mempool \cup {l}
    /\ UNCHANGED <<clock, rootVars, revokedAt, cache, proc>>

(* external: the chain includes a submitted revocation *)
mine(l) ==
    /\ l \in mempool /\ revokedAt[l] = None
    /\ revokedAt' = [revokedAt EXCEPT ![l] = clock]
    /\ UNCHANGED <<clock, rootVars, mempool, cache, proc>>
-----------------------------------------------------------------------------
(* Verifying *)

(* Mutant: neither --token nor --wallet-label is needed. *)
VerifyWithoutToken(v, token, stance, useRoots) ==
    /\ proc[v].pc \in {"idle", "allow", "deny"}
    /\ Goto(v, [Idle EXCEPT !.pc = "roots", !.token = token, !.stance = stance,
                            !.use_roots = useRoots, !.now = clock, !.retired = retired])
    /\ UNCHANGED <<clock, rootVars, mempool, revokedAt, cache>>

(* The clock is read once, first; a token must be named. *)
cmd_verify(v, token, stance, useRoots) ==
    /\ proc[v].pc \in {"idle", "allow", "deny"}
    /\ token # None
    /\ Goto(v, [Idle EXCEPT !.pc = "roots", !.token = token, !.stance = stance,
                            !.use_roots = useRoots, !.now = clock, !.retired = retired])
    /\ UNCHANGED <<clock, rootVars, mempool, revokedAt, cache>>

verify_roots(v) ==
    LET p == proc[v]
    IN /\ At(v, "roots")
       /\ Goto(v, [p EXCEPT !.pc = IF p.stance = "none" THEN "decide" ELSE "load",
                            !.accepted = IF p.use_roots THEN accepted_at(roots, p.now) ELSE {}])
       /\ UNCHANGED <<clock, rootVars, mempool, revokedAt, cache>>

load(v) ==
    /\ At(v, "load")
    /\ Goto(v, [proc[v] EXCEPT !.pc = "fetch", !.cached = cache])
    /\ UNCHANGED <<clock, rootVars, mempool, revokedAt, cache>>

is_fresh(c, t) ==
    /\ c.fetched_at # 0
    /\ Ttl # 0 => t <= c.fetched_at + Ttl

(* Where resolve_revocation goes when refresh returns an error. *)
AfterError(p, c) ==
    IF p.stance = "open" \/ is_fresh(c, p.now) THEN "decide" ELSE "deny"

(* The node answers; the snapshot is stamped with the clock read at the start. *)
refresh(v) ==
    /\ At(v, "fetch")
    /\ Goto(v, [proc[v] EXCEPT !.pc = "save",
                               !.cached = [pairs |-> Mined, fetched_at |-> proc[v].now]])
    /\ UNCHANGED <<clock, rootVars, mempool, revokedAt, cache>>

refresh_unreachable(v) ==
    /\ At(v, "fetch")
    /\ Goto(v, [proc[v] EXCEPT !.pc = AfterError(proc[v], proc[v].cached)])
    /\ UNCHANGED <<clock, rootVars, mempool, revokedAt, cache>>

(* Mutant: the snapshot is stamped with the time at which it is written. *)
RefreshSaveStampingLate(v) ==
    /\ At(v, "save")
    /\ cache' = [proc[v].cached EXCEPT !.fetched_at = clock]
    /\ Goto(v, [proc[v] EXCEPT !.pc = "decide", !.live = TRUE])
    /\ UNCHANGED <<clock, rootVars, mempool, revokedAt>>

refresh_save(v) ==
    /\ At(v, "save")
    /\ cache' = proc[v].cached
    /\ Goto(v, [proc[v] EXCEPT !.pc = "decide", !.live = TRUE])
    /\ UNCHANGED <<clock, rootVars, mempool, revokedAt>>

(* The cache cannot be written: refresh returns an error, and the verifier
   goes on with what refresh left in memory. *)
refresh_save_fails(v) ==
    /\ At(v, "save")
    /\ Goto(v, [proc[v] EXCEPT !.pc = AfterError(proc[v], proc[v].cached)])
    /\ UNCHANGED <<clock, rootVars, mempool, revokedAt, cache>>

(* Iam::verify with the snapshot as its is_revoked predicate *)
Authorized(p) ==
    /\ p.token.root \in {Self} \cup p.accepted
    /\ p.token.not_after # 0 => p.now <= p.token.not_after
    /\ p.token.links \cap p.cached.pairs = {}

decide(v) ==
    /\ At(v, "decide")
    /\ Goto(v, [proc[v] EXCEPT !.pc = IF Authorized(proc[v]) THEN "allow" ELSE "deny"])
    /\ UNCHANGED <<clock, rootVars, mempool, revokedAt, cache>>

(* external: the process is stopped *)
crash(v) ==
    /\ ~At(v, "idle")
    /\ Goto(v, Idle)
    /\ UNCHANGED <<clock, rootVars, mempool, revokedAt, cache>>

(* external: time passes *)
tick ==
    /\ clock < MaxTime
    /\ clock' = clock + 1
    /\ UNCHANGED <<rootVars, verifyVars>>

Init ==
    /\ RootsInit
    /\ mempool = {}
    /\ revokedAt = [l \in Links |-> None]
    /\ cache = NeverFetched
    /\ proc = [v \in Verifiers |-> Idle]

Verify(v) ==
    \/ \E k \in Tokens \cup {None}, s \in Stances, r \in BOOLEAN : cmd_verify(v, k, s, r)
    \/ verify_roots(v) \/ load(v)
    \/ refresh(v) \/ refresh_unreachable(v) \/ refresh_save(v) \/ refresh_save_fails(v)
    \/ decide(v) \/ crash(v)

Next ==
    \/ \E v \in Verifiers : Verify(v)
    \/ \E l \in Links : submit_revoke(l) \/ mine(l)
    \/ \E a \in Admins : cmd_root(a) /\ UNCHANGED verifyVars
    \/ tick

Spec == Init /\ [][Next]_vars
-----------------------------------------------------------------------------
(* Properties *)

Snapshot == [pairs : SUBSET Links, fetched_at : Nat]
Process ==
    [pc : {"idle", "roots", "load", "fetch", "save", "decide", "allow", "deny"},
     token : Tokens \cup {None}, stance : Stances \cup {None},
     use_roots : BOOLEAN, now : Nat, retired : [Keys -> Nat \cup {None}],
     accepted : SUBSET Keys, cached : Snapshot, live : BOOLEAN]

(* Type invariant: in particular a process that decides has a token, and a
   snapshot holds links that are on the chain. *)
TypeOK ==
    /\ RootsTypeOK
    /\ mempool \subseteq Links
    /\ revokedAt \in [Links -> Nat \cup {None}]
    /\ cache \in Snapshot
    /\ proc \in [Verifiers -> Process]
    /\ \A v \in Verifiers : ~At(v, "idle") => proc[v].token \in Tokens /\ proc[v].now # 0

(* How far back the revocations lie that the verifier of p may have missed. *)
Horizon(p) == IF p.live THEN 0 ELSE Ttl

(* "If the live fetch fails and the cached snapshot is stale (older than
   --revocation-ttl), verification is denied": a token that `verify` allows
   has no link that was revoked before the verification began, or, when a
   --fail-closed verifier used the shared cache, more than the TTL before,
   however slow the fetch was and whoever wrote the cache last. *)
RevocationBound ==
    \A v \in Verifiers :
        LET p == proc[v]
        IN (p.pc = "allow" /\ (p.live \/ (p.stance = "closed" /\ Ttl # 0))) =>
            \A l \in p.token.links : revokedAt[l] # None => p.now <= revokedAt[l] + Horizon(p)

(* "root retire <old-key> ... old grants stop verifying after that time": a
   verification that starts after the retirement time of a retired root does
   not allow a token of that root, unless the root is added again. *)
RetiredRootRefused ==
    \A v \in Verifiers : \A k \in Keys :
        LET p == proc[v]
        IN (/\ p.pc = "allow" /\ p.token.root = k
            /\ p.retired[k] # None /\ p.retired[k] < p.now)
               => retired[k] # p.retired[k]


=============================================================================
