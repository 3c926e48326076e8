------------------------------- MODULE Vault --------------------------------
(* The secrets vault (crates/ce-iam-core/src/secrets.rs): devices that share *)
(* one key/value store.  A device runs one operation at a time; every await  *)
(* on the store is a step of its own, so other devices act in between, and a *)
(* device may crash (or see a store call fail) after any step.  The store is *)
(* behind the mesh (crates/ce-iam/src/kv_store.rs): a write whose caller     *)
(* gave up after eight seconds may still arrive, after newer ones.           *)
(*                                                                           *)
(* Data.  A vault master is derived from a device's private key and from     *)
(* nothing else, so a master is named by the device it is derived from.      *)
(* Wrapping to a device and sealing under a master or a token secret are     *)
(* modelled by remembering which master is inside.  Random identifiers       *)
(* (pairing codes, token and grant ids) are fresh.  The ability "read:*" is  *)
(* the grant that reads all of Names; an expiry that is absent or does not   *)
(* parse is None.                                                            *)
EXTENDS Naturals, FiniteSets

CONSTANTS
    Devices,    \* device ids; a device id is bound to one key pair
    Owners,     \* the devices on which `init` and `recover` are run
    Codes,      \* pairing codes
    Tokens,     \* enrolment token ids
    Names,      \* secret names
    GrantIds,   \* vault grant ids
    Apps,       \* grant audiences
    None,       \* no value
    Ops,        \* the operations performed in this instance
    Ttl,        \* lifetime given to enrolment tokens and grants
    MaxTime,    \* model bound on the clock
    MaxVersion, \* model bound on secret versions
    MaxLate     \* model bound on the late writes under way

ASSUME VaultAssumption ==
    /\ Owners \subseteq Devices
    /\ None \notin Devices
    /\ Ttl \in Nat /\ MaxTime \in Nat /\ MaxVersion \in Nat /\ MaxLate \in Nat

VARIABLES
    meta,    \* "meta": the owner it names
    dev,     \* dev[d]: the master wrapped in "d.<d>"
    pair,    \* pair[c]: the device whose request is at "p.<c>"
    enrol,   \* enrol[t]: the record at "enrol.<t>"
    sec,     \* sec[n]: the record at "s.<n>"
    live,    \* live[g]: "g.<g>" is in the store
    gtoken,  \* gtoken[g]: the grant token handed out under id g
    drawn,   \* history: the enrolment token ids drawn so far
    proc,    \* proc[d]: where device d is in its current operation
    now,
    late     \* the writes that may still arrive though their callers gave up

store == <<meta, dev, pair, enrol, sec, live>>
vars == <<meta, dev, pair, enrol, sec, live, gtoken, drawn, proc, now, late>>

Idle == [pc |-> "idle", arg |-> None, who |-> None, master |-> None, ver |-> 0, was |-> FALSE]

At(d, label) == proc[d].pc = label
Free(d, op) == At(d, "idle") /\ op \in Ops
Goto(d, r) == proc' = [proc EXCEPT ![d] = r]
Finish(d) == Goto(d, Idle)
-----------------------------------------------------------------------------
(* Establishing and re-establishing the vault *)

(* Ok(false) when `meta` exists: nothing changes. *)
init(d) ==
    /\ Free(d, "init") /\ d \in Owners
    /\ meta = None
    /\ Goto(d, [Idle EXCEPT !.pc = "recover_enroll", !.master = d])
    /\ UNCHANGED <<store, gtoken, drawn, now, late>>

(* Mutant: recovery is refused while a `meta` record exists. *)
RecoverOnlyWiped(d) ==
    /\ Free(d, "recover") /\ d \in Owners
    /\ meta = None
    /\ Goto(d, [Idle EXCEPT !.pc = "recover_enroll", !.master = d])
    /\ UNCHANGED <<store, gtoken, drawn, now, late>>

recover(d) ==
    /\ Free(d, "recover") /\ d \in Owners
    /\ Goto(d, [Idle EXCEPT !.pc = "recover_enroll", !.master = d])
    /\ UNCHANGED <<store, gtoken, drawn, now, late>>

recover_enroll(d) ==
    /\ At(d, "recover_enroll")
    /\ dev' = [dev EXCEPT ![d] = proc[d].master]
    /\ Goto(d, [proc[d] EXCEPT !.pc = "recover_meta"])
    /\ UNCHANGED <<meta, pair, enrol, sec, live, gtoken, drawn, now, late>>

recover_meta(d) ==
    /\ At(d, "recover_meta")
    /\ meta' = d
    /\ Finish(d)
    /\ UNCHANGED <<dev, pair, enrol, sec, live, gtoken, drawn, now, late>>
-----------------------------------------------------------------------------
(* Pairing: request, then approval by a device that can load the master *)

request_pairing(d, c) ==
    /\ Free(d, "pair")
    /\ pair[c] = None
    /\ pair' = [pair EXCEPT ![c] = d]
    /\ UNCHANGED <<meta, dev, enrol, sec, live, gtoken, drawn, proc, now, late>>

approve_pairing(d, c) ==
    /\ Free(d, "pair")
    /\ pair[c] # None
    /\ Goto(d, [Idle EXCEPT !.pc = "approve_load", !.arg = c, !.who = pair[c]])
    /\ UNCHANGED <<store, gtoken, drawn, now, late>>

(* Mutant: the approver does not notice that it is not enrolled. *)
ApproveLoadUnchecked(d) ==
    /\ At(d, "approve_load")
    /\ Goto(d, [proc[d] EXCEPT !.pc = "approve_enroll", !.master = dev[d]])
    /\ UNCHANGED <<store, gtoken, drawn, now, late>>

(* Mutant: the approver wraps a master derived from its own key instead of
   the one it unwraps from its device record. *)
ApproveLoadDerives(d) ==
    /\ At(d, "approve_load")
    /\ IF dev[d] = None
       THEN Finish(d)
       ELSE Goto(d, [proc[d] EXCEPT !.pc = "approve_enroll", !.master = d])
    /\ UNCHANGED <<store, gtoken, drawn, now, late>>

approve_load(d) ==
    /\ At(d, "approve_load")
    /\ IF dev[d] = None
       THEN Finish(d)
       ELSE Goto(d, [proc[d] EXCEPT !.pc = "approve_enroll", !.master = dev[d]])
    /\ UNCHANGED <<store, gtoken, drawn, now, late>>

approve_enroll(d) ==
    /\ At(d, "approve_enroll")
    /\ dev' = [dev EXCEPT ![proc[d].who] = proc[d].master]
    /\ Goto(d, [proc[d] EXCEPT !.pc = "approve_del"])
    /\ UNCHANGED <<meta, pair, enrol, sec, live, gtoken, drawn, now, late>>

approve_del(d) ==
    /\ At(d, "approve_del")
    /\ pair' = [pair EXCEPT ![proc[d].arg] = None]
    /\ Finish(d)
    /\ UNCHANGED <<meta, dev, enrol, sec, live, gtoken, drawn, now, late>>
-----------------------------------------------------------------------------
(* Enrolment tokens: the master sealed under the token's secret *)

issue_enrol_token(d, t) ==
    /\ Free(d, "token")
    /\ dev[d] # None
    /\ t \notin drawn
    /\ drawn' = drawn \cup {t}
    /\ Goto(d, [Idle EXCEPT !.pc = "token_put", !.arg = t, !.master = dev[d]])
    /\ UNCHANGED <<store, gtoken, now, late>>

token_put(d) ==
    /\ At(d, "token_put")
    /\ enrol' = [enrol EXCEPT ![proc[d].arg] =
                    [master |-> proc[d].master, expires |-> now + Ttl]]
    /\ Finish(d)
    /\ UNCHANGED <<meta, dev, pair, sec, live, gtoken, drawn, now, late>>

redeem_enrol_token(d, t) ==
    /\ Free(d, "token")
    /\ enrol[t] # None
    /\ ~(enrol[t].expires < now)
    /\ Goto(d, [Idle EXCEPT !.pc = "redeem_enroll", !.arg = t, !.master = enrol[t].master])
    /\ UNCHANGED <<store, gtoken, drawn, now, late>>

redeem_enroll(d) ==
    /\ At(d, "redeem_enroll")
    /\ dev' = [dev EXCEPT ![d] = proc[d].master]
    /\ Goto(d, [proc[d] EXCEPT !.pc = "redeem_burn"])
    /\ UNCHANGED <<meta, pair, enrol, sec, live, gtoken, drawn, now, late>>

redeem_burn(d) ==
    /\ At(d, "redeem_burn")
    /\ enrol' = [enrol EXCEPT ![proc[d].arg] = None]
    /\ Finish(d)
    /\ UNCHANGED <<meta, dev, pair, sec, live, gtoken, drawn, now, late>>

(* The only refusal is "the device you are using". *)
revoke_device(d, x) ==
    /\ Free(d, "revoke")
    /\ x # d
    /\ dev' = [dev EXCEPT ![x] = None]
    /\ UNCHANGED <<meta, pair, enrol, sec, live, gtoken, drawn, proc, now, late>>
-----------------------------------------------------------------------------
(* Secrets: put (also gen and rotate), get, delete *)

store_secret(d, n) ==
    /\ Free(d, "put")
    /\ dev[d] # None
    /\ Goto(d, [Idle EXCEPT !.pc = "put_prev", !.arg = n, !.master = dev[d]])
    /\ UNCHANGED <<store, gtoken, drawn, now, late>>

put_prev(d) ==
    LET prev == sec[proc[d].arg]
        version == IF prev = None THEN 1 ELSE prev.version + 1
    IN /\ At(d, "put_prev")
       /\ version <= MaxVersion   \* model bound
       /\ Goto(d, [proc[d] EXCEPT !.pc = "put_write", !.ver = version])
       /\ UNCHANGED <<store, gtoken, drawn, now, late>>

put_write(d) ==
    /\ At(d, "put_write")
    /\ sec' = [sec EXCEPT ![proc[d].arg] =
                  [version |-> proc[d].ver, master |-> proc[d].master]]
    /\ Finish(d)
    /\ UNCHANGED <<meta, dev, pair, enrol, live, gtoken, drawn, now, late>>

(* The sealed body is read first, the device's own record second. *)
get_secret(d, n) ==
    /\ Free(d, "get")
    /\ sec[n] # None
    /\ Goto(d, [Idle EXCEPT !.pc = "get_load", !.arg = n, !.master = sec[n].master])
    /\ UNCHANGED <<store, gtoken, drawn, now, late>>

(* Reveals the secret when the loaded master opens it, fails otherwise. *)
get_load(d) ==
    /\ At(d, "get_load")
    /\ Finish(d)
    /\ UNCHANGED <<store, gtoken, drawn, now, late>>

delete_secret(d, n) ==
    /\ Free(d, "delete")
    /\ sec[n] # None
    /\ sec' = [sec EXCEPT ![n] = None]
    /\ UNCHANGED <<meta, dev, pair, enrol, live, gtoken, drawn, proc, now, late>>
-----------------------------------------------------------------------------
(* Vault grants *)

issue_grant(d) ==
    /\ Free(d, "grant")
    /\ dev[d] # None
    /\ Goto(d, [Idle EXCEPT !.pc = "grant_put"])
    /\ UNCHANGED <<store, gtoken, drawn, now, late>>

GrantPutWith(d, g, app, reads, expires) ==
    /\ live' = [live EXCEPT ![g] = TRUE]
    /\ gtoken' = [gtoken EXCEPT ![g] =
                     [issuer |-> d, audience |-> app, reads |-> reads, expires |-> expires]]
    /\ Finish(d)
    /\ UNCHANGED <<meta, dev, pair, enrol, sec, drawn, now, late>>

(* Mutant: the id is derived from the grant's content, so a grant issued again
   takes the id of the revoked one. *)
GrantPutReusingId(d, g, app, reads, expires) ==
    /\ At(d, "grant_put")
    /\ GrantPutWith(d, g, app, reads, expires)

(* Grant ids are random: one that was drawn, even by an issue_grant that gave
   up on its put, is not drawn again. *)
Fresh(g) == gtoken[g] = None /\ ~live[g] /\ \A w \in late : ~(w.rec = "g" /\ w.key = g)

grant_put(d, g, app, reads, expires) ==
    /\ At(d, "grant_put")
    /\ Fresh(g)
    /\ GrantPutWith(d, g, app, reads, expires)

revoke_grant(d, g) ==
    /\ Free(d, "grant")
    /\ live[g]
    /\ live' = [live EXCEPT ![g] = FALSE]
    /\ UNCHANGED <<meta, dev, pair, enrol, sec, gtoken, drawn, proc, now, late>>

(* The checks on the token itself and on the issuer's device record; `was`
   remembers for the properties whether the grant was in the store then. *)
verify_grant(d, g, app, n) ==
    /\ Free(d, "grant")
    /\ gtoken[g] # None
    /\ dev[gtoken[g].issuer] # None
    /\ gtoken[g].expires # None => ~(gtoken[g].expires < now)
    /\ gtoken[g].audience = app
    /\ n \in gtoken[g].reads
    /\ Goto(d, [Idle EXCEPT !.pc = "verify_live", !.arg = g, !.was = live[g]])
    /\ UNCHANGED <<store, gtoken, drawn, now, late>>

(* Allows when the grant is (still) in the store, denies otherwise. *)
verify_live(d) ==
    /\ At(d, "verify_live")
    /\ Finish(d)
    /\ UNCHANGED <<store, gtoken, drawn, now, late>>
-----------------------------------------------------------------------------
(* Writes that time out *)

(* The put or del that device d awaits. *)
Awaited(d) ==
    LET p == proc[d]
        write(rec, key, val) == {[rec |-> rec, key |-> key, val |-> val]}
    IN CASE At(d, "recover_enroll") -> write("d", d, p.master)
         [] At(d, "recover_meta")   -> write("meta", None, d)
         [] At(d, "approve_enroll") -> write("d", p.who, p.master)
         [] At(d, "approve_del")    -> write("p", p.arg, None)
         [] At(d, "token_put")      ->
                write("enrol", p.arg, [master |-> p.master, expires |-> now + Ttl])
         [] At(d, "redeem_enroll")  -> write("d", d, p.master)
         [] At(d, "redeem_burn")    -> write("enrol", p.arg, None)
         [] At(d, "put_write")      ->
                write("s", p.arg, [version |-> p.ver, master |-> p.master])
         [] At(d, "grant_put")      -> UNION {write("g", g, TRUE) : g \in {g \in GrantIds : Fresh(g)}}
         [] OTHER -> {}

(* The call returns an error, the operation returns early, and the request is
   still on its way.  (A request_pairing, revoke_device, delete_secret or
   revoke_grant that arrives late is the same as one made later, and a write
   that arrived before its caller gave up is the step and then `crash`.) *)
times_out(d) ==
    /\ Cardinality(late) < MaxLate
    /\ \E w \in Awaited(d) : late' = late \cup {w}
    /\ Finish(d)
    /\ UNCHANGED <<store, gtoken, drawn, now>>

late_arrives(w) ==
    /\ late' = late \ {w}
    /\ meta' = IF w.rec = "meta" THEN w.val ELSE meta
    /\ dev' = IF w.rec = "d" THEN [dev EXCEPT ![w.key] = w.val] ELSE dev
    /\ pair' = IF w.rec = "p" THEN [pair EXCEPT ![w.key] = w.val] ELSE pair
    /\ enrol' = IF w.rec = "enrol" THEN [enrol EXCEPT ![w.key] = w.val] ELSE enrol
    /\ sec' = IF w.rec = "s" THEN [sec EXCEPT ![w.key] = w.val] ELSE sec
    /\ live' = IF w.rec = "g" THEN [live EXCEPT ![w.key] = w.val] ELSE live
    /\ UNCHANGED <<gtoken, drawn, proc, now>>
-----------------------------------------------------------------------------
(* Environment *)

(* external: the store loses its records; the sealed secrets may survive *)
wipe(keep) ==
    /\ "wipe" \in Ops
    /\ meta' = None
    /\ dev' = [d \in Devices |-> None]
    /\ pair' = [c \in Codes |-> None]
    /\ enrol' = [t \in Tokens |-> None]
    /\ live' = [g \in GrantIds |-> FALSE]
    /\ sec' = IF keep THEN sec ELSE [n \in Names |-> None]
    /\ UNCHANGED <<gtoken, drawn, proc, now, late>>

(* external: a device stops, or a store call fails, between two steps *)
crash(d) ==
    /\ "crash" \in Ops
    /\ ~At(d, "idle")
    /\ Finish(d)
    /\ UNCHANGED <<store, gtoken, drawn, now, late>>

(* external: time passes *)
tick ==
    /\ now < MaxTime
    /\ now' = now + 1
    /\ UNCHANGED <<store, gtoken, drawn, proc, late>>

Init ==
    /\ meta = None
    /\ dev = [d \in Devices |-> None]
    /\ pair = [c \in Codes |-> None]
    /\ enrol = [t \in Tokens |-> None]
    /\ sec = [n \in Names |-> None]
    /\ live = [g \in GrantIds |-> FALSE]
    /\ gtoken = [g \in GrantIds |-> None]
    /\ drawn = {}
    /\ proc = [d \in Devices |-> Idle]
    /\ now = 0
    /\ late = {}

Establish(d) == init(d) \/ recover(d) \/ recover_enroll(d) \/ recover_meta(d)
Pairing(d) ==
    \/ \E c \in Codes : request_pairing(d, c) \/ approve_pairing(d, c)
    \/ approve_load(d) \/ approve_enroll(d) \/ approve_del(d)
Enrolling(d) ==
    \/ token_put(d) \/ redeem_enroll(d) \/ redeem_burn(d)
    \/ \E t \in Tokens : issue_enrol_token(d, t) \/ redeem_enrol_token(d, t)
Secrets(d) ==
    \/ \E n \in Names : store_secret(d, n) \/ get_secret(d, n) \/ delete_secret(d, n)
    \/ put_prev(d) \/ put_write(d) \/ get_load(d)
Granting(d) ==
    \/ issue_grant(d) \/ verify_live(d)
    \/ \E g \in GrantIds, app \in Apps :
        \/ \E reads \in SUBSET Names, e \in {None, now + Ttl} : grant_put(d, g, app, reads, e)
        \/ \E n \in Names : verify_grant(d, g, app, n)
    \/ \E g \in GrantIds : revoke_grant(d, g)

Next ==
    \/ \E d \in Devices :
        \/ Establish(d) \/ Pairing(d) \/ Enrolling(d) \/ Secrets(d) \/ Granting(d)
        \/ \E x \in Devices : revoke_device(d, x)
        \/ crash(d) \/ times_out(d)
    \/ \E w \in late : late_arrives(w)
    \/ \E keep \in BOOLEAN : wipe(keep)
    \/ tick

Spec == Init /\ [][Next]_vars

(* An operation under way takes its next step. *)
Proceed(d) ==
    \/ recover_enroll(d) \/ recover_meta(d)
    \/ approve_load(d) \/ approve_enroll(d) \/ approve_del(d)
    \/ redeem_enroll(d) \/ redeem_burn(d) \/ token_put(d)
    \/ put_prev(d) \/ put_write(d) \/ get_load(d) \/ verify_live(d)

(* The owner's device is never stuck inside an operation, the owner goes on
   trying to recover, and a crash or a failing store call does not hit every
   single attempt to write the device record, nor every one to write meta. *)
OwnerFairness ==
    \A d \in Owners :
        /\ WF_vars(Proceed(d))
        /\ SF_vars(recover(d)) /\ SF_vars(recover_enroll(d)) /\ SF_vars(recover_meta(d))
FairSpec == Spec /\ OwnerFairness
-----------------------------------------------------------------------------
(* Properties *)

Master == Devices \cup {None}

Labels == {"idle", "recover_enroll", "recover_meta", "approve_load", "approve_enroll",
           "approve_del", "token_put", "redeem_enroll", "redeem_burn", "put_prev",
           "put_write", "get_load", "grant_put", "verify_live"}

EnrolRecord == [master : Devices, expires : Nat]
SecretRecord == [version : Nat \ {0}, master : Devices]
GrantToken == [issuer : Devices, audience : Apps, reads : SUBSET Names,
               expires : Nat \cup {None}]
Process == [pc : Labels, arg : Codes \cup Tokens \cup Names \cup GrantIds \cup {None},
            who : Master, master : Master, ver : Nat, was : BOOLEAN]
Key == Devices \cup Codes \cup Tokens \cup Names \cup GrantIds \cup {None}
LateWrite ==
    [rec : {"meta"}, key : {None}, val : Devices] \cup
    [rec : {"d"}, key : Devices, val : Devices] \cup
    [rec : {"p"}, key : Key, val : {None}] \cup
    [rec : {"enrol"}, key : Key, val : EnrolRecord \cup {None}] \cup
    [rec : {"s"}, key : Names, val : SecretRecord] \cup
    [rec : {"g"}, key : GrantIds, val : {TRUE}]

(* Labels at which an operation holds a master it will wrap or seal with. *)
HoldsMaster == {"recover_enroll", "approve_enroll", "token_put", "redeem_enroll",
                "put_prev", "put_write", "get_load"}

(* What a process with record r has in hand: a pending enrolment or sealing
   has a master, an approval its device, a token put its token. *)
InHand(r) ==
    /\ r.pc \in HoldsMaster => r.master \in Devices
    /\ r.pc \in {"approve_load", "approve_enroll"} => r.who \in Devices
    /\ r.pc \in {"put_prev", "put_write"} => r.arg \in Names
    /\ r.pc = "put_write" => r.ver # 0

(* Type invariant, together with what each operation holds in memory: in
   particular a device that is not enrolled enrols nobody. *)
TypeOK ==
    /\ meta \in Master /\ dev \in [Devices -> Master] /\ pair \in [Codes -> Master]
    /\ enrol \in [Tokens -> EnrolRecord \cup {None}]
    /\ sec \in [Names -> SecretRecord \cup {None}]
    /\ live \in [GrantIds -> BOOLEAN]
    /\ gtoken \in [GrantIds -> GrantToken \cup {None}]
    /\ drawn \subseteq Tokens
    /\ late \subseteq LateWrite
    /\ proc \in [Devices -> Process]
    /\ \A d \in Devices : InHand(proc[d])
    /\ now \in Nat

(* "One vault master key encrypts every secret": every enrolled device opens
   every stored secret, and a device that has read a sealed body and still
   has a device record opens what it read, whatever was approved, redeemed,
   revoked, wiped, recovered or interrupted meanwhile. *)
EnrolledOpensEverything ==
    \A d \in Devices : dev[d] # None =>
        /\ \A n \in Names : sec[n] # None => sec[n].master = dev[d]
        /\ At(d, "get_load") => proc[d].master = dev[d]

(* verify_grant reads the issuer's record and the grant record in two store
   calls.  If the second finds the grant, the grant was there at the first
   too: there was one instant at which the issuer was enrolled and the grant
   was unrevoked, so a verification that began after a revocation completed
   never allows. *)
AllowedAtOneInstant ==
    \A d \in Devices :
        At(d, "verify_live") /\ live[proc[d].arg] => proc[d].was

(* "So the owner is never locked out": however often the other devices revoke
   the owner, the store is wiped and a recovery stops halfway, an owner that
   goes on running `recover` is enrolled again under its own master, and the
   vault has its meta record again. *)
OwnerNeverLockedOut == \A o \in Owners : []<>(dev[o] = o) /\ []<>(meta = o)

(* redeem_enrol_token "burn[s] the token (so it cannot be replayed)": two
   devices are never both enrolled by one token. *)
TokenEnrolsOnce ==
    \A d, e \in Devices :
        At(d, "redeem_burn") /\ At(e, "redeem_burn") /\ proc[d].arg = proc[e].arg => d = e

=============================================================================
