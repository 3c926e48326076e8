---------------------------- MODULE VaultProofs -----------------------------
(* Proofs about Vault: the type invariant and the atomicity of grant         *)
(* verification for every instance, and, when `init` and `recover` are run   *)
(* on one device only, that one master is behind every record.               *)
EXTENDS Vault, TLAPS

(* The part of TypeOK about the store and the tokens handed out. *)
StoreOK ==
    /\ meta \in Master /\ dev \in [Devices -> Master] /\ pair \in [Codes -> Master]
    /\ enrol \in [Tokens -> EnrolRecord \cup {None}]
    /\ sec \in [Names -> SecretRecord \cup {None}]
    /\ live \in [GrantIds -> BOOLEAN]
    /\ gtoken \in [GrantIds -> GrantToken \cup {None}]
    /\ drawn \subseteq Tokens
    /\ late \subseteq LateWrite
    /\ now \in Nat

LEMMA IdleOK == Idle \in Process /\ InHand(Idle)
  BY DEF Idle, Process, Labels, Master, InHand, HoldsMaster

(* A device that goes to a well-formed point of an operation, or stays where
   it is, keeps the devices' part of TypeOK. *)
LEMMA GotoOK ==
    ASSUME TypeOK, StoreOK',
           UNCHANGED proc \/ \E d \in Devices, r \in Process : InHand(r) /\ Goto(d, r)
    PROVE  TypeOK'
<1>2. proc' \in [Devices -> Process] /\ \A d \in Devices : InHand(proc'[d])
  <2>1. CASE UNCHANGED proc
    BY <2>1 DEF InHand, TypeOK
  <2>2. ASSUME NEW d \in Devices, NEW r \in Process, InHand(r), Goto(d, r)
        PROVE  proc' \in [Devices -> Process] /\ \A e \in Devices : InHand(proc'[e])
    <3>1. proc' = [proc EXCEPT ![d] = r] /\ proc' \in [Devices -> Process]
      BY <2>2 DEF Goto, TypeOK
    <3>2. \A e \in Devices : e # d => proc'[e] = proc[e]
      BY <3>1 DEF TypeOK
    <3>3. \A e \in Devices : e # d => InHand(proc'[e])
      BY <3>2 DEF InHand, TypeOK
    <3>4. InHand(proc'[d])
      BY <2>2, <3>1 DEF InHand, TypeOK
    <3> QED BY <3>1, <3>3, <3>4
  <2> QED BY <2>1, <2>2
<1> QED BY <1>2 DEF TypeOK, StoreOK

(* A write that an operation awaits is one of those LateWrite lists. *)
LEMMA AwaitedOK ==
    ASSUME TypeOK, NEW d \in Devices, NEW w \in Awaited(d)
    PROVE  w \in LateWrite
<1> DEFINE p == proc[d]
<1>0. p \in Process /\ InHand(p) /\ now \in Nat
  BY DEF TypeOK
<1>a. /\ p.pc \in {"recover_enroll", "redeem_enroll", "approve_enroll", "token_put",
                   "put_write"} => p.master \in Devices
      /\ p.pc = "approve_enroll" => p.who \in Devices
      /\ p.pc = "put_write" => p.arg \in Names /\ p.ver \in Nat \ {0}
      /\ p.arg \in Key
  BY <1>0 DEF InHand, HoldsMaster, Process, Key
<1>1. CASE p.pc \in {"recover_enroll", "redeem_enroll"}
  <2>1. w = [rec |-> "d", key |-> d, val |-> p.master]
    BY <1>1 DEF Awaited, At
  <2> QED BY <1>1, <1>a, <2>1 DEF LateWrite
<1>2. CASE p.pc = "recover_meta"
  <2>1. w = [rec |-> "meta", key |-> None, val |-> d]
    BY <1>2 DEF Awaited, At
  <2> QED BY <2>1 DEF LateWrite
<1>3. CASE p.pc = "approve_enroll"
  <2>1. w = [rec |-> "d", key |-> p.who, val |-> p.master]
    BY <1>3 DEF Awaited, At
  <2> QED BY <1>3, <1>a, <2>1 DEF LateWrite
<1>4. CASE p.pc = "approve_del"
  <2>1. w = [rec |-> "p", key |-> p.arg, val |-> None]
    BY <1>4 DEF Awaited, At
  <2> QED BY <1>a, <2>1 DEF LateWrite
<1>8. CASE p.pc = "redeem_burn"
  <2>1. w = [rec |-> "enrol", key |-> p.arg, val |-> None]
    BY <1>8 DEF Awaited, At
  <2> QED BY <1>a, <2>1 DEF LateWrite
<1>5. CASE p.pc = "token_put"
  <2>1. [master |-> p.master, expires |-> now + Ttl] \in EnrolRecord
    BY <1>0, <1>5, <1>a, VaultAssumption DEF EnrolRecord
  <2>2. w = [rec |-> "enrol", key |-> p.arg,
             val |-> [master |-> p.master, expires |-> now + Ttl]]
    BY <1>5 DEF Awaited, At
  <2> QED BY <1>a, <2>1, <2>2 DEF LateWrite
<1>6. CASE p.pc = "put_write"
  <2>1. [version |-> p.ver, master |-> p.master] \in SecretRecord /\ p.arg \in Names
    BY <1>a, <1>6 DEF SecretRecord
  <2>2. w = [rec |-> "s", key |-> p.arg, val |-> [version |-> p.ver, master |-> p.master]]
    BY <1>6 DEF Awaited, At
  <2> QED BY <2>1, <2>2 DEF LateWrite
<1>7. CASE p.pc = "grant_put"
  <2>1. \E g \in GrantIds : w = [rec |-> "g", key |-> g, val |-> TRUE]
    BY <1>7 DEF Awaited, At
  <2> QED BY <2>1 DEF LateWrite
<1> QED BY <1>1, <1>2, <1>3, <1>4, <1>5, <1>6, <1>7, <1>8 DEF Awaited, At

(* Every step keeps the store and the devices' operations well-formed. *)
LEMMA TypeInductive ==
    ASSUME TypeOK, [Next]_vars
    PROVE  TypeOK'
<1> DEFINE Moves == \/ UNCHANGED proc
                    \/ \E d \in Devices, r \in Process : InHand(r) /\ Goto(d, r)
<1>0. StoreOK /\ \A d \in Devices : proc[d] \in Process /\ InHand(proc[d])
  BY DEF TypeOK, StoreOK
<1>i. ASSUME NEW d \in Devices, Finish(d) PROVE Moves
  BY <1>i, IdleOK DEF Finish
<1>s. ASSUME UNCHANGED <<store, gtoken, drawn, now, late>> PROVE StoreOK'
  BY <1>0, <1>s DEF StoreOK, store
<1>1. ASSUME NEW d \in Devices, init(d) PROVE TypeOK'
  <2> DEFINE r == [Idle EXCEPT !.pc = "recover_enroll", !.master = d]
  <2>1. r \in Process /\ InHand(r)
    BY <1>1, <1>0, VaultAssumption
    DEF init, Idle, Process, Labels, Master, InHand, HoldsMaster, At
  <2> HIDE DEF r
  <2>2. Goto(d, r)
    BY <1>1 DEF init, r
  <2> QED BY <1>1, <1>s, <2>1, <2>2, GotoOK DEF init
<1>2. ASSUME NEW d \in Devices, recover(d) PROVE TypeOK'
  <2> DEFINE r == [Idle EXCEPT !.pc = "recover_enroll", !.master = d]
  <2>1. r \in Process /\ InHand(r)
    BY <1>2, <1>0, VaultAssumption
    DEF recover, Idle, Process, Labels, Master, InHand, HoldsMaster, At
  <2> HIDE DEF r
  <2>2. Goto(d, r)
    BY <1>2 DEF recover, r
  <2> QED BY <1>2, <1>s, <2>1, <2>2, GotoOK DEF recover
<1>3. ASSUME NEW d \in Devices, recover_enroll(d) PROVE TypeOK'
  <2> DEFINE r == [proc[d] EXCEPT !.pc = "recover_meta"]
  <2>1. r \in Process /\ InHand(r)
    BY <1>3, <1>0, VaultAssumption
    DEF recover_enroll, Idle, Process, Labels, Master, InHand, HoldsMaster, At
  <2> HIDE DEF r
  <2>2. Goto(d, r)
    BY <1>3 DEF recover_enroll, r
  <2>3. StoreOK'
    BY <1>3, <1>0, VaultAssumption
    DEF recover_enroll, StoreOK, InHand, HoldsMaster, Master, At
  <2> QED BY <2>1, <2>2, <2>3, GotoOK
<1>4. ASSUME NEW d \in Devices, recover_meta(d) PROVE TypeOK'
  <2>3. StoreOK'
    BY <1>4, <1>0, VaultAssumption
    DEF recover_meta, StoreOK, InHand, HoldsMaster, Master, At
  <2> QED BY <1>4, <1>i, <2>3, GotoOK DEF recover_meta
<1>5. ASSUME NEW d \in Devices, NEW c \in Codes, request_pairing(d, c) PROVE TypeOK'
  <2>3. StoreOK'
    BY <1>5, <1>0, VaultAssumption DEF request_pairing, StoreOK, Master
  <2> QED BY <1>5, <2>3, GotoOK DEF request_pairing
<1>6. ASSUME NEW d \in Devices, NEW c \in Codes, approve_pairing(d, c) PROVE TypeOK'
  <2> DEFINE r == [Idle EXCEPT !.pc = "approve_load", !.arg = c, !.who = pair[c]]
  <2>1. r \in Process /\ InHand(r)
    BY <1>6, <1>0, VaultAssumption
    DEF approve_pairing, Idle, Process, Labels, Master, InHand, HoldsMaster, At, StoreOK
  <2> HIDE DEF r
  <2>2. Goto(d, r)
    BY <1>6 DEF approve_pairing, r
  <2> QED BY <1>6, <1>s, <2>1, <2>2, GotoOK DEF approve_pairing
<1>7. ASSUME NEW d \in Devices, approve_load(d) PROVE TypeOK'
  <2>0. CASE dev[d] = None
    BY <1>7, <1>i, <1>s, <2>0, GotoOK DEF approve_load
  <2>3. CASE dev[d] # None
    <3> DEFINE r == [proc[d] EXCEPT !.pc = "approve_enroll", !.master = dev[d]]
    <3>0. proc[d] \in Process /\ proc[d].who \in Devices /\ dev[d] \in Devices
      BY <1>7, <1>0, <2>3 DEF approve_load, InHand, At, StoreOK, Master
    <3>1. r \in Process /\ InHand(r)
      BY <3>0 DEF Process, Labels, Master, InHand, HoldsMaster
    <3> HIDE DEF r
    <3>2. Goto(d, r)
      BY <1>7, <2>3 DEF approve_load, r
    <3> QED BY <1>7, <1>s, <3>1, <3>2, GotoOK DEF approve_load
  <2> QED BY <2>0, <2>3
<1>8. ASSUME NEW d \in Devices, approve_enroll(d) PROVE TypeOK'
  <2> DEFINE r == [proc[d] EXCEPT !.pc = "approve_del"]
  <2>1. r \in Process /\ InHand(r)
    BY <1>8, <1>0, VaultAssumption
    DEF approve_enroll, Idle, Process, Labels, Master, InHand, HoldsMaster, At
  <2> HIDE DEF r
  <2>2. Goto(d, r)
    BY <1>8 DEF approve_enroll, r
  <2>3. StoreOK'
    BY <1>8, <1>0, VaultAssumption
    DEF approve_enroll, StoreOK, InHand, HoldsMaster, Master, At
  <2> QED BY <2>1, <2>2, <2>3, GotoOK
<1>9. ASSUME NEW d \in Devices, approve_del(d) PROVE TypeOK'
  <2>3. StoreOK'
    BY <1>9, <1>0, VaultAssumption
    DEF approve_del, StoreOK, InHand, HoldsMaster, Master, At
  <2> QED BY <1>9, <1>i, <2>3, GotoOK DEF approve_del
<1>10. ASSUME NEW d \in Devices, NEW t \in Tokens, issue_enrol_token(d, t) PROVE TypeOK'
  <2> DEFINE r == [Idle EXCEPT !.pc = "token_put", !.arg = t, !.master = dev[d]]
  <2>1. r \in Process /\ InHand(r)
    <3>1. dev[d] \in Devices
      BY <1>10, <1>0 DEF issue_enrol_token, StoreOK, Master
    <3> QED BY <3>1 DEF Idle, Process, Labels, Master, InHand, HoldsMaster
  <2> HIDE DEF r
  <2>2. Goto(d, r)
    BY <1>10 DEF issue_enrol_token, r
  <2>3. StoreOK'
    BY <1>10, <1>0, VaultAssumption
    DEF issue_enrol_token, StoreOK, InHand, HoldsMaster, Master, At, store
  <2> QED BY <2>1, <2>2, <2>3, GotoOK
<1>11. ASSUME NEW d \in Devices, token_put(d) PROVE TypeOK'
  <2>1. [master |-> proc[d].master, expires |-> now + Ttl] \in EnrolRecord
    BY <1>11, <1>0, VaultAssumption
    DEF token_put, InHand, HoldsMaster, EnrolRecord, At, StoreOK
  <2>3. StoreOK'
    BY <1>11, <1>0, <2>1, VaultAssumption
    DEF token_put, StoreOK, InHand, HoldsMaster, Master, At
  <2> QED BY <1>11, <1>i, <2>3, GotoOK DEF token_put
<1>12. ASSUME NEW d \in Devices, NEW t \in Tokens, redeem_enrol_token(d, t) PROVE TypeOK'
  <2> DEFINE r == [Idle EXCEPT !.pc = "redeem_enroll", !.arg = t, !.master = enrol[t].master]
  <2>1. r \in Process /\ InHand(r)
    BY <1>12, <1>0, VaultAssumption
    DEF redeem_enrol_token, Idle, Process, Labels, Master, InHand, HoldsMaster, At,
        StoreOK, EnrolRecord, store
  <2> HIDE DEF r
  <2>2. Goto(d, r)
    BY <1>12 DEF redeem_enrol_token, r
  <2> QED BY <1>12, <1>s, <2>1, <2>2, GotoOK DEF redeem_enrol_token
<1>13. ASSUME NEW d \in Devices, redeem_enroll(d) PROVE TypeOK'
  <2> DEFINE r == [proc[d] EXCEPT !.pc = "redeem_burn"]
  <2>1. r \in Process /\ InHand(r)
    BY <1>13, <1>0, VaultAssumption
    DEF redeem_enroll, Idle, Process, Labels, Master, InHand, HoldsMaster, At
  <2> HIDE DEF r
  <2>2. Goto(d, r)
    BY <1>13 DEF redeem_enroll, r
  <2>3. StoreOK'
    BY <1>13, <1>0, VaultAssumption
    DEF redeem_enroll, StoreOK, InHand, HoldsMaster, Master, At
  <2> QED BY <2>1, <2>2, <2>3, GotoOK
<1>14. ASSUME NEW d \in Devices, redeem_burn(d) PROVE TypeOK'
  <2>3. StoreOK'
    BY <1>14, <1>0, VaultAssumption
    DEF redeem_burn, StoreOK, InHand, HoldsMaster, Master, At
  <2> QED BY <1>14, <1>i, <2>3, GotoOK DEF redeem_burn
<1>15. ASSUME NEW d \in Devices, NEW x \in Devices, revoke_device(d, x) PROVE TypeOK'
  <2>3. StoreOK'
    BY <1>15, <1>0, VaultAssumption DEF revoke_device, StoreOK, Master
  <2> QED BY <1>15, <2>3, GotoOK DEF revoke_device
<1>16. ASSUME NEW d \in Devices, NEW n \in Names, store_secret(d, n) PROVE TypeOK'
  <2> DEFINE r == [Idle EXCEPT !.pc = "put_prev", !.arg = n, !.master = dev[d]]
  <2>1. r \in Process /\ InHand(r)
    BY <1>16, <1>0, VaultAssumption
    DEF store_secret, Idle, Process, Labels, Master, InHand, HoldsMaster, At, StoreOK
  <2> HIDE DEF r
  <2>2. Goto(d, r)
    BY <1>16 DEF store_secret, r
  <2> QED BY <1>16, <1>s, <2>1, <2>2, GotoOK DEF store_secret
<1>17. ASSUME NEW d \in Devices, put_prev(d) PROVE TypeOK'
  <2> DEFINE prev == sec[proc[d].arg]
             v == IF prev = None THEN 1 ELSE prev.version + 1
             r == [proc[d] EXCEPT !.pc = "put_write", !.ver = v]
  <2>0. v \in Nat /\ v # 0
    BY <1>17, <1>0 DEF put_prev, InHand, At, StoreOK, SecretRecord
  <2>2. Goto(d, r)
    BY <1>17 DEF put_prev
  <2> HIDE DEF v
  <2>1. r \in Process /\ InHand(r)
    <3>1. proc[d] \in Process /\ proc[d].master \in Devices /\ proc[d].arg \in Names
      BY <1>17, <1>0 DEF put_prev, InHand, HoldsMaster, At
    <3> QED BY <2>0, <3>1 DEF Process, Labels, InHand, HoldsMaster
  <2> HIDE DEF r
  <2> QED BY <1>17, <1>s, <2>1, <2>2, GotoOK DEF put_prev
<1>18. ASSUME NEW d \in Devices, put_write(d) PROVE TypeOK'
  <2>1. [version |-> proc[d].ver, master |-> proc[d].master] \in SecretRecord
    BY <1>18, <1>0 DEF put_write, InHand, HoldsMaster, SecretRecord, At, Process
  <2>3. StoreOK'
    BY <1>18, <1>0, <2>1, VaultAssumption
    DEF put_write, StoreOK, InHand, HoldsMaster, Master, At
  <2> QED BY <1>18, <1>i, <2>3, GotoOK DEF put_write
<1>19. ASSUME NEW d \in Devices, NEW n \in Names, get_secret(d, n) PROVE TypeOK'
  <2> DEFINE r == [Idle EXCEPT !.pc = "get_load", !.arg = n, !.master = sec[n].master]
  <2>1. r \in Process /\ InHand(r)
    BY <1>19, <1>0, VaultAssumption
    DEF get_secret, Idle, Process, Labels, Master, InHand, HoldsMaster, At, StoreOK,
        SecretRecord
  <2> HIDE DEF r
  <2>2. Goto(d, r)
    BY <1>19 DEF get_secret, r
  <2> QED BY <1>19, <1>s, <2>1, <2>2, GotoOK DEF get_secret
<1>20. ASSUME NEW d \in Devices, get_load(d) PROVE TypeOK'
  BY <1>20, <1>i, <1>s, GotoOK DEF get_load
<1>21. ASSUME NEW d \in Devices, NEW n \in Names, delete_secret(d, n) PROVE TypeOK'
  <2>3. StoreOK'
    BY <1>21, <1>0, VaultAssumption DEF delete_secret, StoreOK, Master
  <2> QED BY <1>21, <2>3, GotoOK DEF delete_secret
<1>22. ASSUME NEW d \in Devices, issue_grant(d) PROVE TypeOK'
  <2> DEFINE r == [Idle EXCEPT !.pc = "grant_put"]
  <2>1. r \in Process /\ InHand(r)
    BY <1>22, <1>0, VaultAssumption
    DEF issue_grant, Idle, Process, Labels, Master, InHand, HoldsMaster, At
  <2> HIDE DEF r
  <2>2. Goto(d, r)
    BY <1>22 DEF issue_grant, r
  <2> QED BY <1>22, <1>s, <2>1, <2>2, GotoOK DEF issue_grant
<1>23. ASSUME NEW d \in Devices, NEW g \in GrantIds, NEW app \in Apps,
              NEW reads \in SUBSET Names, NEW e \in {None, now + Ttl},
              grant_put(d, g, app, reads, e)
       PROVE  TypeOK'
  <2>1. [issuer |-> d, audience |-> app, reads |-> reads, expires |-> e] \in GrantToken
    BY <1>0, VaultAssumption DEF GrantToken, StoreOK
  <2>3. StoreOK'
    BY <1>23, <1>0, <2>1, VaultAssumption
    DEF grant_put, GrantPutWith, StoreOK, InHand, HoldsMaster, Master, At
  <2> QED BY <1>23, <1>i, <2>3, GotoOK DEF grant_put, GrantPutWith
<1>24. ASSUME NEW d \in Devices, NEW g \in GrantIds, revoke_grant(d, g) PROVE TypeOK'
  <2>3. StoreOK'
    BY <1>24, <1>0, VaultAssumption DEF revoke_grant, StoreOK, Master
  <2> QED BY <1>24, <2>3, GotoOK DEF revoke_grant
<1>25. ASSUME NEW d \in Devices, NEW g \in GrantIds, NEW app \in Apps, NEW n \in Names,
              verify_grant(d, g, app, n)
       PROVE  TypeOK'
  <2> DEFINE r == [Idle EXCEPT !.pc = "verify_live", !.arg = g, !.was = live[g]]
  <2>1. r \in Process /\ InHand(r)
    BY <1>25, <1>0, VaultAssumption
    DEF verify_grant, Idle, Process, Labels, Master, InHand, HoldsMaster, At, StoreOK
  <2> HIDE DEF r
  <2>2. Goto(d, r)
    BY <1>25 DEF verify_grant, r
  <2> QED BY <1>25, <1>s, <2>1, <2>2, GotoOK DEF verify_grant
<1>26. ASSUME NEW d \in Devices, verify_live(d) PROVE TypeOK'
  BY <1>26, <1>i, <1>s, GotoOK DEF verify_live
<1>27. ASSUME NEW d \in Devices, crash(d) PROVE TypeOK'
  BY <1>27, <1>i, <1>s, GotoOK DEF crash
<1>28. ASSUME NEW keep \in BOOLEAN, wipe(keep) PROVE TypeOK'
  <2>3. StoreOK'
    BY <1>28, <1>0, VaultAssumption DEF wipe, StoreOK, Master
  <2> QED BY <1>28, <2>3, GotoOK DEF wipe
<1>29. ASSUME tick \/ UNCHANGED vars PROVE TypeOK'
  <2>1. StoreOK' /\ UNCHANGED proc
    BY <1>29, <1>0 DEF tick, vars, store, StoreOK
  <2> QED BY <2>1, GotoOK
<1>30. ASSUME NEW d \in Devices, times_out(d) PROVE TypeOK'
  <2>1. PICK w \in Awaited(d) : late' = late \cup {w}
    BY <1>30 DEF times_out
  <2>2. StoreOK'
    BY <1>30, <1>0, <2>1, AwaitedOK DEF times_out, StoreOK, store
  <2> QED BY <1>30, <1>i, <2>2, GotoOK DEF times_out
<1>31. ASSUME NEW w \in late, late_arrives(w) PROVE TypeOK'
  <2>1. w \in LateWrite
    BY <1>0 DEF StoreOK
  <2>2. StoreOK'
    BY <1>31, <1>0, <2>1 DEF late_arrives, LateWrite, StoreOK, Master
  <2> QED BY <1>31, <2>2, GotoOK DEF late_arrives
<1> QED
  BY <1>1, <1>2, <1>3, <1>4, <1>5, <1>6, <1>7, <1>8, <1>9, <1>10, <1>11, <1>12,
     <1>13, <1>14, <1>15, <1>16, <1>17, <1>18, <1>19, <1>20, <1>21, <1>22, <1>23, <1>24,
     <1>25, <1>26, <1>27, <1>28, <1>29, <1>30, <1>31
  DEF Next, Establish, Pairing, Enrolling, Secrets, Granting

(* The type invariant, for every instance: nothing is ever wrapped or sealed
   without a master in hand, and a device is enrolled only with one. *)
THEOREM VaultTypeOK == Spec => []TypeOK
<1>1. Init => TypeOK
  BY IdleOK DEF Init, TypeOK, Master, InHand
<1>2. TypeOK /\ [Next]_vars => TypeOK'
  BY TypeInductive
<1> QED BY <1>1, <1>2, PTL DEF Spec
-----------------------------------------------------------------------------
(* A verification that has passed its first read is about a grant that was
   handed out, and grant ids are not drawn twice, also not when the put that
   was to store the grant is still on its way. *)
VerifiesIssued ==
    \A d \in Devices : At(d, "verify_live") =>
        proc[d].arg \in GrantIds /\ gtoken[proc[d].arg] # None
LateUnissued == \A w \in late : w.rec = "g" => gtoken[w.key] = None
GrantInv == TypeOK /\ VerifiesIssued /\ LateUnissued /\ AllowedAtOneInstant

(* What all steps but issuing and verifying have in common: no grant appears,
   none changes, and no verification begins. *)
GrantsAside ==
    /\ gtoken' = gtoken /\ late' = late
    /\ \A g \in GrantIds : live'[g] => live[g]
    /\ \A d \in Devices : proc'[d].pc = "verify_live" => proc'[d] = proc[d]

(* A device that goes anywhere but into a verification begins none. *)
LEMMA NoneBegins ==
    ASSUME TypeOK, gtoken' = gtoken, live' = live, late' = late,
           UNCHANGED proc \/ \E d \in Devices : \E r : r.pc # "verify_live" /\ Goto(d, r)
    PROVE  GrantsAside
  BY DEF TypeOK, GrantsAside, Goto

LEMMA OtherSteps ==
    ASSUME TypeOK, [Next]_vars
    PROVE  \/ GrantsAside
           \/ \E d \in Devices, g \in GrantIds, app \in Apps :
                \/ \E reads, e : grant_put(d, g, app, reads, e)
                \/ \E n \in Names : verify_grant(d, g, app, n)
           \/ \E d \in Devices : times_out(d)
           \/ \E w \in late : late_arrives(w)
<1>0. \A d \in Devices : proc[d] \in Process
  BY DEF TypeOK
<1>i. Idle.pc # "verify_live"
  BY DEF Idle
<1>1. ASSUME NEW d \in Devices, Establish(d) PROVE GrantsAside
  <2>1. CASE init(d)
    BY <2>1, <1>0, <1>i, NoneBegins DEF init, Finish, Idle, Process, store
  <2>2. CASE recover(d)
    BY <2>2, <1>0, <1>i, NoneBegins DEF recover, Finish, Idle, Process, store
  <2>3. CASE recover_enroll(d)
    BY <2>3, <1>0, <1>i, NoneBegins DEF recover_enroll, Finish, Idle, Process, store
  <2>4. CASE recover_meta(d)
    BY <2>4, <1>0, <1>i, NoneBegins DEF recover_meta, Finish, Idle, Process, store
  <2> QED BY <1>1, <2>1, <2>2, <2>3, <2>4 DEF Establish
<1>2. ASSUME NEW d \in Devices, Pairing(d) PROVE GrantsAside
  <2>1. CASE \E c \in Codes : request_pairing(d, c)
    BY <2>1, <1>0, <1>i, NoneBegins DEF request_pairing, Finish, Idle, Process, store
  <2>2. CASE \E c \in Codes : approve_pairing(d, c)
    BY <2>2, <1>0, <1>i, NoneBegins DEF approve_pairing, Finish, Idle, Process, store
  <2>3. CASE approve_load(d)
    BY <2>3, <1>0, <1>i, NoneBegins DEF approve_load, Finish, Idle, Process, store
  <2>4. CASE approve_enroll(d)
    BY <2>4, <1>0, <1>i, NoneBegins DEF approve_enroll, Finish, Idle, Process, store
  <2>5. CASE approve_del(d)
    BY <2>5, <1>0, <1>i, NoneBegins DEF approve_del, Finish, Idle, Process, store
  <2> QED BY <1>2, <2>1, <2>2, <2>3, <2>4, <2>5 DEF Pairing
<1>3. ASSUME NEW d \in Devices, Enrolling(d) PROVE GrantsAside
  <2>1. CASE \E t \in Tokens : issue_enrol_token(d, t)
    BY <2>1, <1>0, <1>i, NoneBegins DEF issue_enrol_token, Finish, Idle, Process, store
  <2>2. CASE token_put(d)
    BY <2>2, <1>0, <1>i, NoneBegins DEF token_put, Finish, Idle, Process, store
  <2>3. CASE \E t \in Tokens : redeem_enrol_token(d, t)
    BY <2>3, <1>0, <1>i, NoneBegins DEF redeem_enrol_token, Finish, Idle, Process, store
  <2>4. CASE redeem_enroll(d)
    BY <2>4, <1>0, <1>i, NoneBegins DEF redeem_enroll, Finish, Idle, Process, store
  <2>5. CASE redeem_burn(d)
    BY <2>5, <1>0, <1>i, NoneBegins DEF redeem_burn, Finish, Idle, Process, store
  <2> QED BY <1>3, <2>1, <2>2, <2>3, <2>4, <2>5 DEF Enrolling
<1>4. ASSUME NEW d \in Devices, Secrets(d) PROVE GrantsAside
  <2>1. CASE \E n \in Names : store_secret(d, n)
    BY <2>1, <1>0, <1>i, NoneBegins DEF store_secret, Finish, Idle, Process, store
  <2>2. CASE put_prev(d)
    BY <2>2, <1>0, <1>i, NoneBegins DEF put_prev, Finish, Idle, Process, store
  <2>3. CASE put_write(d)
    BY <2>3, <1>0, <1>i, NoneBegins DEF put_write, Finish, Idle, Process, store
  <2>4. CASE \E n \in Names : get_secret(d, n)
    BY <2>4, <1>0, <1>i, NoneBegins DEF get_secret, Finish, Idle, Process, store
  <2>5. CASE get_load(d)
    BY <2>5, <1>0, <1>i, NoneBegins DEF get_load, Finish, Idle, Process, store
  <2>6. CASE \E n \in Names : delete_secret(d, n)
    BY <2>6, <1>0, <1>i, NoneBegins DEF delete_secret, Finish, Idle, Process, store
  <2> QED BY <1>4, <2>1, <2>2, <2>3, <2>4, <2>5, <2>6 DEF Secrets
<1>5. ASSUME NEW d \in Devices, issue_grant(d) \/ verify_live(d) \/ crash(d)
      PROVE  GrantsAside
  BY <1>5, <1>0, NoneBegins DEF issue_grant, verify_live, crash, Finish, Idle, store
<1>6. ASSUME NEW d \in Devices, NEW g \in GrantIds, revoke_grant(d, g) PROVE GrantsAside
  BY <1>6 DEF revoke_grant, GrantsAside, TypeOK
<1>7. ASSUME NEW d \in Devices, NEW x \in Devices, revoke_device(d, x) PROVE GrantsAside
  BY <1>7, NoneBegins DEF revoke_device
<1>8. ASSUME (\E keep \in BOOLEAN : wipe(keep)) \/ tick \/ UNCHANGED vars PROVE GrantsAside
  BY <1>8 DEF wipe, tick, vars, store, GrantsAside, TypeOK
<1> QED BY <1>1, <1>2, <1>3, <1>4, <1>5, <1>6, <1>7, <1>8 DEF Next, Granting

(* An application is let in only on a grant that was unrevoked at the moment
   its issuer was found enrolled, for every instance. *)
THEOREM VerificationAtomic == Spec => []AllowedAtOneInstant
<1>1. Init => GrantInv
  <2>1. Init => TypeOK
    BY IdleOK DEF Init, TypeOK, Master
  <2> QED BY <2>1 DEF Init, GrantInv, VerifiesIssued, LateUnissued, AllowedAtOneInstant, At, Idle
<1>2. GrantInv /\ [Next]_vars => GrantInv'
  <2> SUFFICES ASSUME GrantInv, [Next]_vars PROVE GrantInv'
    OBVIOUS
  <2> USE DEF GrantInv, VerifiesIssued, AllowedAtOneInstant, At
  <2>0. TypeOK'
    BY TypeInductive
  <2>1. CASE GrantsAside
    BY <2>0, <2>1 DEF GrantsAside, LateUnissued
  <2>2. ASSUME NEW d \in Devices, NEW g \in GrantIds, NEW app \in Apps, NEW reads, NEW e,
               grant_put(d, g, app, reads, e)
        PROVE  GrantInv'
    <3>1. gtoken[g] = None /\ proc' = [proc EXCEPT ![d] = Idle]
      BY <2>2 DEF grant_put, GrantPutWith, Fresh, Finish, Goto
    <3>2. \A x \in GrantIds : x # g => gtoken'[x] = gtoken[x] /\ live'[x] = live[x]
      BY <2>2 DEF grant_put, GrantPutWith, TypeOK
    <3>3. \A x \in Devices :
            proc'[x].pc = "verify_live" => proc'[x] = proc[x] /\ proc[x].arg # g
      BY <3>1 DEF TypeOK, Idle
    <3>4. LateUnissued'
      <4>1. late' = late /\ \A w \in late : w.rec = "g" => w.key # g
        BY <2>2 DEF grant_put, GrantPutWith, Fresh
      <4>2. \A w \in LateWrite : w.rec = "g" => w.key \in GrantIds
        BY DEF LateWrite
      <4>3. \A w \in late : w \in LateWrite
        BY DEF TypeOK
      <4>4. \A w \in late : w.rec = "g" => gtoken[w.key] = None /\ gtoken'[w.key] = gtoken[w.key]
        BY <3>2, <4>1, <4>2, <4>3 DEF LateUnissued
      <4> QED BY <4>1, <4>4 DEF LateUnissued
    <3> QED BY <2>0, <3>2, <3>3, <3>4
  <2>3. ASSUME NEW d \in Devices, NEW g \in GrantIds, NEW app \in Apps, NEW n \in Names,
               verify_grant(d, g, app, n)
        PROVE  GrantInv'
    <3>1. /\ proc' = [proc EXCEPT ![d] =
                       [Idle EXCEPT !.pc = "verify_live", !.arg = g, !.was = live[g]]]
          /\ gtoken[g] # None /\ UNCHANGED <<gtoken, live, late>>
      BY <2>3 DEF verify_grant, Goto, store
    <3>2. proc'[d].arg = g /\ proc'[d].was = live[g]
      BY <3>1 DEF TypeOK, Idle
    <3>3. \A x \in Devices : x # d => proc'[x] = proc[x]
      BY <3>1 DEF TypeOK
    <3>4. LateUnissued'
      BY <3>1 DEF LateUnissued
    <3> QED BY <2>0, <3>1, <3>2, <3>3, <3>4
  <2>4. ASSUME NEW d \in Devices, times_out(d) PROVE GrantInv'
    <3>1. PICK w \in Awaited(d) : late' = late \cup {w}
      BY <2>4 DEF times_out
    <3>2. w.rec = "g" => gtoken[w.key] = None
      BY <3>1 DEF Awaited, Fresh
    <3>3. UNCHANGED <<gtoken, live>> /\ proc' = [proc EXCEPT ![d] = Idle]
      BY <2>4 DEF times_out, Finish, Goto, store
    <3>4. \A x \in Devices : proc'[x].pc = "verify_live" => proc'[x] = proc[x]
      BY <3>3 DEF TypeOK, Idle
    <3> QED BY <2>0, <3>1, <3>2, <3>3, <3>4 DEF LateUnissued
  <2>5. ASSUME NEW w \in late, late_arrives(w) PROVE GrantInv'
    <3>1. UNCHANGED <<gtoken, proc>> /\ late' = late \ {w}
      BY <2>5 DEF late_arrives
    <3>2. \A g \in GrantIds : gtoken[g] # None => live'[g] = live[g]
      BY <2>5 DEF late_arrives, LateUnissued, TypeOK
    <3> QED BY <2>0, <3>1, <3>2 DEF LateUnissued
  <2> QED BY <2>1, <2>2, <2>3, <2>4, <2>5, OtherSteps
<1> QED BY <1>1, <1>2, PTL DEF Spec, GrantInv
-----------------------------------------------------------------------------
(* One owner.  Its master is the only one in the store and in any operation
   under way; each place a master is copied from is one it was copied to. *)
StoreOne(o) ==
    /\ \A d \in Devices : dev[d] # None => dev[d] = o
    /\ \A t \in Tokens : enrol[t] # None => enrol[t].master = o
    /\ \A n \in Names : sec[n] # None => sec[n].master = o
LateOne(o) ==
    \A w \in late :
        /\ w.rec = "d" => w.val = o
        /\ w.rec = "enrol" /\ w.val # None => w.val.master = o
        /\ w.rec = "s" => w.val.master = o
OneMaster(o) ==
    /\ TypeOK /\ StoreOne(o) /\ LateOne(o)
    /\ \A d \in Devices : proc[d].pc \in HoldsMaster => proc[d].master = o

(* The devices' part of OneMaster, from the point a device goes to. *)
LEMMA OneGoto ==
    ASSUME NEW o, OneMaster(o), TypeOK', StoreOne(o)',
           late' \subseteq late \/ LateOne(o)',
           UNCHANGED proc \/ \E d \in Devices : \E r :
               (r.pc \in HoldsMaster => r.master = o) /\ Goto(d, r)
    PROVE  OneMaster(o)'
<1>1. \A d \in Devices : proc'[d].pc \in HoldsMaster => proc'[d].master = o
  BY DEF OneMaster, TypeOK, Goto
<1>2. LateOne(o)'
  BY DEF OneMaster, LateOne
<1> QED BY <1>1, <1>2 DEF OneMaster

(* What a device writes late holds the master the device had in hand. *)
LEMMA AwaitedOne ==
    ASSUME NEW o, OneMaster(o), NEW d \in Devices, NEW w \in Awaited(d)
    PROVE  /\ w.rec = "d" => w.val = o
           /\ w.rec = "enrol" /\ w.val # None => w.val.master = o
           /\ w.rec = "s" => w.val.master = o
<1> DEFINE p == proc[d]
<1>0. p.pc \in HoldsMaster => p.master = o
  BY DEF OneMaster
<1>1. CASE p.pc \in {"recover_enroll", "redeem_enroll", "approve_enroll"}
  BY <1>0, <1>1 DEF Awaited, At, HoldsMaster
<1>2. CASE p.pc = "recover_meta"
  BY <1>2 DEF Awaited, At
<1>3. CASE p.pc = "approve_del"
  BY <1>3 DEF Awaited, At
<1>4. CASE p.pc = "redeem_burn"
  BY <1>4 DEF Awaited, At
<1>5. CASE p.pc = "token_put"
  BY <1>0, <1>5 DEF Awaited, At, HoldsMaster
<1>6. CASE p.pc = "put_write"
  BY <1>0, <1>6 DEF Awaited, At, HoldsMaster
<1>7. CASE p.pc = "grant_put"
  <2>1. w.rec = "g"
    BY <1>7 DEF Awaited, At
  <2> QED BY <2>1
<1> QED BY <1>1, <1>2, <1>3, <1>4, <1>5, <1>6, <1>7 DEF Awaited, At

(* Every step copies the one master or none. *)
LEMMA OneMasterInductive ==
    ASSUME NEW o, Owners \subseteq {o}, OneMaster(o), [Next]_vars
    PROVE  OneMaster(o)'
<1>t. TypeOK'
  BY TypeInductive DEF OneMaster
<1>0. /\ TypeOK /\ StoreOne(o)
      /\ \A d \in Devices : /\ proc[d] \in Process
                            /\ proc[d].pc \in HoldsMaster => proc[d].master = o
  BY DEF OneMaster, TypeOK
<1>i. Idle.pc \notin HoldsMaster
  BY DEF Idle, HoldsMaster
<1>s. UNCHANGED store => StoreOne(o)'
  BY <1>0 DEF StoreOne, store
<1>1. ASSUME NEW d \in Devices, Establish(d) PROVE OneMaster(o)'
  <2>1. CASE init(d)
    BY <2>1, <1>0, <1>i, <1>s, <1>t, OneGoto
    DEF init, Finish, Idle, Process, HoldsMaster, StoreOne
  <2>2. CASE recover(d)
    BY <2>2, <1>0, <1>i, <1>s, <1>t, OneGoto
    DEF recover, Finish, Idle, Process, HoldsMaster, StoreOne
  <2>3. CASE recover_enroll(d)
    <3>1. StoreOne(o)'
      BY <2>3, <1>0 DEF recover_enroll, StoreOne, TypeOK, HoldsMaster, At
    <3> QED BY <2>3, <3>1, <1>0, <1>i, <1>t, OneGoto
        DEF recover_enroll, Finish, Idle, Process, HoldsMaster, StoreOne
  <2>4. CASE recover_meta(d)
    <3>1. StoreOne(o)'
      BY <2>4, <1>0 DEF recover_meta, StoreOne, TypeOK, HoldsMaster, At
    <3> QED BY <2>4, <3>1, <1>0, <1>i, <1>t, OneGoto
        DEF recover_meta, Finish, Idle, Process, HoldsMaster, StoreOne
  <2> QED BY <1>1, <2>1, <2>2, <2>3, <2>4 DEF Establish
<1>2. ASSUME NEW d \in Devices, Pairing(d) PROVE OneMaster(o)'
  <2>1. CASE \E c \in Codes : request_pairing(d, c)
    <3>1. StoreOne(o)'
      BY <2>1, <1>0 DEF request_pairing, StoreOne, TypeOK, HoldsMaster, At
    <3> QED BY <2>1, <3>1, <1>0, <1>i, <1>t, OneGoto
        DEF request_pairing, Finish, Idle, Process, HoldsMaster, StoreOne
  <2>2. CASE \E c \in Codes : approve_pairing(d, c)
    BY <2>2, <1>0, <1>i, <1>s, <1>t, OneGoto
    DEF approve_pairing, Finish, Idle, Process, HoldsMaster, StoreOne
  <2>3. CASE approve_load(d)
    BY <2>3, <1>0, <1>i, <1>s, <1>t, OneGoto
    DEF approve_load, Finish, Idle, Process, HoldsMaster, StoreOne
  <2>4. CASE approve_enroll(d)
    <3>1. StoreOne(o)'
      BY <2>4, <1>0 DEF approve_enroll, StoreOne, TypeOK, HoldsMaster, At
    <3> QED BY <2>4, <3>1, <1>0, <1>i, <1>t, OneGoto
        DEF approve_enroll, Finish, Idle, Process, HoldsMaster, StoreOne
  <2>5. CASE approve_del(d)
    <3>1. StoreOne(o)'
      BY <2>5, <1>0 DEF approve_del, StoreOne, TypeOK, HoldsMaster, At
    <3> QED BY <2>5, <3>1, <1>0, <1>i, <1>t, OneGoto
        DEF approve_del, Finish, Idle, Process, HoldsMaster, StoreOne
  <2> QED BY <1>2, <2>1, <2>2, <2>3, <2>4, <2>5 DEF Pairing
<1>3. ASSUME NEW d \in Devices, Enrolling(d) PROVE OneMaster(o)'
  <2>1. CASE \E t \in Tokens : issue_enrol_token(d, t)
    <3>1. StoreOne(o)'
      BY <2>1, <1>0 DEF issue_enrol_token, StoreOne, TypeOK, HoldsMaster, At, store
    <3> QED BY <2>1, <3>1, <1>0, <1>i, <1>t, OneGoto
        DEF issue_enrol_token, Finish, Idle, Process, HoldsMaster, StoreOne
  <2>2. CASE token_put(d)
    <3>1. StoreOne(o)'
      BY <2>2, <1>0 DEF token_put, StoreOne, TypeOK, HoldsMaster, At
    <3> QED BY <2>2, <3>1, <1>0, <1>i, <1>t, OneGoto
        DEF token_put, Finish, Idle, Process, HoldsMaster, StoreOne
  <2>3. CASE \E t \in Tokens : redeem_enrol_token(d, t)
    BY <2>3, <1>0, <1>i, <1>s, <1>t, OneGoto
    DEF redeem_enrol_token, Finish, Idle, Process, HoldsMaster, StoreOne
  <2>4. CASE redeem_enroll(d)
    <3>1. StoreOne(o)'
      BY <2>4, <1>0 DEF redeem_enroll, StoreOne, TypeOK, HoldsMaster, At
    <3> QED BY <2>4, <3>1, <1>0, <1>i, <1>t, OneGoto
        DEF redeem_enroll, Finish, Idle, Process, HoldsMaster, StoreOne
  <2>5. CASE redeem_burn(d)
    <3>1. StoreOne(o)'
      BY <2>5, <1>0 DEF redeem_burn, StoreOne, TypeOK, HoldsMaster, At
    <3> QED BY <2>5, <3>1, <1>0, <1>i, <1>t, OneGoto
        DEF redeem_burn, Finish, Idle, Process, HoldsMaster, StoreOne
  <2> QED BY <1>3, <2>1, <2>2, <2>3, <2>4, <2>5 DEF Enrolling
<1>4. ASSUME NEW d \in Devices, Secrets(d) PROVE OneMaster(o)'
  <2>1. CASE \E n \in Names : store_secret(d, n)
    BY <2>1, <1>0, <1>i, <1>s, <1>t, OneGoto
    DEF store_secret, Finish, Idle, Process, HoldsMaster, StoreOne
  <2>2. CASE put_prev(d)
    <3>1. PICK v : Goto(d, [proc[d] EXCEPT !.pc = "put_write", !.ver = v])
      BY <2>2 DEF put_prev
    <3> DEFINE r == [proc[d] EXCEPT !.pc = "put_write", !.ver = v]
    <3>2. r.master = o
      BY <2>2, <1>0 DEF put_prev, At, HoldsMaster, Process
    <3> HIDE DEF r
    <3>3. Goto(d, r)
      BY <3>1 DEF r
    <3>4. StoreOne(o)'
      BY <2>2, <1>s DEF put_prev
    <3>5. late' = late
      BY <2>2 DEF put_prev
    <3> QED BY <3>2, <3>3, <3>4, <3>5, <1>t, OneGoto
  <2>3. CASE put_write(d)
    <3>1. StoreOne(o)'
      BY <2>3, <1>0 DEF put_write, StoreOne, TypeOK, HoldsMaster, At
    <3> QED BY <2>3, <3>1, <1>0, <1>i, <1>t, OneGoto
        DEF put_write, Finish, Idle, Process, HoldsMaster, StoreOne
  <2>4. CASE \E n \in Names : get_secret(d, n)
    BY <2>4, <1>0, <1>i, <1>s, <1>t, OneGoto
    DEF get_secret, Finish, Idle, Process, HoldsMaster, StoreOne
  <2>5. CASE get_load(d)
    BY <2>5, <1>0, <1>i, <1>s, <1>t, OneGoto
    DEF get_load, Finish, Idle, Process, HoldsMaster, StoreOne
  <2>6. CASE \E n \in Names : delete_secret(d, n)
    <3>1. StoreOne(o)'
      BY <2>6, <1>0 DEF delete_secret, StoreOne, TypeOK, HoldsMaster, At
    <3> QED BY <2>6, <3>1, <1>0, <1>i, <1>t, OneGoto
        DEF delete_secret, Finish, Idle, Process, HoldsMaster, StoreOne
  <2> QED BY <1>4, <2>1, <2>2, <2>3, <2>4, <2>5, <2>6 DEF Secrets
<1>5. ASSUME NEW d \in Devices, Granting(d) PROVE OneMaster(o)'
  <2>1. CASE issue_grant(d)
    BY <2>1, <1>0, <1>i, <1>s, <1>t, OneGoto
    DEF issue_grant, Finish, Idle, Process, HoldsMaster, StoreOne
  <2>2. CASE verify_live(d)
    BY <2>2, <1>0, <1>i, <1>s, <1>t, OneGoto
    DEF verify_live, Finish, Idle, Process, HoldsMaster, StoreOne
  <2>3. CASE \E g \in GrantIds, app \in Apps, reads \in SUBSET Names, e \in {None, now + Ttl} :
            grant_put(d, g, app, reads, e)
    <3>1. StoreOne(o)'
      BY <2>3, <1>0 DEF grant_put, GrantPutWith, StoreOne, TypeOK, HoldsMaster, At
    <3> QED BY <2>3, <3>1, <1>0, <1>i, <1>t, OneGoto
        DEF grant_put, GrantPutWith, Finish, Idle, Process, HoldsMaster, StoreOne
  <2>4. CASE \E g \in GrantIds, app \in Apps, n \in Names : verify_grant(d, g, app, n)
    BY <2>4, <1>0, <1>i, <1>s, <1>t, OneGoto
    DEF verify_grant, Finish, Idle, Process, HoldsMaster, StoreOne
  <2>5. CASE \E g \in GrantIds : revoke_grant(d, g)
    <3>1. StoreOne(o)'
      BY <2>5, <1>0 DEF revoke_grant, StoreOne, TypeOK, HoldsMaster, At
    <3> QED BY <2>5, <3>1, <1>0, <1>i, <1>t, OneGoto
        DEF revoke_grant, Finish, Idle, Process, HoldsMaster, StoreOne
  <2> QED BY <1>5, <2>1, <2>2, <2>3, <2>4, <2>5 DEF Granting
<1>6. ASSUME NEW d \in Devices, crash(d) PROVE OneMaster(o)'
  BY <1>6, <1>0, <1>i, <1>s, <1>t, OneGoto DEF crash, Finish
<1>7. ASSUME NEW d \in Devices, NEW x \in Devices, revoke_device(d, x) PROVE OneMaster(o)'
  <2>1. StoreOne(o)'
    BY <1>7, <1>0 DEF revoke_device, StoreOne, TypeOK
  <2> QED BY <1>7, <2>1, <1>t, OneGoto DEF revoke_device
<1>8. ASSUME NEW keep \in BOOLEAN, wipe(keep) PROVE OneMaster(o)'
  <2>1. StoreOne(o)'
    BY <1>8, <1>0 DEF wipe, StoreOne
  <2> QED BY <1>8, <2>1, <1>t, OneGoto DEF wipe
<1>9. ASSUME tick \/ UNCHANGED vars PROVE OneMaster(o)'
  BY <1>9, <1>s, <1>t, OneGoto DEF tick, vars, store
<1>10. ASSUME NEW d \in Devices, times_out(d) PROVE OneMaster(o)'
  <2>1. LateOne(o)'
    BY <1>10, AwaitedOne DEF times_out, OneMaster, LateOne
  <2> QED BY <1>10, <2>1, <1>i, <1>s, <1>t, OneGoto DEF times_out, Finish
<1>11. ASSUME NEW w \in late, late_arrives(w) PROVE OneMaster(o)'
  <2>1. StoreOne(o)'
    BY <1>11, <1>0 DEF late_arrives, StoreOne, OneMaster, LateOne, TypeOK
  <2> QED BY <1>11, <2>1, <1>t, OneGoto DEF late_arrives
<1> QED BY <1>1, <1>2, <1>3, <1>4, <1>5, <1>6, <1>7, <1>8, <1>9, <1>10, <1>11 DEF Next

(* When `init` and `recover` are only ever run on one device, every enrolled
   device opens every secret, through any pairing, token, revocation, wipe,
   recovery and crash: the assumption "One vault master key" rests on. *)
THEOREM SingleOwnerOneMaster ==
    ASSUME NEW o, Owners \subseteq {o}
    PROVE  Spec => []EnrolledOpensEverything
<1>1. Init => OneMaster(o)
  <2>1. Init => TypeOK
    BY IdleOK DEF Init, TypeOK, Master
  <2> QED BY <2>1 DEF Init, OneMaster, StoreOne, LateOne, HoldsMaster, Idle
<1>2. OneMaster(o) /\ [Next]_vars => OneMaster(o)'
  BY OneMasterInductive
<1>3. OneMaster(o) => EnrolledOpensEverything
  BY DEF OneMaster, StoreOne, EnrolledOpensEverything, HoldsMaster, At
<1> QED BY <1>1, <1>2, <1>3, PTL DEF Spec
=============================================================================
