--------------------------- MODULE ServicesProofs ---------------------------
(* Proofs about the two services that sign capabilities for logins.          *)
(*                                                                           *)
(* The node auth responder: what it answers is what the request it answers   *)
(* is vouched for (VouchInv), so an identity binding in a capability comes   *)
(* from the requester unless the allow-list lets requests name one.          *)
(* Its nonces are fresh as long as no start finds the clock behind them.     *)
(*                                                                           *)
(* The capability bridge: a bridge that is the only one to sign under its    *)
(* root never repeats a nonce, through any number of restarts.               *)
EXTENDS NodeAuth, CapBridge, SequenceTheorems, TLAPS

-----------------------------------------------------------------------------
(* The node auth responder *)

(* What is being answered is exactly what the request is vouched for. *)
VouchInv == TypeOK /\ (pc = "answering" => cur.abilities = vouch_abilities(cur.req))

(* It holds at first. *)
LEMMA VouchInit == Init => VouchInv
<1> SUFFICES ASSUME Init PROVE VouchInv
  OBVIOUS
<1>1. <<>> \in Seq(Requests) /\ 1 \in 1..MaxBackoff /\ 0 \in 0..MaxFaults /\ 0 \in 0..MaxTime
  BY NodeAuthAssumption, EmptySeq
<1>2. pc = "off" /\ cur = NoRequest
  BY DEF Init
<1>3. inbox \in Seq(Requests) /\ backoff \in 1..MaxBackoff /\ backoff = 1
  BY <1>1 DEF Init
<1>4. /\ config \in Configs /\ shutdown \in BOOLEAN /\ nonce \in Nat /\ used \subseteq Nat
      /\ up \in BOOLEAN /\ open \in BOOLEAN /\ subscribed \in BOOLEAN
      /\ seen \in BOOLEAN /\ answered \subseteq Requests
      /\ faults \in 0..MaxFaults /\ clock \in 0..MaxTime
  BY <1>1 DEF Init
<1> QED BY <1>2, <1>3, <1>4 DEF VouchInv, TypeOK

(* The steps of the service: it keeps the wait within the cap, and the
   capability with the request it was signed for. *)
LEMMA ServiceStep ==
    ASSUME VouchInv,
           start \/ run_subscribe \/ connect \/ sleep \/ stop \/ announce_tick
             \/ receive \/ answer \/ stream_ends
    PROVE  VouchInv'
<1> USE DEF VouchInv, TypeOK, node, browser, service
<1>1. <<>> \in Seq(Requests) /\ 1 \in 1..MaxBackoff /\ MaxBackoff \in Nat
      /\ \A n \in 0..MaxTime : n \in Nat
  BY NodeAuthAssumption, EmptySeq
<1>2. CASE start
  BY <1>1, <1>2 DEF start
<1>3. CASE run_subscribe
  BY <1>3 DEF run_subscribe
<1>4. CASE connect
  BY <1>1, <1>4 DEF connect
<1>5. CASE sleep
  <2>1. backoff' \in 1..MaxBackoff
    BY <1>1, <1>5 DEF sleep
  <2> QED BY <1>5, <2>1 DEF sleep
<1>6. CASE stop
  BY <1>1, <1>6 DEF stop
<1>7. CASE announce_tick
  BY <1>7 DEF announce_tick, vouch_abilities, grantable
<1>8. CASE receive
  <2>1. PICK r \in Requests : r = Head(inbox) /\ Tail(inbox) \in Seq(Requests)
    BY <1>8, HeadTailProperties DEF receive
  <2>2. /\ inbox' \in Seq(Requests) /\ nonce' \in {nonce, nonce + 1} /\ pc = "serving"
        /\ UNCHANGED <<config, backoff, shutdown, up, open, subscribed, seen, answered, faults, clock>>
    BY <1>8, <2>1 DEF receive
  <2>3. \/ UNCHANGED <<pc, used, cur>>
        \/ /\ used' = used \cup {nonce} /\ pc' = "answering"
           /\ cur' = [req |-> r, abilities |-> vouch_abilities(r)]
    BY <1>8, <2>1 DEF receive
  <2>4. /\ nonce' \in Nat /\ used' \subseteq Nat /\ backoff' = 1
        /\ pc' \in {"serving", "answering"}
    BY <2>2, <2>3
  <2>5. pc' = "answering" =>
            /\ cur' # NoRequest /\ cur'.req \in Requests
            /\ cur'.abilities = vouch_abilities(cur'.req)
    <3>1. [req |-> r, abilities |-> vouch_abilities(r)] # NoRequest
      BY DEF NoRequest, vouch_abilities
    <3> QED BY <2>2, <2>3, <3>1
  <2>6. pc' # "answering" => cur' = NoRequest
    BY <2>2, <2>3
  <2>7. \A q : vouch_abilities(q)' = vouch_abilities(q)
    BY <2>2 DEF vouch_abilities, grantable
  <2>8. (pc = "answering" => cur.abilities = vouch_abilities(cur.req))'
    BY <2>5, <2>7
  <2>9. TypeOK'
    BY <1>1, <2>2, <2>4, <2>5, <2>6
  <2> QED BY <2>8, <2>9
<1>9. CASE answer
  BY <1>9 DEF answer
<1>10. CASE stream_ends
  BY <1>1, <1>10 DEF stream_ends
<1> QED BY <1>2, <1>3, <1>4, <1>5, <1>6, <1>7, <1>8, <1>9, <1>10

(* What the node, the browsers and the operator do keeps it. *)
LEMMA EnvironmentStep ==
    ASSUME VouchInv,
           outage \/ restore \/ drop \/ reload \/ interrupt \/ crash \/ tick
             \/ \E r \in Requests : ask(r)
    PROVE  VouchInv'
<1> USE DEF VouchInv, TypeOK, node, browser, service, Fault
<1>1. /\ <<>> \in Seq(Requests)
      /\ \A n \in 0..MaxFaults : n < MaxFaults => n + 1 \in 0..MaxFaults
      /\ \A n \in 0..MaxTime : n < MaxTime => n + 1 \in 0..MaxTime
  BY NodeAuthAssumption, EmptySeq
<1>2. CASE outage
  BY <1>1, <1>2 DEF outage, vouch_abilities, grantable
<1>3. CASE restore
  BY <1>3 DEF restore, vouch_abilities, grantable
<1>4. CASE drop
  BY <1>1, <1>4 DEF drop, vouch_abilities, grantable
<1>5. CASE reload
  BY <1>1, <1>5 DEF reload, vouch_abilities, grantable
<1>6. CASE interrupt
  BY <1>1, <1>6 DEF interrupt, vouch_abilities, grantable
<1>7. CASE crash
  BY <1>1, <1>7 DEF crash
<1>8. CASE tick
  BY <1>1, <1>8 DEF tick, vouch_abilities, grantable
<1>9. ASSUME NEW r \in Requests, ask(r) PROVE VouchInv'
  <2>1. inbox' \in Seq(Requests)
    BY <1>9, AppendProperties DEF ask
  <2>2. faults' \in 0..MaxFaults
    BY <1>1, <1>9 DEF ask
  <2>3. UNCHANGED <<config, pc, backoff, shutdown, nonce, used, cur, node, browser, clock>>
    BY <1>9 DEF ask
  <2> QED BY <2>1, <2>2, <2>3 DEF vouch_abilities, grantable
<1> QED BY <1>2, <1>3, <1>4, <1>5, <1>6, <1>7, <1>8, <1>9

(* Through outages, broken streams, crashes and restarts. *)
THEOREM VouchInvariant == Spec => []VouchInv
<1>1. VouchInv /\ [Next]_vars => VouchInv'
  <2> SUFFICES ASSUME VouchInv, [Next]_vars PROVE VouchInv'
    OBVIOUS
  <2>1. CASE UNCHANGED vars
    BY <2>1 DEF VouchInv, TypeOK, vars, service, node, browser, vouch_abilities, grantable
  <2> QED BY <2>1, ServiceStep, EnvironmentStep DEF Next
<1> QED BY <1>1, VouchInit, PTL DEF Spec

(* run: the wait never exceeds its cap and starts over after a connection, and
   a capability is held exactly while it is being answered. *)
THEOREM NodeAuthTyped == Spec => []TypeOK
<1>1. VouchInv => TypeOK
  BY DEF VouchInv
<1> QED BY <1>1, VouchInvariant, PTL

(* vouch_token: for every allow-list that covers no identity ability, an app
   accepts a capability only for the peer and the name it was signed for,
   whatever was asked for. *)
THEOREM VouchesNameTheirRequester == Spec => []VouchNamesRequester
<1> DEFINE covered == UNION {StartsWith[p] : p \in config.allowed_prefixes}
<1>1. ASSUME VouchInv, config.allowed_prefixes # {},
             \A a \in covered : a.kind \in {"app", "wildcard"},
             NEW r \in Requests, pc = "answering", accepts(cur, r.peer, NameOf(r))
      PROVE  r.peer = cur.req.peer /\ NameOf(r) = NameOf(cur.req)
  <2> DEFINE q == cur.req
  <2>1. /\ Peer(r.peer) \in vouch_abilities(q)
        /\ Name(NameOf(r)) \in vouch_abilities(q)
    BY <1>1 DEF accepts, VouchInv
  <2>2. grantable(q.abilities) \subseteq covered
    BY <1>1 DEF grantable
  <2>3. Peer(r.peer) \notin grantable(q.abilities) /\ Name(NameOf(r)) \notin grantable(q.abilities)
    BY <1>1, <2>2 DEF Peer, Name
  <2>4. /\ Peer(r.peer) \in {Login, Peer(q.peer), Name(NameOf(q))}
        /\ Name(NameOf(r)) \in {Login, Peer(q.peer), Name(NameOf(q))}
    BY <2>1, <2>3 DEF vouch_abilities
  <2>5. Peer(r.peer) = Peer(q.peer) /\ Name(NameOf(r)) = Name(NameOf(q))
    BY <2>4 DEF Login, Peer, Name
  <2> QED BY <2>5 DEF Peer, Name
<1>2. VouchInv => VouchNamesRequester
  BY <1>1 DEF VouchNamesRequester
<1> QED BY <1>2, VouchInvariant, PTL

(* A start that reads the clock ahead of every nonce drawn before. *)
StartsAhead == start => \A n \in used : n < clock

(* The nonce of a running service is above every one drawn before. *)
NonceInv == pc # "off" => \A n \in used : n < nonce

(* Starting takes the clock, signing the next number; nothing else counts. *)
LEMMA NonceStep ==
    VouchInv /\ NonceInv /\ [Next]_vars /\ [StartsAhead]_vars => NonceInv'
<1> SUFFICES ASSUME VouchInv, NonceInv, [Next]_vars, [StartsAhead]_vars PROVE NonceInv'
  OBVIOUS
<1> USE DEF NonceInv
<1>1. nonce \in Nat /\ \A n \in used : n \in Nat
  BY DEF VouchInv, TypeOK
<1>2. CASE start
  <2>1. \A n \in used : n < clock
    <3>1. CASE StartsAhead
      BY <1>2, <3>1 DEF StartsAhead
    <3>2. CASE UNCHANGED vars
      BY <1>2, <3>2 DEF start, vars, service
    <3> QED BY <3>1, <3>2
  <2> QED BY <1>2, <2>1 DEF start
<1>3. CASE receive
  <2>1. \/ UNCHANGED used /\ nonce' \in {nonce, nonce + 1}
        \/ used' = used \cup {nonce} /\ nonce' = nonce + 1
    BY <1>3 DEF receive
  <2>2. pc # "off"
    BY <1>3 DEF receive
  <2> QED BY <1>1, <2>1, <2>2
<1>4. CASE run_subscribe \/ connect \/ sleep \/ stop \/ announce_tick \/ answer \/ stream_ends
  BY <1>4 DEF run_subscribe, connect, sleep, stop, announce_tick, answer, stream_ends, service
<1>5. CASE outage \/ restore \/ drop \/ reload \/ interrupt \/ crash \/ tick
             \/ \E r \in Requests : ask(r)
  BY <1>5 DEF outage, restore, drop, reload, interrupt, crash, tick, ask, service
<1>6. CASE UNCHANGED vars
  BY <1>6 DEF vars, service
<1> QED BY <1>2, <1>3, <1>4, <1>5, <1>6 DEF Next

(* with_allowed and vouch_token: nonces seeded with seconds are fresh as long as
   no start finds the clock behind a nonce drawn, that is as long as a service
   signs fewer capabilities than seconds pass before the next one starts. *)
THEOREM NoncesFreshWhenStartsAhead ==
    Spec /\ [][StartsAhead]_vars => []NoncesFresh
<1>1. Init => NonceInv
  BY DEF Init, NonceInv
<1>2. VouchInv /\ NonceInv => NoncesFresh
  BY DEF VouchInv, TypeOK, NonceInv, NoncesFresh
<1> QED BY <1>1, <1>2, NonceStep, VouchInvariant, PTL DEF Spec

-----------------------------------------------------------------------------
(* The capability bridge *)

BridgeTypeOK ==
    /\ micros \in Nat /\ running \subseteq Replicas /\ source \in [Replicas -> Nat]
    /\ granted \in Seq([nonce : Nat, audience : NodeIds, aud : Apps])

(* The counter of a running replica r has not overtaken the clock and is above
   every nonce drawn; the clock is above all of them, so that the seed of the
   next start is too. *)
Ahead(r) ==
    /\ \A i \in 1..Len(granted) : granted[i].nonce < micros
    /\ r \in running =>
        /\ source[r] <= micros
        /\ \A i \in 1..Len(granted) : granted[i].nonce < source[r]

SoleInv(r) == BridgeTypeOK /\ Ahead(r) /\ IndependentlyRevocable

LEMMA SoleInductive ==
    ASSUME NEW r, Replicas = {r}, SoleInv(r), [BridgeNext]_bridgeVars
    PROVE  SoleInv(r)'
<1>0. /\ \A i \in 1..Len(granted) : granted[i].nonce \in Nat
      /\ Len(granted) \in Nat /\ micros \in Nat /\ source[r] \in Nat
  <2>1. granted \in Seq([nonce : Nat, audience : NodeIds, aud : Apps])
    BY DEF SoleInv, BridgeTypeOK
  <2>2. \A i \in 1..Len(granted) : granted[i] \in [nonce : Nat, audience : NodeIds, aud : Apps]
    BY <2>1, ElementOfSeq
  <2>3. micros \in Nat /\ source[r] \in Nat
    BY DEF SoleInv, BridgeTypeOK
  <2>4. Len(granted) \in Nat
    BY <2>1, LenProperties
  <2> QED BY <2>2, <2>3, <2>4
<1> USE BridgeAssumption DEF SoleInv, BridgeTypeOK, Ahead, IndependentlyRevocable
<1>1. CASE new(r)
  BY <1>1 DEF new
<1>2. CASE halt(r)
  BY <1>2 DEF halt
<1>3. ASSUME NEW n \in NodeIds \cup {Malformed}, NEW a \in Apps, mint_operator_grant(r, n, a)
      PROVE  SoleInv(r)'
  <2> DEFINE g == [nonce |-> source[r], audience |-> n, aud |-> a]
  <2>1. /\ granted' = Append(granted, g) /\ micros' = micros + 1 /\ running' = running
        /\ source' = [source EXCEPT ![r] = source[r] + 1] /\ r \in running
        /\ g \in [nonce : Nat, audience : NodeIds, aud : Apps] /\ source[r] \in Nat
    BY <1>3 DEF mint_operator_grant
  <2>2. /\ Len(granted') = Len(granted) + 1
        /\ \A i \in 1..Len(granted) : granted'[i] = granted[i]
        /\ granted'[Len(granted')] = g /\ Len(granted) \in Nat
    BY <2>1
  <2>3. BridgeTypeOK' /\ source'[r] = source[r] + 1
    BY <2>1
  <2>5. \A i \in 1..Len(granted') :
            granted'[i].nonce < source[r] + 1 /\ granted'[i].nonce \in Nat
    BY <1>0, <2>1, <2>2
  <2>6. Ahead(r)'
    BY <2>1, <2>3, <2>5
  <2>7. IndependentlyRevocable'
    BY <1>0, <2>1, <2>2
  <2> QED BY <2>3, <2>6, <2>7
<1>4. CASE elapse
  <2>1. micros' = micros + 1 /\ UNCHANGED <<running, source, granted>>
    BY <1>4 DEF elapse
  <2>2. Ahead(r)'
    BY <1>0, <2>1
  <2> QED BY <2>1, <2>2
<1>5. CASE UNCHANGED bridgeVars
  BY <1>5 DEF bridgeVars
<1> QED BY <1>1, <1>2, <1>3, <1>4, <1>5 DEF BridgeNext

(* With one process signing under the root, each grant is revocable by its own
   nonce, whatever the number of restarts: the counter is seeded with
   microseconds, and signing takes one or more (CapBridge::new). *)
THEOREM SoleBridgeNoncesDistinct ==
    ASSUME NEW r, Replicas = {r}
    PROVE  BridgeSpec => []IndependentlyRevocable
<1>1. BridgeInit => SoleInv(r)
  BY DEF BridgeInit, SoleInv, BridgeTypeOK, Ahead, IndependentlyRevocable
<1>2. SoleInv(r) /\ [BridgeNext]_bridgeVars => SoleInv(r)'
  BY SoleInductive
<1>3. SoleInv(r) => IndependentlyRevocable
  BY DEF SoleInv
<1> QED BY <1>1, <1>2, <1>3, PTL DEF BridgeSpec
=============================================================================
