---------------------------- MODULE AuthKvProofs ----------------------------
(* What the key/value server promises for any number of peers, keys and      *)
(* requests.  Each of the three theorems is inductive on its own, over the   *)
(* type invariant; the last one needs that every write under way was allowed *)
(* when it was accepted.                                                     *)
EXTENDS AuthKv, TLAPS

LEMMA ConstantsOK ==
    /\ Self \in Peers /\ Sensitive \subseteq Keys
    /\ Prefixed \in [ListPrefixes -> SUBSET Keys]
    /\ MaxEvents \in Nat \ {0} /\ MaxRequests \in Nat
BY AuthKvAssumption

(* Audit::record keeps the ring within its bound and the counters naturals,
   and raises one counter by one. *)
LEMMA RecordFacts ==
    ASSUME KvTypeOK, NEW n \in Peers, NEW action \in AuditActions, NEW t \in Targets,
           NEW allowed \in BOOLEAN, record(n, action, t, allowed)
    PROVE  /\ events' \in Seq(Event) /\ Len(events') <= MaxEvents
           /\ counters' \in [Peers -> [Targets -> [allowed : Nat, denied : Nat]]]
           /\ \A p \in Peers : \A k \in Targets :
                /\ counters[p][k].allowed <= counters'[p][k].allowed
                /\ p = n /\ k = t /\ allowed
                      => counters'[p][k].allowed = counters[p][k].allowed + 1
<1> DEFINE ev == [actor |-> n, action |-> action, target |-> t, allowed |-> allowed]
           ring == Append(events, ev)
           cell == Counted(counters[n][t], allowed)
<1>1. events \in Seq(Event) /\ Len(events) <= MaxEvents
    BY DEF KvTypeOK
<1>2. ev \in Event
    BY DEF Event
<1>3. /\ ring \in Seq(Event) /\ Len(ring) = Len(events) + 1
    BY <1>1, <1>2
<1>4. events' = IF Len(ring) > MaxEvents THEN Tail(ring) ELSE ring
    BY DEF record
<1>5. events' \in Seq(Event) /\ Len(events') <= MaxEvents
    <2>1. CASE Len(ring) > MaxEvents
        <3>1. ring # <<>>
            BY <1>3, <1>1
        <3>2. Tail(ring) \in Seq(Event) /\ Len(Tail(ring)) = Len(ring) - 1
            BY <1>3, <3>1
        <3>. QED  BY <1>1, <1>3, <1>4, <2>1, <3>2, ConstantsOK
    <2>2. CASE ~(Len(ring) > MaxEvents)
        BY <1>1, <1>3, <1>4, <2>2, ConstantsOK
    <2>. QED  BY <2>1, <2>2
<1>6. counters \in [Peers -> [Targets -> [allowed : Nat, denied : Nat]]]
    BY DEF KvTypeOK
<1>7. counters[n][t] \in [allowed : Nat, denied : Nat]
    BY <1>6
<1>8. /\ cell \in [allowed : Nat, denied : Nat]
      /\ counters[n][t].allowed <= cell.allowed
      /\ allowed => cell.allowed = counters[n][t].allowed + 1
    BY <1>7 DEF Counted
<1>9. counters' = [counters EXCEPT ![n][t] = cell]
    BY DEF record
<1>10. counters' \in [Peers -> [Targets -> [allowed : Nat, denied : Nat]]]
    BY <1>6, <1>8, <1>9
<1>11. ASSUME NEW p \in Peers, NEW k \in Targets
       PROVE  /\ counters[p][k].allowed <= counters'[p][k].allowed
              /\ p = n /\ k = t /\ allowed
                    => counters'[p][k].allowed = counters[p][k].allowed + 1
    <2>1. CASE p = n /\ k = t
        BY <1>6, <1>8, <1>9, <2>1
    <2>2. CASE ~(p = n /\ k = t)
        <3>1. counters'[p][k] = counters[p][k]
            BY <1>6, <1>9, <2>2
        <3>2. counters[p][k] \in [allowed : Nat, denied : Nat]
            BY <1>6
        <3>. QED  BY <2>2, <3>1, <3>2
    <2>. QED  BY <2>1, <2>2
<1>. QED  BY <1>5, <1>10, <1>11

(* A request whose audit line is optional keeps both, and lowers no counter. *)
LEMMA AuditFacts ==
    ASSUME KvTypeOK, NEW n \in Peers, NEW action \in AuditActions, NEW t \in Targets,
           NEW allowed \in BOOLEAN, Unaudited \/ record(n, action, t, allowed)
    PROVE  /\ events' \in Seq(Event) /\ Len(events') <= MaxEvents
           /\ counters' \in [Peers -> [Targets -> [allowed : Nat, denied : Nat]]]
           /\ \A p \in Peers : \A k \in Targets :
                counters[p][k].allowed <= counters'[p][k].allowed
<1>1. CASE record(n, action, t, allowed)
    BY <1>1, RecordFacts
<1>2. CASE Unaudited
    <2>1. ASSUME NEW p \in Peers, NEW k \in Targets
          PROVE  counters[p][k].allowed \in Nat
        BY DEF KvTypeOK
    <2>. QED  BY <1>2, <2>1 DEF Unaudited, KvTypeOK
<1>. QED  BY <1>1, <1>2

(* Type correctness of the server and its audit log, for every set of peers,
   keys and prefixes: the ring never exceeds MAX_EVENTS. *)
THEOREM AuthKvTypeOK == KvSpec => []KvTypeOK
<1>1. KvInit => KvTypeOK
    BY ConstantsOK DEF KvInit, KvTypeOK, Targets, Nothing
<1>2. KvTypeOK /\ [KvNext]_kvVars => KvTypeOK'
    <2> SUFFICES ASSUME KvTypeOK, [KvNext]_kvVars PROVE KvTypeOK'
        OBVIOUS
    <2>1. ASSUME NEW n \in Peers, NEW k \in Keys, handle_get(n, k) PROVE KvTypeOK'
        <3>1. Unaudited \/ record(n, "read", k, read_allowed(n))
            BY <2>1 DEF handle_get
        <3>2. read_allowed(n) \in BOOLEAN /\ k \in Targets /\ "read" \in AuditActions
            BY DEF read_allowed, authorize, Targets, AuditActions
        <3>3. /\ events' \in Seq(Event) /\ Len(events') <= MaxEvents
              /\ counters' \in [Peers -> [Targets -> [allowed : Nat, denied : Nat]]]
            BY <3>1, <3>2, AuditFacts
        <3>. QED  BY <2>1, <3>3, ConstantsOK DEF handle_get, Receive, Answer, KvTypeOK
    <2>2. ASSUME NEW n \in Peers, NEW k \in Keys, NEW v \in Values \cup {NoValue},
                 NEW action \in {"write", "delete"}, handle_write(n, k, v, action)
          PROVE KvTypeOK'
        <3>1. \E b \in BOOLEAN : Unaudited \/ record(n, action, k, b)
            BY <2>2 DEF handle_write
        <3>2. k \in Targets /\ action \in AuditActions
            BY DEF Targets, AuditActions
        <3>3. /\ events' \in Seq(Event) /\ Len(events') <= MaxEvents
              /\ counters' \in [Peers -> [Targets -> [allowed : Nat, denied : Nat]]]
            BY <3>1, <3>2, AuditFacts
        <3>4. [kind |-> "write", key |-> k, value |-> v,
               unrevoked |-> n \notin revoked] \in Write
            BY DEF Write
        <3>5. /\ \/ proposed' = proposed
                 \/ proposed' = [proposed EXCEPT ![n] = [kind |-> "write", key |-> k, value |-> v,
                                                       unrevoked |-> n \notin revoked]]
              /\ UNCHANGED <<m, revoked, changed>>
            BY <2>2 DEF handle_write
        <3>6. proposed' \in [Peers -> Write \cup {Nothing}]
            BY <3>4, <3>5 DEF KvTypeOK
        <3>7. DOMAIN reply' = Peers
            BY <2>2 DEF handle_write, Answer, KvTypeOK
        <3>8. requests' \in 0..MaxRequests
            BY <2>2, ConstantsOK DEF handle_write, Receive, KvTypeOK
        <3>. QED  BY <3>3, <3>5, <3>6, <3>7, <3>8 DEF KvTypeOK
    <2>3. ASSUME NEW n \in Peers, propose(n) PROVE KvTypeOK'
        <3>1. proposed[n] \in Write
            BY <2>3 DEF propose, KvTypeOK
        <3>. QED  BY <2>3, <3>1 DEF propose, Answer, KvTypeOK, Write, Nothing
    <2>4. ASSUME NEW n \in Peers, propose_fails(n) PROVE KvTypeOK'
        BY <2>4 DEF propose_fails, Answer, KvTypeOK
    <2>5. ASSUME NEW n \in Peers, NEW p \in ListPrefixes, handle_list(n, p) PROVE KvTypeOK'
        <3>1. Unaudited \/ record(n, "read", p, FALSE)
            BY <2>5 DEF handle_list
        <3>2. p \in Targets /\ "read" \in AuditActions
            BY DEF Targets, AuditActions
        <3>3. /\ events' \in Seq(Event) /\ Len(events') <= MaxEvents
              /\ counters' \in [Peers -> [Targets -> [allowed : Nat, denied : Nat]]]
            BY <3>1, <3>2, AuditFacts
        <3>4. DOMAIN reply' = Peers
            BY <2>5 DEF handle_list, Answer, KvTypeOK
        <3>5. requests' \in 0..MaxRequests
            BY <2>5, ConstantsOK DEF handle_list, Receive, KvTypeOK
        <3>6. UNCHANGED <<m, revoked, proposed, changed>>
            BY <2>5 DEF handle_list
        <3>. QED  BY <3>3, <3>4, <3>5, <3>6 DEF KvTypeOK
    <2>6. ASSUME NEW n \in Peers, revoke(n) PROVE KvTypeOK'
        BY <2>6 DEF revoke, KvTypeOK
    <2>7. CASE UNCHANGED kvVars
        BY <2>7 DEF kvVars, KvTypeOK
    <2>. QED  BY <2>1, <2>2, <2>3, <2>4, <2>5, <2>6, <2>7 DEF KvNext
<1>. QED  BY <1>1, <1>2, PTL DEF KvSpec

(* The step of an action that can disturb the accounting: a write that is
   accepted is in the counters with its request, one that is committed moves
   from `proposed` to `changed`. *)
Accounted(n, k) ==
    changed[n][k] + (IF proposed[n] # Nothing /\ proposed[n].key = k THEN 1 ELSE 0)
        <= counters[n][k].allowed

LEMMA AccountedUnlessWritten ==
    ASSUME KvTypeOK, KvTypeOK', ChangesAreAccounted, changed' = changed, NEW n \in Peers, NEW k \in Sensitive,
           proposed'[n] = proposed[n] \/ proposed'[n] = Nothing,
           counters[n][k].allowed <= counters'[n][k].allowed
    PROVE  Accounted(n, k)'
<1>1. k \in Keys /\ k \in Targets
    BY ConstantsOK DEF Targets
<1>2. /\ changed[n][k] \in Nat
      /\ counters[n][k].allowed \in Nat /\ counters'[n][k].allowed \in Nat
    BY <1>1 DEF KvTypeOK
<1>3. Accounted(n, k)
    BY DEF ChangesAreAccounted, Accounted
<1>4. CASE proposed'[n] = proposed[n]
    BY <1>2, <1>3, <1>4 DEF Accounted
<1>5. CASE proposed'[n] = Nothing
    BY <1>2, <1>3, <1>5 DEF Accounted
<1>. QED  BY <1>4, <1>5

(* Every change of a sensitive record is in the audit counters before it is
   made, for any number of peers and keys and however their writes overlap. *)
THEOREM EveryChangeAccounted == KvSpec => []ChangesAreAccounted
<1>1. KvInit => ChangesAreAccounted
    <2> SUFFICES ASSUME KvInit, NEW n \in Peers, NEW k \in Sensitive PROVE Accounted(n, k)
        BY DEF ChangesAreAccounted, Accounted
    <2>1. k \in Keys /\ k \in Targets
        BY ConstantsOK DEF Targets
    <2>2. changed[n][k] = 0 /\ proposed[n] = Nothing /\ counters[n][k].allowed = 0
        BY <2>1 DEF KvInit
    <2>. QED  BY <2>2 DEF Accounted
<1>2. KvTypeOK /\ KvTypeOK' /\ ChangesAreAccounted /\ [KvNext]_kvVars => ChangesAreAccounted'
    <2> SUFFICES ASSUME KvTypeOK, KvTypeOK', ChangesAreAccounted, [KvNext]_kvVars,
                        NEW p \in Peers, NEW s \in Sensitive
                 PROVE  Accounted(p, s)'
        BY DEF ChangesAreAccounted, Accounted
    <2>0. /\ s \in Keys /\ s \in Targets
          /\ changed[p][s] \in Nat /\ counters[p][s].allowed \in Nat
          /\ Accounted(p, s)
        BY ConstantsOK DEF Targets, KvTypeOK, ChangesAreAccounted, Accounted
    <2>1. ASSUME NEW n \in Peers, NEW k \in Keys, handle_get(n, k) PROVE Accounted(p, s)'
        <3>1. /\ Unaudited \/ record(n, "read", k, read_allowed(n))
              /\ changed' = changed /\ proposed' = proposed
            BY <2>1 DEF handle_get
        <3>2. read_allowed(n) \in BOOLEAN /\ k \in Targets /\ "read" \in AuditActions
            BY DEF read_allowed, authorize, Targets, AuditActions
        <3>3. counters[p][s].allowed <= counters'[p][s].allowed
            BY <2>0, <3>1, <3>2, AuditFacts
        <3>. QED  BY <3>1, <3>3, AccountedUnlessWritten
    <2>2. ASSUME NEW n \in Peers, NEW k \in Keys, NEW v \in Values \cup {NoValue},
                 NEW action \in {"write", "delete"}, handle_write(n, k, v, action)
          PROVE  Accounted(p, s)'
        <3> DEFINE w == [kind |-> "write", key |-> k, value |-> v, unrevoked |-> n \notin revoked]
        <3>0. k \in Targets /\ action \in AuditActions /\ changed' = changed
            BY <2>2 DEF Targets, AuditActions, handle_write
        <3>1. CASE ~write_allowed(n)
            <4>1. record(n, action, k, FALSE) /\ proposed' = proposed
                BY <2>2, <3>1 DEF handle_write
            <4>2. counters[p][s].allowed <= counters'[p][s].allowed
                BY <2>0, <3>0, <4>1, AuditFacts
            <4>. QED  BY <3>0, <4>1, <4>2, AccountedUnlessWritten
        <3>2. CASE write_allowed(n) /\ p = n /\ s = k
            <4>1. record(n, action, k, TRUE)
                BY <2>2, <3>2 DEF handle_write, is_sensitive_key
            <4>2. counters'[n][k].allowed = counters[n][k].allowed + 1
                BY <3>0, <4>1, RecordFacts
            <4>3. proposed[n] = Nothing
                BY <2>2 DEF handle_write, Receive
            <4>4. changed[p][s] <= counters[p][s].allowed
                BY <2>0, <3>2, <4>3 DEF Accounted
            <4>. QED  BY <2>0, <3>0, <3>2, <4>2, <4>4 DEF Accounted
        <3>3. CASE write_allowed(n) /\ ~(p = n /\ s = k)
            <4>1. /\ Unaudited \/ record(n, action, k, TRUE)
                  /\ proposed' = [proposed EXCEPT ![n] = w]
                BY <2>2, <3>3 DEF handle_write
            <4>2. counters[p][s].allowed <= counters'[p][s].allowed
                BY <2>0, <3>0, <4>1, AuditFacts
            <4>3. CASE p # n
                <5>1. proposed'[p] = proposed[p]
                    BY <4>1, <4>3 DEF KvTypeOK
                <5>. QED  BY <3>0, <4>2, <5>1, AccountedUnlessWritten
            <4>4. CASE p = n
                <5>1. proposed'[p] = w /\ proposed[p] = Nothing
                    BY <2>2, <4>1, <4>4 DEF KvTypeOK, handle_write, Receive
                <5>2. proposed'[p].key # s
                    BY <3>3, <4>4, <5>1
                <5>3. changed[p][s] <= counters[p][s].allowed
                    BY <2>0, <5>1 DEF Accounted
                <5>4. counters'[p][s].allowed \in Nat
                    BY <2>0 DEF KvTypeOK
                <5>. QED  BY <2>0, <3>0, <4>2, <5>2, <5>3, <5>4 DEF Accounted
            <4>. QED  BY <4>3, <4>4
        <3>. QED  BY <3>1, <3>2, <3>3
    <2>3. ASSUME NEW n \in Peers, propose(n) PROVE Accounted(p, s)'
        <3>1. proposed[n] \in Write /\ proposed[n] # Nothing /\ counters' = counters
            BY <2>3 DEF propose, KvTypeOK
        <3>2. /\ changed' = [changed EXCEPT ![n][proposed[n].key] = changed[n][proposed[n].key] + 1]
              /\ proposed' = [proposed EXCEPT ![n] = Nothing]
            BY <2>3 DEF propose
        <3>3. CASE p = n /\ s = proposed[n].key
            <4>1. changed'[p][s] = changed[p][s] + 1 /\ proposed'[p] = Nothing
                BY <2>0, <3>2, <3>3 DEF KvTypeOK
            <4>2. changed[p][s] + 1 <= counters[p][s].allowed
                BY <2>0, <3>1, <3>3 DEF Accounted
            <4>. QED  BY <2>0, <3>1, <4>1, <4>2 DEF Accounted
        <3>4. CASE ~(p = n /\ s = proposed[n].key)
            <4>1. changed'[p][s] = changed[p][s]
                BY <2>0, <3>2, <3>4 DEF KvTypeOK
            <4>2. proposed'[p] = proposed[p] \/ proposed'[p] = Nothing
                BY <3>2 DEF KvTypeOK
            <4>3. changed[p][s] <= counters[p][s].allowed
                BY <2>0 DEF Accounted
            <4>. QED  BY <2>0, <3>1, <4>1, <4>2, <4>3 DEF Accounted
        <3>. QED  BY <3>3, <3>4
    <2>4. ASSUME NEW n \in Peers, propose_fails(n) PROVE Accounted(p, s)'
        <3>1. /\ changed' = changed /\ counters' = counters
              /\ proposed'[p] = proposed[p] \/ proposed'[p] = Nothing
            BY <2>4 DEF propose_fails, KvTypeOK
        <3>. QED  BY <2>0, <3>1, AccountedUnlessWritten
    <2>5. ASSUME NEW n \in Peers, NEW f \in ListPrefixes, handle_list(n, f) PROVE Accounted(p, s)'
        <3>1. /\ Unaudited \/ record(n, "read", f, FALSE)
              /\ changed' = changed /\ proposed' = proposed
            BY <2>5 DEF handle_list
        <3>2. f \in Targets /\ "read" \in AuditActions
            BY DEF Targets, AuditActions
        <3>3. counters[p][s].allowed <= counters'[p][s].allowed
            BY <2>0, <3>1, <3>2, AuditFacts
        <3>. QED  BY <3>1, <3>3, AccountedUnlessWritten
    <2>6. ASSUME NEW n \in Peers, revoke(n) PROVE Accounted(p, s)'
        BY <2>0, <2>6 DEF revoke, Accounted
    <2>7. CASE UNCHANGED kvVars
        BY <2>0, <2>7 DEF kvVars, Accounted
    <2>. QED  BY <2>1, <2>2, <2>3, <2>4, <2>5, <2>6, <2>7 DEF KvNext
<1>. QED  BY <1>1, <1>2, AuthKvTypeOK, PTL DEF KvSpec

(* Every write under way was allowed when it was accepted, also when the
   chain it came with is revoked since. *)
Admitted ==
    \A n \in Peers : proposed[n] # Nothing =>
        \/ n = Self \/ ~EnforceWrite
        \/ "kv:write" \in Held[n] /\ proposed[n].unrevoked

LEMMA AdmittedInvariant == KvSpec => []Admitted
<1>1. KvInit => Admitted
    BY DEF KvInit, Admitted
<1>2. KvTypeOK /\ Admitted /\ [KvNext]_kvVars => Admitted'
    <2> SUFFICES ASSUME KvTypeOK, Admitted, [KvNext]_kvVars PROVE Admitted'
        OBVIOUS
    <2>0. proposed \in [Peers -> Write \cup {Nothing}]
        BY DEF KvTypeOK
    <2>1. ASSUME NEW n \in Peers, NEW k \in Keys, NEW v, NEW action,
                 handle_write(n, k, v, action)
          PROVE  Admitted'
        <3> DEFINE w == [kind |-> "write", key |-> k, value |-> v, unrevoked |-> n \notin revoked]
        <3>1. CASE write_allowed(n)
            <4>1. proposed' = [proposed EXCEPT ![n] = w]
                BY <2>1, <3>1 DEF handle_write
            <4>2. w.unrevoked <=> n \notin revoked
                OBVIOUS
            <4>3. n = Self \/ ~EnforceWrite \/ ("kv:write" \in Held[n] /\ w.unrevoked)
                BY <3>1, <4>2 DEF write_allowed, authorize
            <4>. HIDE DEF w
            <4>. QED  BY <2>0, <4>1, <4>3 DEF Admitted
        <3>2. CASE ~write_allowed(n)
            BY <2>1, <3>2 DEF handle_write, Admitted
        <3>. QED  BY <3>1, <3>2
    <2>2. ASSUME NEW n \in Peers, propose(n) \/ propose_fails(n) PROVE Admitted'
        BY <2>0, <2>2 DEF propose, propose_fails, Admitted
    <2>3. ASSUME UNCHANGED proposed PROVE Admitted'
        BY <2>3 DEF Admitted
    <2>4. CASE UNCHANGED kvVars
        BY <2>3, <2>4 DEF kvVars
    <2>. QED  BY <2>1, <2>2, <2>3, <2>4 DEF KvNext, handle_get, handle_list, revoke
<1>. QED  BY <1>1, <1>2, AuthKvTypeOK, PTL DEF KvSpec

(* Nothing but a write of the node itself, or one accepted under an unrevoked
   chain with kv:write, changes a sensitive record, for any number of peers and
   any interleaving of their proposals with revocations. *)
THEOREM OnlyAdmittedWritesLand == KvSpec => OnlyWritersChange
<1>1. KvTypeOK /\ Admitted /\ [KvNext]_kvVars =>
        [\A k \in Sensitive : m'[k] # m[k] =>
            \E n \in Peers :
                /\ proposed[n] # Nothing /\ proposed[n].key = k
                /\ \/ n = Self \/ ~EnforceWrite
                   \/ "kv:write" \in Held[n] /\ proposed[n].unrevoked]_kvVars
    <2> SUFFICES ASSUME KvTypeOK, Admitted, KvNext, NEW k \in Sensitive, m'[k] # m[k]
                 PROVE  \E n \in Peers :
                            /\ proposed[n] # Nothing /\ proposed[n].key = k
                            /\ \/ n = Self \/ ~EnforceWrite
                               \/ "kv:write" \in Held[n] /\ proposed[n].unrevoked
        OBVIOUS
    <2>1. PICK n \in Peers : propose(n)
        BY DEF KvNext, handle_get, handle_write, propose_fails, handle_list, revoke
    <2>2. proposed[n] # Nothing /\ m' = [m EXCEPT ![proposed[n].key] = proposed[n].value]
        BY <2>1 DEF propose
    <2>3. k \in Keys
        BY ConstantsOK
    <2>4. proposed[n].key = k
        BY <2>2, <2>3 DEF KvTypeOK
    <2>. QED  BY <2>2, <2>4 DEF Admitted
<1>. QED  BY <1>1, AuthKvTypeOK, AdmittedInvariant, PTL DEF KvSpec, OnlyWritersChange
=============================================================================
