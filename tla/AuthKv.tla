------------------------------- MODULE AuthKv -------------------------------
(* The authenticated mesh key/value server (crates/ce-iam/src/authkv.rs) and *)
(* its audit log (audit.rs).  A request is decided and audited in one step;  *)
(* an allowed write is proposed to the replicated log in a later one, with   *)
(* requests of other peers, and revocations, in between.                     *)
(*                                                                           *)
(* Data.  A key is a record's name and Prefixed[p] the keys a list prefix    *)
(* reaches.  The chain a peer presents is the set of abilities it gives      *)
(* (module Grant has the detail); a peer in `revoked` has its chain revoked. *)
EXTENDS Naturals, Sequences

CONSTANTS
    Peers,       \* mesh node ids that send requests
    Self,        \* the serving (writer) node
    Keys,        \* record keys
    Sensitive,   \* the keys under "s.", "d.", "g." and "meta"
    ListPrefixes,  \* list prefixes; the audit target of a list is its prefix
    Prefixed,    \* Prefixed[p]: the keys that start with p
    Gated,       \* the prefixes that are empty or satisfy is_sensitive_key
    Held,        \* Held[n]: the abilities of the chain peer n presents
    EnforceWrite, EnforceRead,
    Values, NoValue,
    MaxEvents,   \* MAX_EVENTS
    MaxRequests  \* model bound on the number of requests

ASSUME AuthKvAssumption ==
    /\ Self \in Peers
    /\ Sensitive \subseteq Keys
    /\ Prefixed \in [ListPrefixes -> SUBSET Keys] /\ Gated \subseteq ListPrefixes
    /\ Keys \cap ListPrefixes = {}
    /\ Held \in [Peers -> SUBSET {"kv:read", "kv:write"}]
    /\ EnforceWrite \in BOOLEAN /\ EnforceRead \in BOOLEAN
    /\ NoValue \notin Values
    /\ MaxEvents \in Nat \ {0} /\ MaxRequests \in Nat

VARIABLES
    m,         \* AuthKvMap: the replicated map
    revoked,   \* the peers whose chain is revoked
    proposed,  \* proposed[n]: the allowed write of peer n that is being proposed; its
               \* field `unrevoked` is history: was n's chain in force when it was accepted
    events,    \* the audit ring
    counters,  \* counters[n][t]: the audit totals of actor n on target t
    reply,     \* reply[n]: the last answer to peer n
    changed,   \* history: changed[n][k], the writes of peer n to k in the map
    requests   \* model counter

kvVars == <<m, revoked, proposed, events, counters, reply, changed, requests>>

Targets == Keys \cup ListPrefixes
AuditActions == {"read", "write", "delete"}
Nothing == [kind |-> "none"]

is_sensitive_key(k) == k \in Sensitive

(* Iam::verify of the presented chain against this node's accepted roots *)
authorize(n, ability) == ability \in Held[n] /\ n \notin revoked

(* Mutant: the revocation set is not consulted. *)
WriteAllowedDespiteRevocation(n) == n = Self \/ ~EnforceWrite \/ "kv:write" \in Held[n]

write_allowed(n) == n = Self \/ ~EnforceWrite \/ authorize(n, "kv:write")
read_allowed(n) == n = Self \/ ~EnforceRead \/ authorize(n, "kv:read")

Counted(c, allowed) ==
    IF allowed THEN [c EXCEPT !.allowed = @ + 1] ELSE [c EXCEPT !.denied = @ + 1]

(* Mutant: nothing is dropped from the ring. *)
RecordUnbounded(n, action, t, allowed) ==
    LET ev == [actor |-> n, action |-> action, target |-> t, allowed |-> allowed]
    IN /\ counters' = [counters EXCEPT ![n][t] = Counted(counters[n][t], allowed)]
       /\ events' = Append(events, ev)

(* Audit::record: the counter and the bounded ring. *)
record(n, action, t, allowed) ==
    LET ev == [actor |-> n, action |-> action, target |-> t, allowed |-> allowed]
        ring == Append(events, ev)
    IN /\ counters' = [counters EXCEPT ![n][t] = Counted(counters[n][t], allowed)]
       /\ events' = IF Len(ring) > MaxEvents THEN Tail(ring) ELSE ring

Unaudited == UNCHANGED <<events, counters>>

Receive(n) ==
    /\ proposed[n] = Nothing
    /\ requests < MaxRequests
    /\ requests' = requests + 1

Answer(n, r) == reply' = [reply EXCEPT ![n] = r]
-----------------------------------------------------------------------------
(* handle_request *)

handle_get(n, k) ==
    /\ Receive(n)
    /\ IF is_sensitive_key(k) THEN record(n, "read", k, read_allowed(n)) ELSE Unaudited
    /\ IF is_sensitive_key(k) /\ ~read_allowed(n)
       THEN Answer(n, [kind |-> "denied", what |-> "get", key |-> k])
       ELSE Answer(n, [kind |-> "values", keys |-> {k}])
    /\ UNCHANGED <<m, revoked, proposed, changed>>

(* Mutant: a write is audited only when it is denied. *)
WriteAuditingDenials(n, k, v, action) ==
    /\ Receive(n)
    /\ IF write_allowed(n)
       THEN /\ proposed' = [proposed EXCEPT ![n] = [kind |-> "write", key |-> k, value |-> v,
                                             unrevoked |-> n \notin revoked]]
            /\ Unaudited
            /\ UNCHANGED reply
       ELSE /\ record(n, action, k, FALSE)
            /\ Answer(n, [kind |-> "denied", what |-> action, key |-> k])
            /\ UNCHANGED proposed
    /\ UNCHANGED <<m, revoked, changed>>

(* Put, and Del with v = NoValue.  Every write is gated, whatever its key. *)
handle_write(n, k, v, action) ==
    /\ Receive(n)
    /\ IF write_allowed(n)
       THEN /\ proposed' = [proposed EXCEPT ![n] = [kind |-> "write", key |-> k, value |-> v,
                                             unrevoked |-> n \notin revoked]]
            /\ IF is_sensitive_key(k) THEN record(n, action, k, TRUE) ELSE Unaudited
            /\ UNCHANGED reply
       ELSE /\ record(n, action, k, FALSE)
            /\ Answer(n, [kind |-> "denied", what |-> action, key |-> k])
            /\ UNCHANGED proposed
    /\ UNCHANGED <<m, revoked, changed>>

(* The proposal is committed and applied to the map, and acknowledged. *)
propose(n) ==
    LET w == proposed[n]
    IN /\ w # Nothing
       /\ m' = [m EXCEPT ![w.key] = w.value]
       /\ changed' = [changed EXCEPT ![n][w.key] = @ + 1]
       /\ proposed' = [proposed EXCEPT ![n] = Nothing]
       /\ Answer(n, [kind |-> "ok"])
       /\ UNCHANGED <<revoked, events, counters, requests>>

(* The proposal fails: "put failed", "del failed". *)
propose_fails(n) ==
    /\ proposed[n] # Nothing
    /\ proposed' = [proposed EXCEPT ![n] = Nothing]
    /\ Answer(n, [kind |-> "failed"])
    /\ UNCHANGED <<m, revoked, events, counters, changed, requests>>

(* An instance never has as many keys as the limit. *)
handle_list(n, p) ==
    LET refused == p \in Gated /\ ~read_allowed(n)
        shown == {k \in Prefixed[p] : m[k] # NoValue}
    IN /\ Receive(n)
       /\ IF refused THEN record(n, "read", p, FALSE) ELSE Unaudited
       /\ Answer(n, IF refused THEN [kind |-> "denied", what |-> "list", key |-> p]
                               ELSE [kind |-> "values", keys |-> shown])
       /\ UNCHANGED <<m, revoked, proposed, changed>>

(* external: the chain of a peer is revoked *)
revoke(n) ==
    /\ revoked' = revoked \cup {n}
    /\ UNCHANGED <<m, proposed, events, counters, reply, changed, requests>>

KvInit ==
    /\ m = [k \in Keys |-> NoValue]
    /\ revoked = {}
    /\ proposed = [n \in Peers |-> Nothing]
    /\ events = <<>>
    /\ counters = [n \in Peers |-> [t \in Targets |-> [allowed |-> 0, denied |-> 0]]]
    /\ reply = [n \in Peers |-> Nothing]
    /\ changed = [n \in Peers |-> [k \in Keys |-> 0]]
    /\ requests = 0

KvNext ==
    \E n \in Peers :
        \/ \E k \in Keys :
            \/ handle_get(n, k)
            \/ \E v \in Values : handle_write(n, k, v, "write")
            \/ handle_write(n, k, NoValue, "delete")
        \/ propose(n) \/ propose_fails(n)
        \/ \E p \in ListPrefixes : handle_list(n, p)
        \/ revoke(n)

KvSpec == KvInit /\ [][KvNext]_kvVars
-----------------------------------------------------------------------------
(* Properties *)

Event == [actor : Peers, action : AuditActions, target : Targets, allowed : BOOLEAN]
Write == [kind : {"write"}, key : Keys, value : Values \cup {NoValue}, unrevoked : BOOLEAN]

(* Type invariant: in particular the audit ring stays within MAX_EVENTS. *)
KvTypeOK ==
    /\ m \in [Keys -> Values \cup {NoValue}]
    /\ revoked \subseteq Peers
    /\ proposed \in [Peers -> Write \cup {Nothing}]
    /\ events \in Seq(Event) /\ Len(events) <= MaxEvents
    /\ counters \in [Peers -> [Targets -> [allowed : Nat, denied : Nat]]]
    /\ DOMAIN reply = Peers
    /\ changed \in [Peers -> [Keys -> Nat]]
    /\ requests \in 0..MaxRequests

(* Every change a peer makes to a sensitive record is in its counters from
   before the change is made, so that a proposal that is still under way, or
   that fails, never hides a write: "who read/wrote/deleted what". *)
ChangesAreAccounted ==
    \A n \in Peers : \A k \in Sensitive :
        changed[n][k] + (IF proposed[n] # Nothing /\ proposed[n].key = k THEN 1 ELSE 0)
            <= counters[n][k].allowed

(* "Every privileged record is gated": a step that changes a sensitive record
   lands a write of the node itself, or of a peer whose chain had kv:write and
   was not revoked when the write was accepted, however long the proposal took
   and whatever was revoked or proposed meanwhile. *)
OnlyWritersChange ==
    [][\A k \in Sensitive : m'[k] # m[k] =>
        \E n \in Peers :
            /\ proposed[n] # Nothing /\ proposed[n].key = k
            /\ \/ n = Self \/ ~EnforceWrite
               \/ "kv:write" \in Held[n] /\ proposed[n].unrevoked]_kvVars
=============================================================================
