------------------------------ MODULE NodeAuth ------------------------------
(* The node auth responder (crates/ce-iam/src/nodeauth.rs): a process beside *)
(* a CE node that announces the node to browsers and answers their vouch     *)
(* requests with capabilities signed by the node.  It reads one stream of    *)
(* messages from the node's API; every await on that API is a step, so the   *)
(* node may go down, the stream may end and the operator may interrupt the   *)
(* process in between.                                                       *)
(*                                                                           *)
(* Data.  An ability is a record of its kind and what it names; a wildcard   *)
(* ability is one that iam.mint refuses, since the responder's Iam has no    *)
(* action universe.  The backoff counts in units of its first wait.  What    *)
(* the node and the browsers do is external.                                 *)
EXTENDS Naturals, Sequences

CONSTANTS
    Requests,   \* vouch requests: how they come, whether they decode, what they ask
    Configs,    \* command lines: auto_approve and allowed_prefixes
    StartsWith, \* StartsWith[p]: the abilities that start with prefix p
    Unnamed,    \* the empty name in a request
    Pilot,      \* the name a browser that gave none is vouched for
    MaxBackoff, \* the cap of the backoff (ten seconds in the code)
    MaxInbox,   \* model bound on the messages under way
    MaxFaults,  \* model bound on outages, dropped streams, crashes, interrupts, reloads
    MaxTime     \* model bound on the clock

ASSUME NodeAuthAssumption ==
    MaxBackoff \in Nat \ {0} /\ MaxFaults \in Nat /\ MaxTime \in Nat

VARIABLES
    config,     \* the command line of the service, the same at every start
    pc,         \* where `run` is
    backoff,    \* the next wait before connecting again
    shutdown,   \* the operator has pressed Ctrl-C
    nonce,      \* the nonce of the next capability
    used,       \* history: the nonces of the capabilities signed, over all runs
    inbox,      \* what the open message stream will yield
    cur,        \* the request being answered and its capability
    up,         \* the node answers its API
    open,       \* the stream the service reads is connected
    subscribed, \* the node forwards the service's gossip topic
    seen,       \* the browser has discovered the node
    answered,   \* the requests whose browser got a capability
    faults,     \* faults so far
    clock       \* wall clock, in seconds

service == <<pc, backoff, shutdown, nonce, used, inbox, cur>>
node == <<up, open, subscribed>>
browser == <<seen, answered>>
vars == <<config, service, node, browser, faults, clock>>

NoRequest == [req |-> Unnamed, abilities |-> {}]
-----------------------------------------------------------------------------
(* Abilities *)

Login == [kind |-> "login", of |-> Pilot]
Peer(p) == [kind |-> "peer", of |-> p]
Name(n) == [kind |-> "name", of |-> n]
App(a) == [kind |-> "app", of |-> a]
Wildcard(a) == [kind |-> "wildcard", of |-> a]

(* Mutant: the allow-list is not consulted. *)
GrantEverything(requested) == requested

(* An empty allow-list grants everything requested. *)
grantable(requested) ==
    {a \in requested :
        \/ config.allowed_prefixes = {}
        \/ \E p \in config.allowed_prefixes : a \in StartsWith[p]}

NameOf(r) == IF r.name = Unnamed THEN Pilot ELSE r.name

vouch_abilities(r) == {Login, Peer(r.peer), Name(NameOf(r))} \cup grantable(r.abilities)

(* iam.mint refuses a wildcard: nothing in the empty universe matches it. *)
mintable(abilities) == \A a \in abilities : a.kind # "wildcard"
-----------------------------------------------------------------------------
(* The service *)

(* with_allowed: the nonce starts at the wall clock in whole seconds. *)
start ==
    /\ pc = "off"
    /\ pc' = "subscribing" /\ nonce' = clock /\ shutdown' = FALSE /\ backoff' = 1
    /\ UNCHANGED <<config, used, inbox, cur, node, browser, faults, clock>>

(* A subscription that fails ends the process with an error.  The first
   announcement follows at once; its outcome is ignored. *)
run_subscribe ==
    /\ pc = "subscribing"
    /\ \/ ~up /\ pc' = "off" /\ UNCHANGED <<subscribed, seen>>
       \/ up /\ pc' = "connecting" /\ subscribed' = TRUE /\ seen' = TRUE
    /\ UNCHANGED <<config, backoff, shutdown, nonce, used, inbox, cur, up, open, answered,
                   faults, clock>>

connect ==
    /\ pc = "connecting"
    /\ \/ ~up /\ pc' = "backoff" /\ UNCHANGED <<backoff, open>>
       \/ up /\ pc' = "serving" /\ backoff' = 1 /\ open' = TRUE
    /\ inbox' = <<>>
    /\ UNCHANGED <<config, shutdown, nonce, used, cur, up, subscribed, browser, faults, clock>>

(* Mutant: the wait doubles without a cap. *)
BackoffUncapped ==
    /\ pc = "backoff"
    /\ pc' = "connecting" /\ backoff' = 2 * backoff
    /\ UNCHANGED <<config, shutdown, nonce, used, inbox, cur, node, browser, faults, clock>>

sleep ==
    /\ pc = "backoff"
    /\ pc' = "connecting"
    /\ backoff' = IF 2 * backoff < MaxBackoff THEN 2 * backoff ELSE MaxBackoff
    /\ UNCHANGED <<config, shutdown, nonce, used, inbox, cur, node, browser, faults, clock>>

(* Mutant: the wait before the next attempt does not watch for shutdown. *)
StopServingOnly ==
    /\ shutdown /\ pc = "serving"
    /\ pc' = "off" /\ open' = FALSE /\ inbox' = <<>>
    /\ UNCHANGED <<config, backoff, shutdown, nonce, used, cur, up, subscribed, browser,
                   faults, clock>>

(* Both selects watch for shutdown; connecting and answering do not. *)
stop ==
    /\ shutdown /\ pc \in {"backoff", "serving"}
    /\ pc' = "off" /\ open' = FALSE /\ inbox' = <<>>
    /\ UNCHANGED <<config, backoff, shutdown, nonce, used, cur, up, subscribed, browser,
                   faults, clock>>

announce_tick ==
    /\ pc = "serving" /\ up
    /\ seen' = TRUE
    /\ UNCHANGED <<config, service, node, answered, faults, clock>>

(* Another topic, an undecodable payload and a request while auto-approve is
   off are dropped; a capability that cannot be minted has used its nonce. *)
receive ==
    /\ pc = "serving" /\ inbox # <<>>
    /\ inbox' = Tail(inbox)
    /\ LET r == Head(inbox)
           abilities == vouch_abilities(r)
           handled == r.via \in {"direct", "gossip"} /\ r.decodes /\ config.auto_approve
       IN \/ ~handled /\ UNCHANGED <<pc, nonce, used, cur>>
          \/ /\ handled /\ ~mintable(abilities)
             /\ nonce' = nonce + 1
             /\ UNCHANGED <<pc, used, cur>>
          \/ /\ handled /\ mintable(abilities)
             /\ nonce' = nonce + 1
             /\ used' = used \cup {nonce}
             /\ cur' = [req |-> r, abilities |-> abilities]
             /\ pc' = "answering"
    /\ UNCHANGED <<config, backoff, shutdown, node, browser, faults, clock>>

(* A directed request is answered on its RPC, which an outage or a dropped
   stream has ended; a gossip request by a broadcast.  An error is logged. *)
answer ==
    /\ pc = "answering"
    /\ pc' = "serving" /\ cur' = NoRequest
    /\ answered' = IF up /\ (cur.req.via = "direct" => open)
                   THEN answered \cup {cur.req} ELSE answered
    /\ UNCHANGED <<config, backoff, shutdown, nonce, used, inbox, node, seen, faults, clock>>

(* Mutant: the end of the stream is not taken for the end of the stream. *)
StreamEndIgnored ==
    /\ pc = "serving" /\ ~open
    /\ inbox' = <<>>
    /\ UNCHANGED <<config, pc, backoff, shutdown, nonce, used, cur, node, browser, faults, clock>>

(* The stream yields an error or ends; what it had not yielded is lost. *)
stream_ends ==
    /\ pc = "serving" /\ ~open
    /\ pc' = "connecting" /\ inbox' = <<>>
    /\ UNCHANGED <<config, backoff, shutdown, nonce, used, cur, node, browser, faults, clock>>
-----------------------------------------------------------------------------
(* The node, the browsers and the operator *)

Fault == faults < MaxFaults /\ faults' = faults + 1

(* external: the node stops; it may or may not remember subscriptions *)
outage ==
    /\ up /\ Fault
    /\ up' = FALSE /\ open' = FALSE /\ subscribed' \in {subscribed, FALSE}
    /\ UNCHANGED <<config, service, browser, clock>>

(* external: the node is back *)
restore ==
    /\ ~up
    /\ up' = TRUE
    /\ UNCHANGED <<config, service, open, subscribed, browser, faults, clock>>

(* external: the connection to the stream breaks *)
drop ==
    /\ open /\ Fault
    /\ open' = FALSE
    /\ UNCHANGED <<config, service, up, subscribed, browser, clock>>

(* external: a browser that sees the node asks, or asks again *)
ask(r) ==
    /\ seen /\ open /\ (r.via = "gossip" => subscribed)
    /\ r \notin answered /\ r # cur.req
    /\ \A i \in 1..Len(inbox) : inbox[i] # r
    /\ Len(inbox) < MaxInbox
    /\ IF mintable(vouch_abilities(r)) THEN UNCHANGED faults ELSE Fault   \* model bound
    /\ inbox' = Append(inbox, r)
    /\ UNCHANGED <<config, pc, backoff, shutdown, nonce, used, cur, node, browser, clock>>

(* external: the page is opened anew *)
reload ==
    /\ seen /\ Fault
    /\ seen' = FALSE
    /\ UNCHANGED <<config, service, node, answered, clock>>

(* external: Ctrl-C *)
interrupt ==
    /\ pc # "off" /\ ~shutdown /\ Fault
    /\ shutdown' = TRUE
    /\ UNCHANGED <<config, pc, backoff, nonce, used, inbox, cur, node, browser, clock>>

(* external: the process is killed *)
crash ==
    /\ pc # "off" /\ Fault
    /\ pc' = "off" /\ open' = FALSE /\ inbox' = <<>> /\ cur' = NoRequest
    /\ UNCHANGED <<config, backoff, shutdown, nonce, used, up, subscribed, browser, clock>>

(* external: a second passes *)
tick ==
    /\ clock < MaxTime
    /\ clock' = clock + 1
    /\ UNCHANGED <<config, service, node, browser, faults>>

Init ==
    /\ config \in Configs
    /\ pc = "off" /\ backoff = 1 /\ shutdown = FALSE /\ nonce = 0 /\ used = {}
    /\ inbox = <<>> /\ cur = NoRequest
    /\ up = TRUE /\ open = FALSE /\ subscribed = FALSE
    /\ seen = FALSE /\ answered = {} /\ faults = 0 /\ clock = 0

Next ==
    \/ start \/ run_subscribe \/ connect \/ sleep \/ stop
    \/ announce_tick \/ receive \/ answer \/ stream_ends
    \/ outage \/ restore \/ drop \/ reload \/ interrupt \/ crash \/ tick
    \/ \E r \in Requests : ask(r)

Spec == Init /\ [][Next]_vars

(* The runtime keeps polling `run`, and its select picks among the ready
   branches at random, so a branch that is ready at every turn (shutdown, a
   message, a tick of the interval) is taken sooner or later.  The operator
   starts the service again, and a browser that got no answer asks again. *)
Fairness ==
    /\ WF_vars(start) /\ WF_vars(run_subscribe) /\ WF_vars(connect) /\ WF_vars(sleep)
    /\ WF_vars(answer) /\ WF_vars(stream_ends)
    /\ SF_vars(receive) /\ SF_vars(stop) /\ SF_vars(announce_tick)
    /\ \A r \in Requests : SF_vars(ask(r))
FairSpec == Spec /\ Fairness
-----------------------------------------------------------------------------
(* Properties *)

(* Type invariant.  The wait before a connection attempt never exceeds the
   cap and starts over once a connection was made; a capability is being
   answered exactly while the handler awaits the node. *)
TypeOK ==
    /\ config \in Configs
    /\ pc \in {"off", "subscribing", "connecting", "backoff", "serving", "answering"}
    /\ backoff \in 1..MaxBackoff
    /\ pc \in {"serving", "answering"} => backoff = 1
    /\ shutdown \in BOOLEAN /\ nonce \in Nat /\ used \subseteq Nat
    /\ inbox \in Seq(Requests)
    /\ pc = "answering" <=> cur # NoRequest
    /\ pc = "answering" => cur.req \in Requests
    /\ up \in BOOLEAN /\ open \in BOOLEAN /\ subscribed \in BOOLEAN
    /\ seen \in BOOLEAN /\ answered \subseteq Requests
    /\ faults \in 0..MaxFaults /\ clock \in 0..MaxTime

(* A relying app accepts a capability for a peer and a name when it carries
   the login and both bindings. *)
accepts(cap, peer, name) == {Login, Peer(peer), Name(name)} \subseteq cap.abilities

(* With an allow-list that covers no identity ability, an app accepts a
   capability only for the peer and the name it was signed for, whatever
   abilities that request or any other asked for. *)
VouchNamesRequester ==
    LET covered == UNION {StartsWith[p] : p \in config.allowed_prefixes}
    IN config.allowed_prefixes # {} /\ (\A a \in covered : a.kind \in {"app", "wildcard"}) =>
        \A r \in Requests :
            pc = "answering" /\ accepts(cur, r.peer, NameOf(r)) =>
                r.peer = cur.req.peer /\ NameOf(r) = NameOf(cur.req)

Vouchable(r) ==
    r.via = "direct" /\ r.decodes /\ config.auto_approve /\ mintable(vouch_abilities(r))

(* "Reconnects to the message stream with capped backoff": once the node
   stays up, every browser that sends directed requests gets its capability,
   whatever outages, broken streams, crashes and restarts came before, and
   also when the node has forgotten the service's subscription. *)
DirectAnswered == <>[]up => \A r \in Requests : Vouchable(r) => <>(r \in answered)

(* "Run the responder until `shutdown` resolves": an interrupted service
   stops, also while its node is down for good. *)
StopsWhenAsked == shutdown ~> pc = "off"

(* "Monotonic per-issuer cap nonce (seeded from the wall clock so it does not
   collide across runs)": the capability signed next takes a nonce that none
   signed before it has. *)
NoncesFresh == pc = "serving" => nonce \notin used
=============================================================================
