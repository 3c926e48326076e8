----------------------------- MODULE MCServices -----------------------------
(* Instances of the two services that sign capabilities for logins.  They    *)
(* share nothing, so a behaviour runs one of them.                           *)
EXTENDS NodeAuth, CapBridge

CONSTANTS ada, bob, cast

Request(via, decodes, peer, name, abilities) ==
    [via |-> via, decodes |-> decodes, peer |-> peer, name |-> name, abilities |-> abilities]

(* A directed request for an app's ability; a gossip request without a name
   that lists identity abilities among those it asks for; a directed request
   for a wildcard; a payload that does not decode. *)
MCRequests == {
    Request("direct", TRUE, "p1", ada, {App(cast)}),
    Request("gossip", TRUE, "p2", Unnamed, {Peer("p1"), Name(ada), App(cast)}),
    Request("direct", TRUE, "p2", bob, {Wildcard(cast)}),
    Request("gossip", FALSE, "p2", bob, {})}
NonceRequests == {Request("direct", TRUE, "p1", ada, {}), Request("direct", TRUE, "p2", bob, {})}

MCStartsWith == [p \in {"cast:"} |-> {App(cast), Wildcard(cast)}]
Config(auto, prefixes) == [auto_approve |-> auto, allowed_prefixes |-> prefixes]
MCConfigs == {Config(TRUE, {"cast:"}), Config(TRUE, {}), Config(FALSE, {})}
NonceConfigs == {Config(TRUE, {})}

MCInit == Init /\ BridgeInit
MCNext ==
    \/ Next /\ granted = <<>> /\ running = {} /\ micros = 0 /\ UNCHANGED bridgeVars
    \/ BridgeNext /\ Init /\ UNCHANGED vars
MCSpec == MCInit /\ [][MCNext]_<<vars, bridgeVars>> /\ Fairness
=============================================================================
