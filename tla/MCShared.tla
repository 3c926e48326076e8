------------------------------ MODULE MCShared ------------------------------
(* Bounded instances of the two stores several parties write: the catalog's  *)
(* log, which processes overwrite, and the key/value map, to which a node    *)
(* proposes the writes of its peers.  They share nothing: a behaviour is     *)
(* about one of the two, whichever is touched first.                         *)
(*                                                                           *)
(* The key/value server meets the node itself, a peer that may read and one  *)
(* that may read and write; it keeps a secret and a record that is not       *)
(* sensitive; its list prefixes are "s." (gated) and "s" (not gated).        *)
EXTENDS CatalogStore, AuthKv

CONSTANTS read, node, reader, writer, secret, public, sDot, sBare,
          DocWeight  \* the weight of the one document

MCDocs ==
    {{[effect |-> "Allow", actions |-> {read},
       resource |-> [kind |-> "any", node |-> AnyNode, tags |-> {}],
       conditions |-> [not_before |-> None, not_after |-> None, uses |-> None]]}}
MCCovers == <<>>
MCWeight == [d \in MCDocs |-> DocWeight]

MCPrefixed == sDot :> {secret} @@ sBare :> {secret}
MCGated == {sDot}
MCHeld == node :> {} @@ reader :> {"kv:read"} @@ writer :> {"kv:read", "kv:write"}

MCInit == Init /\ KvInit
MCNext ==
    \/ KvInit /\ Next /\ UNCHANGED kvVars
    \/ (\A p \in Processes : ~running[p]) /\ file = <<>> /\ KvNext /\ UNCHANGED vars
MCSpec == MCInit /\ [][MCNext]_<<vars, kvVars>>
=============================================================================
