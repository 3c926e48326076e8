----------------------------- MODULE MCCatalog ------------------------------
(* Bounded instances of the catalog store and of the wallet, which share     *)
(* atomic_write_json and nothing else: a behaviour is about one of the two,  *)
(* whichever is touched first.                                               *)
EXTENDS CatalogStore, Wallet

CONSTANTS read, write, starTypo,
          dRead,       \* names of the documents an instance uses
          dWide,
          dTypo,
          MCDocNames,  \* subset of {dRead, dWide, dTypo}
          HeavyWeight  \* the weight of every document

MCActions == {read, write}
MCPatterns == {starTypo}
MCCovers == [p \in MCPatterns |-> {}]

AnyR == [kind |-> "any", node |-> AnyNode, tags |-> {}]
Cond(na) == [not_before |-> None, not_after |-> na, uses |-> None]
Stmt(effect, actions, na) ==
    [effect |-> effect, actions |-> actions, resource |-> AnyR, conditions |-> Cond(na)]

DocNamed(d) ==
    CASE d = dRead -> {Stmt("Allow", {read}, None)}
      [] d = dWide -> {Stmt("Allow", {read}, 2), Stmt("Allow", {write}, None)}
      [] d = dTypo -> {Stmt("Allow", {starTypo}, None)}

MCDocs == {DocNamed(d) : d \in MCDocNames}
MCWeight == [d \in MCDocs |-> HeavyWeight]

MCInit == Init /\ WalletInit
MCNext ==
    \/ shell = [s \in Shells |-> Prompt] /\ wallet = NoWallet /\ Next /\ UNCHANGED walletVars
    \/ (\A p \in Processes : ~running[p]) /\ file = <<>> /\ WalletNext /\ UNCHANGED vars
MCSpec == MCInit /\ [][MCNext]_<<vars, walletVars>>
=============================================================================
