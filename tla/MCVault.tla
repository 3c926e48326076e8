------------------------------ MODULE MCVault -------------------------------
(* Instances of Vault: their constants are in the configurations.            *)
EXTENDS Vault
=============================================================================
