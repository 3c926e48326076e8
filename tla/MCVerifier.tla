----------------------------- MODULE MCVerifier -----------------------------
(* A bounded instance of the verifier and the root commands. *)
EXTENDS Verifier

CONSTANT k1

(* A token of a configured root. *)
MCTokens == {[root |-> k1, links |-> Links, not_after |-> 3]}
=============================================================================
