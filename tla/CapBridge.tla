----------------------------- MODULE CapBridge ------------------------------
(* The capability bridge (crates/ce-iam/src/bridge.rs): the replicas of the  *)
(* ce-auth service, which sign operator grants under one root key.  A grant  *)
(* is revoked by its root and nonce, and each replica draws nonces from a    *)
(* counter that starts at the wall clock in microseconds.                    *)
EXTENDS Naturals, Sequences

CONSTANTS
    Replicas,  \* the processes that share CE_AUTH_CAP_ROOT_SEED
    NodeIds,   \* the registered node ids of enrolled devices
    Malformed, \* a registered node id that is not a principal
    Apps,      \* the audiences that ask for a login
    MaxMicros, \* model bound on the clock
    MaxMints   \* model bound on the grants

ASSUME BridgeAssumption == MaxMicros \in Nat /\ MaxMints \in Nat /\ Malformed \notin NodeIds

VARIABLES
    micros,  \* wall clock, in microseconds
    running, \* the replicas that run
    source,  \* source[r]: the next nonce of replica r
    granted  \* the grants signed so far, over all runs

bridgeVars == <<micros, running, source, granted>>

(* Mutant: the counter starts at zero. *)
NewUnseeded(r) ==
    /\ r \notin running
    /\ running' = running \cup {r}
    /\ source' = [source EXCEPT ![r] = 0]
    /\ UNCHANGED <<micros, granted>>

(* from_env and new: the counter starts at the wall clock. *)
new(r) ==
    /\ r \notin running
    /\ running' = running \cup {r}
    /\ source' = [source EXCEPT ![r] = micros]
    /\ UNCHANGED <<micros, granted>>

(* A node id that does not parse is an error that draws no nonce.  Signing
   takes a microsecond or more. *)
mint_operator_grant(r, audience, aud) ==
    /\ r \in running
    /\ audience # Malformed
    /\ Len(granted) < MaxMints /\ micros < MaxMicros   \* model bounds
    /\ granted' = Append(granted, [nonce |-> source[r], audience |-> audience, aud |-> aud])
    /\ source' = [source EXCEPT ![r] = source[r] + 1]
    /\ micros' = micros + 1
    /\ UNCHANGED running

(* external: a replica stops, in order or not *)
halt(r) ==
    /\ r \in running
    /\ running' = running \ {r}
    /\ UNCHANGED <<micros, source, granted>>

(* external: time passes; the clock is not set back *)
elapse ==
    /\ micros < MaxMicros
    /\ micros' = micros + 1
    /\ UNCHANGED <<running, source, granted>>

BridgeInit ==
    /\ micros = 0 /\ running = {} /\ granted = <<>>
    /\ source = [r \in Replicas |-> 0]

BridgeNext ==
    \/ \E r \in Replicas : new(r) \/ halt(r)
    \/ \E r \in Replicas, n \in NodeIds \cup {Malformed}, a \in Apps :
           mint_operator_grant(r, n, a)
    \/ elapse

BridgeSpec == BridgeInit /\ [][BridgeNext]_bridgeVars
-----------------------------------------------------------------------------
(* Properties *)

(* "Each mint must be independently revocable by (issuer, nonce); a fresh
   boot must not reuse them": revoking one grant revokes that one only. *)
IndependentlyRevocable ==
    \A i, j \in 1..Len(granted) : granted[i].nonce = granted[j].nonce => i = j
=============================================================================
