------------------------------- MODULE Trust --------------------------------
(* Attestations and the trust score (crates/ce-iam-core/src/attestation.rs   *)
(* and trust.rs): providers sign what they verified about a subject, and a   *)
(* relying party adds up the weights of the providers it trusts.             *)
(*                                                                           *)
(* Data.  A signature is the body it was made over.  The claim, the          *)
(* pseudonym and the nonce decide nothing here and are left out; weights     *)
(* are whole numbers.                                                        *)
EXTENDS FiniteSets, Naturals, Sequences

CONSTANTS
    Attestors,     \* provider keys
    Subjects,      \* node ids
    Levels,        \* assurance levels
    Expiries,      \* expiry times; 0 means none
    TrustPolicies, \* the policies relying parties use
    MaxHeld,       \* model bound on the attestations in circulation
    LastSecond     \* model bound on the clock

ASSUME TrustAssumption == Levels \subseteq Nat /\ Expiries \subseteq Nat /\ LastSecond \in Nat

VARIABLES
    held,   \* the attestations in circulation
    said,   \* history: the bodies providers signed
    second  \* wall clock

trustVars == <<held, said, second>>

issue_attestation(p, s, level, expires) ==
    LET body == [provider |-> p, subject |-> s, level |-> level, expires |-> expires]
    IN /\ held' = held \cup {[body |-> body, sig |-> body]}
       /\ said' = said \cup {body}
       /\ UNCHANGED second

(* Revocation is left to the caller, and no caller is in the repository. *)
verify_attestation(a, t) ==
    /\ a.body.expires # 0 => t < a.body.expires
    /\ a.sig = a.body

Qualifying(line, s, t) ==
    {a \in held : /\ a.body.subject = s /\ a.body.provider = line.key
                  /\ a.body.level >= line.min_level
                  /\ verify_attestation(a, t)}

(* Mutant: every attestation counts. *)
ScorePerAttestation(providers, s, t) ==
    LET upto[n \in 0..Len(providers)] ==
            IF n = 0 THEN 0
            ELSE upto[n - 1] + providers[n].weight * Cardinality(Qualifying(providers[n], s, t))
    IN upto[Len(providers)]

score(providers, s, t) ==
    LET upto[n \in 0..Len(providers)] ==
            IF n = 0 THEN 0
            ELSE upto[n - 1] + (IF Qualifying(providers[n], s, t) # {} THEN providers[n].weight ELSE 0)
    IN upto[Len(providers)]

is_trusted(policy, s, t) == score(policy.providers, s, t) >= policy.threshold

max_level(t) ==
    LET levels == {0} \cup {a.body.level : a \in {x \in held : verify_attestation(x, t)}}
    IN CHOOSE l \in levels : \A k \in levels : k <= l

(* external: a copy whose level is not the one that was signed *)
alter(a, level) ==
    /\ held' = held \cup {[a EXCEPT !.body.level = level]}
    /\ UNCHANGED <<said, second>>

(* external: a second passes *)
pass ==
    /\ second < LastSecond
    /\ second' = second + 1
    /\ UNCHANGED <<held, said>>

TrustInit == held = {} /\ said = {} /\ second = 1

TrustNext ==
    \/ /\ Cardinality(held) < MaxHeld   \* model bound
       /\ \/ \E p \in Attestors, s \in Subjects, l \in Levels, x \in Expiries :
                 issue_attestation(p, s, l, x)
          \/ \E a \in held, l \in Levels : alter(a, l)
    \/ pass

TrustSpec == TrustInit /\ [][TrustNext]_trustVars
-----------------------------------------------------------------------------
(* Properties *)

(* The providers of a policy that stand behind s at time t. *)
Behind(policy, s, t) ==
    {line.key : line \in
        {policy.providers[i] : i \in {j \in 1..Len(policy.providers) :
            \E b \in said : /\ b.subject = s /\ b.provider = policy.providers[j].key
                            /\ b.level >= policy.providers[j].min_level
                            /\ b.expires # 0 => t < b.expires}}}

(* "Each trusted provider counts at most once ..., so a node can't inflate
   trust by holding many attestations from the same provider": under a policy
   that names each provider once and weighs them alike, a subject is trusted
   exactly when enough providers signed that they verified it, however many
   attestations it holds and whatever became of their copies; and the level a
   relying party reads is one a provider signed. *)
TrustIsEarned ==
    /\ \A policy \in TrustPolicies, s \in Subjects :
        LET unit == policy.providers[1].weight
        IN is_trusted(policy, s, second)
               <=> unit * Cardinality(Behind(policy, s, second)) >= policy.threshold
    /\ max_level(second) # 0 =>
        \E b \in said : b.level = max_level(second) /\ (b.expires # 0 => second < b.expires)
=============================================================================
