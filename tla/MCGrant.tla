------------------------------ MODULE MCGrant -------------------------------
(* Instances of PolicyDocument and Grant.  An instance either writes a       *)
(* document, statement by statement, so that every document of at most       *)
(* MaxStatements statements from MCLibrary is compiled and compared with its *)
(* meaning; or it is a small organisation: org mints, alice and bob hold and *)
(* delegate.  The documents of the organisation differ from each other in    *)
(* one dimension at a time, so that each of the attenuation checks decides   *)
(* some delegation.  The attestations of Trust, which no grant depends on,   *)
(* are a third kind.                                                         *)
EXTENDS Grant, PolicyDocument, Trust, TLC

CONSTANTS org, alice, bob, gpu, linux, read, write, admin,
          star, starRead, starTypo, small, large, eid, social

MCIds == {org, alice, bob}
MCTags == {gpu, linux}
MCActions == {read, write, admin}
MCUniverse == {read, write}          \* admin is known only as a literal
MCPatterns == {star, starRead, starTypo}
MCCovers == star :> MCActions @@ starRead :> {read} @@ starTypo :> {}
MCUses == {small, large}
MCSelfTags == org :> {} @@ alice :> {gpu} @@ bob :> {gpu, linux}
MCRoots == {org}
MCTimes == {0, 1, 2, 4}
MCRevocationViews == {{<<org, 1>>}, {<<alice, 1>>}}

AnyR == [kind |-> "any", node |-> AnyNode, tags |-> {}]
NodeR(n) == [kind |-> "node", node |-> n, tags |-> {}]
TagR(ts) == [kind |-> "tag", node |-> AnyNode, tags |-> ts]
AllOfR(ts) == [kind |-> "all_of", node |-> AnyNode, tags |-> ts]
Cond(nb, na, us) == [not_before |-> nb, not_after |-> na, uses |-> us]
Unconditional == Cond(None, None, None)
Allow(as, r, c) == [effect |-> "Allow", actions |-> as, resource |-> r, conditions |-> c]

Everything == Allow({star}, AnyR, Unconditional)
OnGpu      == Allow({star}, TagR({gpu}), Unconditional)
OnGpuLinux == Allow({read}, AllOfR({gpu, linux}), Cond(1, 2, None))
OnBob      == Allow({read}, NodeR(bob), Cond(2, None, {small}))
ReadUntil2 == Allow({read}, AnyR, Cond(None, 2, {small}))
Refused    == [Everything EXCEPT !.effect = "Deny"]

MCPolicies == {{Everything}, {OnGpu}, {OnGpuLinux}, {OnBob}, {ReadUntil2},
               {OnGpu, OnBob}, {Everything, Refused}, {}}

MCLibrary ==
    [effect : {"Allow", "Deny"},
     actions : {{}, {read}, {star}, {starRead, admin}, {starTypo, read}, {Blank}},
     resource : {AnyR, NodeR(alice), NodeR(BadHex), TagR({gpu}), AllOfR({}),
                 AllOfR({gpu, linux})},
     conditions : {Unconditional, Cond(1, 2, None), Cond(None, 0, {small})}]

Provider(k, l) == [key |-> k, weight |-> 1, min_level |-> l]
MCTrustPolicies ==
    [providers : {<<Provider(eid, 3), Provider(social, 1)>>}, threshold : {1, 2}]

MCInit == Init /\ DocInit /\ TrustInit
MCNext ==
    \/ grants = {} /\ held = {} /\ second = 1 /\ Author /\ UNCHANGED <<grants, trustVars>>
    \/ doc = {} /\ held = {} /\ second = 1 /\ Next /\ UNCHANGED <<doc, trustVars>>
    \/ grants = {} /\ doc = {} /\ TrustNext /\ UNCHANGED <<grants, doc>>
MCSpec == MCInit /\ [][MCNext]_<<grants, doc, trustVars>>
=============================================================================
