------------------------------- MODULE Grant --------------------------------
(* Minting, re-issuing, attenuating and verifying capability chains          *)
(* (crates/ce-iam/src/grant.rs over the external crate ce-cap).              *)
(*                                                                           *)
(* The service keeps no database: the state is the set of chains its callers *)
(* have been handed so far.  A chain is a sequence of links, root first.  A  *)
(* link's hash (its id) is modelled by the link itself, which is what a      *)
(* collision-free hash amounts to; signatures are valid because only the     *)
(* operations below make links.                                              *)
EXTENDS Policy, Functions

CONSTANTS
    SelfTags,       \* SelfTags[n]: the tags node n advertises
    accepted_roots, \* keys a verifier honors besides its own
    Policies,       \* the documents callers hand in
    Nonces,         \* the nonces callers choose
    Times,          \* the times at which a verifier is asked
    RevocationViews,\* the revocation sets a verifier may be working from
    MaxNonce,       \* the largest nonce (2^64 - 1 in the code)
    MaxChainDepth,  \* max_chain_depth: what guarded_decode lets through
    MaxGrants,      \* model bound: how many chains exist
    MaxLinks        \* model bound: how long a chain gets

ASSUME GrantAssumption ==
    /\ SelfTags \in [Ids -> SUBSET Tags]
    /\ accepted_roots \subseteq Ids
    /\ Nonces \subseteq Nat
    /\ Times \subseteq Nat
    /\ MaxNonce \in Nat
    /\ MaxChainDepth \in Nat
    /\ MaxGrants \in Nat /\ MaxLinks \in Nat

ASSUME PoliciesAssumption ==
    \A p \in Policies :
        /\ IsFiniteSet(p)
        /\ \A s \in p :
            /\ s.effect \in {"Allow", "Deny"}
            /\ s.actions \subseteq ActionString
            /\ s.resource \in ResourceMatch
            /\ s.conditions.not_before \in Nat \cup {None}
            /\ s.conditions.not_after \in Nat \cup {None}
            /\ s.conditions.uses = None \/ s.conditions.uses \subseteq Uses

VARIABLE grants

vars == grants

Leaf(c) == c[Len(c)]

(* The authority part of a link. *)
ScopeOf(l) == [abilities |-> l.abilities, resource |-> l.resource, caveats |-> l.caveats]
-----------------------------------------------------------------------------
(* external: ce-cap *)

id(l) == l

issue(issuer, audience, sc, nonce, parent) ==
    [issuer |-> issuer, audience |-> audience, abilities |-> sc.abilities,
     resource |-> sc.resource, caveats |-> sc.caveats, nonce |-> nonce,
     parent |-> parent]

is_subset_of(child, parent) ==
    /\ parent.node \in {AnyNode, child.node}
    /\ parent.tags \subseteq child.tags

is_narrower_or_equal(child, parent) ==
    /\ parent.not_before <= child.not_before
    /\ \/ parent.not_after = 0
       \/ child.not_after # 0 /\ child.not_after <= parent.not_after
    /\ child.uses \subseteq parent.uses

NoBroader(child, parent) ==
    /\ child.abilities \subseteq parent.abilities
    /\ is_subset_of(child.resource, parent.resource)
    /\ is_narrower_or_equal(child.caveats, parent.caveats)

authorize(selfId, now, requester, action, c, revoked) ==
    /\ c[1].issuer \in {selfId} \cup accepted_roots
    /\ \A i \in 1..Len(c) :
        /\ in_window(c[i].caveats, now)
        /\ <<c[i].issuer, c[i].nonce>> \notin revoked
        /\ matches(c[i].resource, selfId, SelfTags[selfId])
    /\ \A i \in 1..(Len(c) - 1) :
        /\ c[i + 1].issuer = c[i].audience
        /\ c[i + 1].parent = id(c[i])
        /\ NoBroader(c[i + 1], c[i])
    /\ Leaf(c).audience = requester
    /\ action \in Leaf(c).abilities
-----------------------------------------------------------------------------
(* Verification and inspection: pure, offline *)

guarded_decode(c) == Len(c) \in 1..MaxChainDepth

verify(selfId, now, requester, action, c, revoked) ==
    /\ guarded_decode(c)
    /\ authorize(selfId, now, requester, action, c, revoked)

(* Mutant: the summary shows the root's scope instead of the leaf's. *)
InspectRoot(c) ==
    [root_issuer |-> c[1].issuer, audience |-> Leaf(c).audience, depth |-> Len(c),
     abilities |-> c[1].abilities, resource |-> c[1].resource,
     not_after |-> c[1].caveats.not_after]

inspect_chain(c) ==
    [root_issuer |-> c[1].issuer, audience |-> Leaf(c).audience, depth |-> Len(c),
     abilities |-> Leaf(c).abilities, resource |-> Leaf(c).resource,
     not_after |-> Leaf(c).caveats.not_after]
-----------------------------------------------------------------------------
(* Operations *)

Hand(cs) ==
    /\ Cardinality(grants \cup cs) <= MaxGrants
    /\ grants' = grants \cup cs

mint(issuer, audience, p, nonce) ==
    /\ compile_ok(p)
    /\ Hand({<<issue(issuer, audience, compile(p), nonce, None)>>})

(* One root grant per scope, nonces base, base + 1, ... in the order of the
   scope keys; an overflowing range is an error and nothing is handed out. *)
mint_policy(issuer, audience, p, base) ==
    /\ compile_scopes_ok(p)
    /\ LET n == Cardinality(ScopeKeys(p))
       IN /\ base + n - 1 <= MaxNonce
          /\ \E rank \in Bijection(ScopeKeys(p), 0..(n - 1)) :
               Hand({<<issue(issuer, audience, CompileScope(p, k), base + rank[k], None)>>
                        : k \in ScopeKeys(p)})

reissue_under(newRoot, g, nonce) ==
    /\ Len(g) = 1
    /\ Leaf(g).parent = None
    /\ Hand({<<issue(newRoot, Leaf(g).audience, ScopeOf(Leaf(g)), nonce, None)>>})

(* Mutant: the new link is compared with the root grant, not with the leaf it
   extends. *)
AttenuateAgainstRoot(holder, g, audience, p, nonce) ==
    /\ Leaf(g).audience = holder
    /\ compile_ok(p)
    /\ NoBroader(compile(p), g[1])
    /\ Hand({Append(g, issue(holder, audience, compile(p), nonce, id(Leaf(g))))})

attenuate(holder, g, audience, p, nonce) ==
    /\ Leaf(g).audience = holder
    /\ compile_ok(p)
    /\ NoBroader(compile(p), Leaf(g))
    /\ Hand({Append(g, issue(holder, audience, compile(p), nonce, id(Leaf(g))))})

Init == grants = {}

(* MaxGrants and MaxLinks bound what is handed out, not what the code allows. *)
Next ==
    /\ Cardinality(grants) < MaxGrants
    /\ \E i, a \in Ids, n \in Nonces :
        \/ \E p \in Policies : mint(i, a, p, n)
        \/ \E p \in Policies : mint_policy(i, a, p, n)
        \/ \E g \in grants : reissue_under(i, g, n)
        \/ \E g \in grants, p \in Policies :
              Len(g) < MaxLinks /\ attenuate(i, g, a, p, n)

Spec == Init /\ [][Next]_vars
-----------------------------------------------------------------------------
(* Properties *)

IsLink(l) ==
    /\ l.issuer \in Ids /\ l.audience \in Ids /\ l.nonce \in Nat
    /\ l.abilities \in SUBSET Actions
    /\ l.resource \in Resource
    /\ l.caveats.not_before \in Nat /\ l.caveats.not_after \in Nat
    /\ l.caveats.uses \in SUBSET Uses

(* Type invariant: every chain handed out is a non-empty sequence of links,
   and a link's abilities are literal actions (the verifier never sees a
   wildcard). *)
TypeOK ==
    \A c \in grants :
        /\ c \in Seq(Range(c)) /\ Len(c) # 0
        /\ \A i \in 1..Len(c) : IsLink(c[i])

(* Each link was issued by the holder of the link above it, names that link,
   and is no broader than any link above it. *)
Chained ==
    \A c \in grants :
        /\ \A i \in 1..(Len(c) - 1) :
            c[i + 1].issuer = c[i].audience /\ c[i + 1].parent = id(c[i])
        /\ \A i, j \in 1..Len(c) : i <= j => NoBroader(c[j], c[i])

(* "Authority can only ever narrow": whatever the last link of a chain lets
   its holder do - an action, on a node, at a time, as a use - every link
   above it lets its own holder do.  Iam::attenuate compares the new link
   with the leaf only, so this needs the comparison to be transitive. *)
AttenuationNeverBroadens ==
    \A c \in grants : \A i \in 1..Len(c) :
        \A a \in Actions, n \in Ids, t \in Times, u \in Uses :
            Permits(ScopeOf(Leaf(c)), a, n, SelfTags[n], t, u)
                => Permits(ScopeOf(c[i]), a, n, SelfTags[n], t, u)

(* Iam::verify on a chain this library made, at node n and time t for
   requester q: the summary s that Iam::inspect shows decides it, together with
   the root being honored, the leaf having started and no link being revoked. *)
LeafDecidesFor(s, c, n, t, q, a, revoked) ==
    verify(n, t, q, a, c, revoked)
      <=> /\ s.root_issuer \in {n} \cup accepted_roots
          /\ q = s.audience
          /\ a \in s.abilities
          /\ matches(s.resource, n, SelfTags[n])
          /\ Leaf(c).caveats.not_before <= t
          /\ s.not_after = 0 \/ t <= s.not_after
          /\ \A i \in 1..Len(c) : <<c[i].issuer, c[i].nonce>> \notin revoked

(* What a human reads in the summary is what a verifier enforces, for every
   chain within the depth limit: no link above the leaf ever makes the
   verifier refuse what the summary promises, and none makes it allow more. *)
LeafDecides ==
    \A c \in grants : Len(c) <= MaxChainDepth =>
        LET s == inspect_chain(c)
        IN \A n, q \in Ids, t \in Times, a \in Actions, revoked \in RevocationViews :
               LeafDecidesFor(s, c, n, t, q, a, revoked)
=============================================================================
