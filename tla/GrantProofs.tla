----------------------------- MODULE GrantProofs ----------------------------
(* Proofs about documents, the capabilities they compile to, the chains of   *)
(* links that carry them, and the attestations a verifier may also ask for.  *)
(*                                                                           *)
(* Documents.  The scope, or the scopes, a policy document compiles to mean  *)
(* exactly what the document means: for every document, every action, node,  *)
(* self-tags, time and use.                                                  *)
(*                                                                           *)
(* Chains.  For every set of identities, actions, tags, documents, nonces    *)
(* and times, what a chain grants its root granted, link by link.            *)
(*                                                                           *)
(* Trust.  A score adds up what each provider of a policy earns, so it is    *)
(* computed by induction over the list of providers (Induction): the common  *)
(* weight times the number of providers that stand behind a subject.         *)
EXTENDS Grant, PolicyDocument, Trust, FiniteSetTheorems, Induction
-----------------------------------------------------------------------------
(* Documents *)

(* expand_actions: literal actions and expanded wildcards together are the
   actions some statement of the scope spells. *)
LEMMA ExpansionSpells ==
    ASSUME NEW S \in SUBSET Statement, NEW a \in Actions
    PROVE  a \in expand_actions(StatementActions(S)) <=> \E s \in S : Spells(s, a)
<1>1. a \notin Patterns
  BY PolicyAssumption
<1>2. ASSUME a \in expand_actions(StatementActions(S))
      PROVE  \E s \in S : Spells(s, a)
  <2>1. PICK s \in S : \E x \in s.actions : a \in Expansion(x)
    BY <1>2 DEF expand_actions, StatementActions
  <2>2. PICK x \in s.actions : a \in Expansion(x)
    BY <2>1
  <2>3. CASE x \in Patterns
    <3>1. a \in Covers[x] /\ a \in Universe
      BY <2>2, <2>3 DEF Expansion
    <3> QED BY <2>3, <3>1 DEF Spells
  <2>4. CASE x \notin Patterns
    <3>1. a = x
      BY <2>2, <2>4 DEF Expansion
    <3> QED BY <3>1 DEF Spells
  <2> QED BY <2>3, <2>4
<1>3. ASSUME NEW s \in S, Spells(s, a)
      PROVE  a \in expand_actions(StatementActions(S))
  <2>1. \A x \in s.actions : x \in StatementActions(S)
    BY DEF StatementActions
  <2>2. CASE a \in s.actions
    <3>1. a \in Expansion(a)
      BY <1>1 DEF Expansion
    <3> QED BY <2>1, <2>2, <3>1 DEF expand_actions
  <2>3. CASE a \in Universe /\ \E w \in s.actions \cap Patterns : a \in Covers[w]
    <3>1. PICK w \in s.actions \cap Patterns : a \in Covers[w]
      BY <2>3
    <3>2. a \in Expansion(w)
      BY <2>3, <3>1 DEF Expansion
    <3> QED BY <2>1, <3>2 DEF expand_actions
  <2> QED BY <1>3, <2>2, <2>3 DEF Spells
<1> QED BY <1>2, <1>3

(* to_cap_resource: a resource match that is accepted names the nodes the
   capability's resource matches. *)
LEMMA ResourceExact ==
    ASSUME NEW rm \in ResourceMatch, resource_ok(rm),
           NEW n \in Ids, NEW selfTags \in SUBSET Tags
    PROVE  matches(to_cap_resource(rm), n, selfTags) <=> NamesNode(rm, n, selfTags)
<1>1. /\ AnyNode # n /\ AnyNode \notin Ids
      /\ to_cap_resource(rm).node = rm.node
      /\ to_cap_resource(rm).tags = rm.tags
  BY PolicyAssumption DEF to_cap_resource
<1>2. CASE rm.kind = "any"
  <2>1. rm.node = AnyNode /\ rm.tags = {}
    BY <1>2 DEF ResourceMatch
  <2> QED BY <1>1, <1>2, <2>1 DEF matches, NamesNode
<1>3. CASE rm.kind = "node"
  <2>1. rm.node \in Ids /\ rm.tags = {}
    BY <1>3 DEF ResourceMatch, resource_ok
  <2> QED BY <1>1, <1>3, <2>1 DEF matches, NamesNode
<1>4. CASE rm.kind \in {"tag", "all_of"}
  <2>1. rm.node = AnyNode /\ rm.tags # {}
    BY <1>4 DEF ResourceMatch, resource_ok
  <2> QED BY <1>1, <1>4, <2>1 DEF matches, NamesNode
<1> QED BY <1>2, <1>3, <1>4 DEF ResourceMatch

(* to_caveats: an absent bound becomes 0, which the verifier reads as none. *)
LEMMA CaveatsExact ==
    ASSUME NEW c \in Conditions, NEW t \in Nat, NEW u \in Uses
    PROVE  (in_window(to_caveats(c), t) /\ u \in to_caveats(c).uses)
             <=> (DuringConditions(c, t) /\ (c.uses # None => u \in c.uses))
<1>1. /\ c.not_before \in Nat \cup {None}
      /\ c.not_after \in Nat \cup {None}
      /\ None \notin Nat
  BY PolicyAssumption DEF Conditions
<1>2. /\ to_caveats(c).not_before = IF c.not_before = None THEN 0 ELSE c.not_before
      /\ to_caveats(c).not_after = IF c.not_after = None THEN 0 ELSE c.not_after
      /\ to_caveats(c).uses = IF c.uses = None THEN Uses ELSE c.uses
  BY DEF to_caveats
<1>3. u \in to_caveats(c).uses <=> (c.uses # None => u \in c.uses)
  BY <1>2
<1>4. in_window(to_caveats(c), t) <=> DuringConditions(c, t)
  BY <1>1, <1>2 DEF in_window, DuringConditions
<1> QED BY <1>3, <1>4

(* One scope permits what some statement of its group concerns. *)
LEMMA ScopeExact ==
    ASSUME NEW p \in SUBSET Statement, NEW k \in ScopeKeys(p), ScopeOk(p, k),
           NEW a \in Actions, NEW n \in Ids, NEW selfTags \in SUBSET Tags,
           NEW t \in Nat, NEW u \in Uses
    PROVE  Permits(CompileScope(p, k), a, n, selfTags, t, u)
             <=> \E s \in InScope(p, k) : Concerns(s, a, n, selfTags, t, u)
<1>1. k.resource \in ResourceMatch /\ k.conditions \in Conditions
  BY DEF ScopeKeys, allows, ScopeKey, Statement
<1>2. /\ InScope(p, k) \in SUBSET Statement
      /\ \A s \in InScope(p, k) : s.resource = k.resource /\ s.conditions = k.conditions
  BY DEF InScope, allows, ScopeKey
<1>3. a \in CompileScope(p, k).abilities <=> \E s \in InScope(p, k) : Spells(s, a)
  BY <1>2, ExpansionSpells DEF CompileScope
<1>4. matches(CompileScope(p, k).resource, n, selfTags) <=> NamesNode(k.resource, n, selfTags)
  <2>1. resource_ok(k.resource)
    BY DEF ScopeOk
  <2> QED BY <1>1, <2>1, ResourceExact DEF CompileScope
<1>5. (in_window(CompileScope(p, k).caveats, t) /\ u \in CompileScope(p, k).caveats.uses)
        <=> (DuringConditions(k.conditions, t)
               /\ (k.conditions.uses # None => u \in k.conditions.uses))
  BY <1>1, CaveatsExact DEF CompileScope
<1>6. \A s \in InScope(p, k) : Concerns(s, a, n, selfTags, t, u)
        <=> /\ Spells(s, a)
            /\ NamesNode(k.resource, n, selfTags)
            /\ DuringConditions(k.conditions, t)
            /\ k.conditions.uses # None => u \in k.conditions.uses
  BY <1>2 DEF Concerns
<1> QED BY <1>3, <1>4, <1>5, <1>6 DEF Permits

(* A document without a Deny grants what its Allow statements concern. *)
LEMMA GrantsWithoutDeny ==
    ASSUME NEW p \in SUBSET Statement, ~HasDeny(p),
           NEW a, NEW n, NEW selfTags, NEW t, NEW u
    PROVE  Grants(p, a, n, selfTags, t, u)
             <=> \E k \in ScopeKeys(p) :
                    \E s \in InScope(p, k) : Concerns(s, a, n, selfTags, t, u)
<1>1. Grants(p, a, n, selfTags, t, u)
        <=> \E s \in allows(p) : Concerns(s, a, n, selfTags, t, u)
  BY DEF Grants, HasDeny, allows
<1>2. \A s \in allows(p) : ScopeKey(s) \in ScopeKeys(p) /\ s \in InScope(p, ScopeKey(s))
  BY DEF ScopeKeys, InScope
<1>3. \A k \in ScopeKeys(p) : InScope(p, k) \subseteq allows(p)
  BY DEF InScope
<1> QED BY <1>1, <1>2, <1>3

(* Iam::mint: a document that compiles to one capability compiles to exactly
   its meaning - nothing is widened, and nothing is lost. *)
THEOREM CompileIsExact ==
    ASSUME NEW p \in SUBSET Statement, compile_ok(p),
           NEW a \in Actions, NEW n \in Ids, NEW selfTags \in SUBSET Tags,
           NEW t \in Nat, NEW u \in Uses
    PROVE  Permits(compile(p), a, n, selfTags, t, u) <=> Grants(p, a, n, selfTags, t, u)
<1>1. PICK k \in ScopeKeys(p) : ScopeKeys(p) = {k} /\ ScopeOk(p, k)
  BY DEF compile_ok
<1>2. compile(p) = CompileScope(p, k)
  BY <1>1 DEF compile
<1>3. Permits(CompileScope(p, k), a, n, selfTags, t, u)
        <=> \E s \in InScope(p, k) : Concerns(s, a, n, selfTags, t, u)
  BY <1>1, ScopeExact
<1>4. Grants(p, a, n, selfTags, t, u)
        <=> \E s \in InScope(p, k) : Concerns(s, a, n, selfTags, t, u)
  BY <1>1, GrantsWithoutDeny DEF compile_ok
<1> QED BY <1>2, <1>3, <1>4

(* Iam::mint_policy: the capabilities a document with several scopes compiles
   to permit together exactly its meaning - no scope leaks its actions into
   another, and no scope is lost. *)
THEOREM ScopesAreExact ==
    ASSUME NEW p \in SUBSET Statement, compile_scopes_ok(p),
           NEW a \in Actions, NEW n \in Ids, NEW selfTags \in SUBSET Tags,
           NEW t \in Nat, NEW u \in Uses
    PROVE  (\E sc \in compile_scopes(p) : Permits(sc, a, n, selfTags, t, u))
             <=> Grants(p, a, n, selfTags, t, u)
<1>1. \A k \in ScopeKeys(p) :
        Permits(CompileScope(p, k), a, n, selfTags, t, u)
          <=> \E s \in InScope(p, k) : Concerns(s, a, n, selfTags, t, u)
  BY ScopeExact DEF compile_scopes_ok
<1>2. Grants(p, a, n, selfTags, t, u)
        <=> \E k \in ScopeKeys(p) :
               \E s \in InScope(p, k) : Concerns(s, a, n, selfTags, t, u)
  BY GrantsWithoutDeny DEF compile_scopes_ok
<1> QED BY <1>1, <1>2 DEF compile_scopes

(* What an author writes from a library of statements is a document. *)
LEMMA DocInvariant == DocSpec => [](doc \in SUBSET Statement)
<1>1. DocInit => doc \in SUBSET Statement
  BY DEF DocInit
<1>2. doc \in SUBSET Statement /\ [Author]_doc => (doc \in SUBSET Statement)'
  BY DocumentAssumption DEF Author
<1> QED BY <1>1, <1>2, PTL DEF DocSpec

(* Iam::mint gives exactly what the document says, whatever the library. *)
THEOREM MintGivesWhatIsWritten == DocSpec => []CompileFaithful
<1>1. doc \in SUBSET Statement => CompileFaithful
  BY DocumentAssumption, CompileIsExact DEF CompileFaithful
<1> QED BY <1>1, DocInvariant, PTL

(* Iam::mint_policy gives exactly what the document says, whatever the library. *)
THEOREM MintPolicyGivesWhatIsWritten == DocSpec => []ScopesFaithful
<1>1. doc \in SUBSET Statement => ScopesFaithful
  BY DocumentAssumption, ScopesAreExact DEF ScopesFaithful
<1> QED BY <1>1, DocInvariant, PTL

(* No action string of a document that compiles is silently dropped. *)
THEOREM TyposAreRefused == DocSpec => []NoSilentTypo
<1>1. ASSUME doc \in SUBSET Statement, compile_scopes_ok(doc),
             NEW s \in doc, NEW x \in s.actions
      PROVE  \E a \in CompileScope(doc, ScopeKey(s)).abilities :
                 Spells([s EXCEPT !.actions = {x}], a)
  <2>1. s \in InScope(doc, ScopeKey(s)) /\ ScopeKey(s) \in ScopeKeys(doc)
    BY <1>1 DEF compile_scopes_ok, HasDeny, allows, InScope, ScopeKeys, Statement
  <2>2. x \in StatementActions(InScope(doc, ScopeKey(s)))
    BY <2>1 DEF StatementActions
  <2>3. Expansion(x) # {}
    BY <1>1, <2>1, <2>2 DEF compile_scopes_ok, ScopeOk, expand_ok
  <2>4. PICK a \in Expansion(x) : TRUE
    BY <2>3
  <2>5. a \in CompileScope(doc, ScopeKey(s)).abilities
    BY <2>2, <2>4 DEF CompileScope, expand_actions
  <2>6. [s EXCEPT !.actions = {x}].actions = {x}
    BY <1>1 DEF Statement
  <2>7. Spells([s EXCEPT !.actions = {x}], a)
    BY <2>4, <2>6 DEF Spells, Expansion
  <2> QED BY <2>5, <2>7
<1>2. doc \in SUBSET Statement => NoSilentTypo
  BY <1>1 DEF NoSilentTypo
<1> QED BY <1>2, DocInvariant, PTL
-----------------------------------------------------------------------------
(* Chains *)

(* Appending a link keeps the links already there and adds one at the end. *)
LEMMA AppendChain ==
    ASSUME NEW g, g \in Seq(Range(g)), NEW l, Len(g) # 0
    PROVE  /\ Append(g, l) \in Seq(Range(Append(g, l)))
           /\ Len(Append(g, l)) = Len(g) + 1
           /\ Len(g) \in Nat \ {0}
           /\ \A i \in 1..Len(g) : Append(g, l)[i] = g[i]
           /\ Append(g, l)[Len(g) + 1] = l
<1> DEFINE S == Range(g) \cup {l}
           c == Append(g, l)
<1>1. g \in Seq(S)
  OBVIOUS
<1>2. /\ c \in Seq(S)
      /\ Len(c) = Len(g) + 1
      /\ Len(g) \in Nat \ {0}
      /\ \A i \in 1..Len(g) : c[i] = g[i]
      /\ c[Len(g) + 1] = l
  BY <1>1
<1> HIDE DEF c
<1>3. c \in [1..Len(c) -> Range(c)]
  <2>1. c \in [1..Len(c) -> S]
    BY <1>2
  <2>2. \A i \in 1..Len(c) : c[i] \in Range(c)
    BY <2>1 DEF Range
  <2> QED BY <2>1, <2>2
<1>4. c \in Seq(Range(c))
  BY <1>2, <1>3
<1> QED BY <1>2, <1>4 DEF c

(* A one-link chain is a chain. *)
LEMMA SingletonChain ==
    ASSUME NEW l
    PROVE  /\ <<l>> \in Seq(Range(<<l>>))
           /\ Len(<<l>>) = 1
           /\ <<l>>[1] = l
<1>1. <<l>> \in Seq({l}) /\ Len(<<l>>) = 1 /\ <<l>>[1] = l
  OBVIOUS
<1>2. Range(<<l>>) = {l}
  BY <1>1 DEF Range
<1> QED BY <1>1, <1>2
-----------------------------------------------------------------------------
(* The comparisons of ce-cap are sound and transitive. *)

LEMMA WindowNarrows ==
    ASSUME NEW c, NEW p, NEW t \in Nat,
           c.not_before \in Nat, p.not_before \in Nat,
           c.not_after \in Nat, p.not_after \in Nat,
           is_narrower_or_equal(c, p), in_window(c, t)
    PROVE  in_window(p, t)
BY DEF is_narrower_or_equal, in_window

LEMMA MatchNarrows ==
    ASSUME NEW c \in Resource, NEW p \in Resource, NEW n, NEW ts,
           is_subset_of(c, p), matches(c, n, ts)
    PROVE  matches(p, n, ts)
BY DEF is_subset_of, matches

LEMMA NoBroaderTransitive ==
    ASSUME NEW a, NEW b, NEW c, IsLink(a), IsLink(b), IsLink(c),
           NoBroader(a, b), NoBroader(b, c)
    PROVE  NoBroader(a, c)
<1>1. a.abilities \subseteq c.abilities
  BY DEF NoBroader
<1>2. is_subset_of(a.resource, c.resource)
  BY DEF NoBroader, is_subset_of
<1>3. is_narrower_or_equal(a.caveats, c.caveats)
  BY DEF NoBroader, is_narrower_or_equal, IsLink
<1> QED BY <1>1, <1>2, <1>3 DEF NoBroader

LEMMA NoBroaderReflexive ==
    ASSUME NEW a, IsLink(a)
    PROVE  NoBroader(a, a)
BY DEF NoBroader, is_subset_of, is_narrower_or_equal, IsLink
-----------------------------------------------------------------------------
(* What the compiler returns is a scope. *)

LEMMA ExpansionTyped ==
    ASSUME NEW ss \in SUBSET ActionString, expand_ok(ss)
    PROVE  expand_actions(ss) \in SUBSET Actions
BY PolicyAssumption DEF expand_ok, expand_actions, Expansion, ActionString

LEMMA CompileScopeTyped ==
    ASSUME NEW p \in Policies, NEW k \in ScopeKeys(p), ScopeOk(p, k),
           NEW i \in Ids, NEW a \in Ids, NEW n \in Nat, NEW parent
    PROVE  IsLink(issue(i, a, CompileScope(p, k), n, parent))
<1> DEFINE sc == CompileScope(p, k)
<1>1. PICK s \in allows(p) : k = ScopeKey(s)
  BY DEF ScopeKeys
<1>2. /\ s \in p
      /\ s.resource \in ResourceMatch
      /\ s.conditions.not_before \in Nat \cup {None}
      /\ s.conditions.not_after \in Nat \cup {None}
      /\ s.conditions.uses = None \/ s.conditions.uses \subseteq Uses
  BY <1>1, PoliciesAssumption DEF allows
<1>3. StatementActions(InScope(p, k)) \in SUBSET ActionString
  BY PoliciesAssumption DEF StatementActions, InScope, allows
<1>4. sc.abilities \in SUBSET Actions
  BY <1>3, ExpansionTyped DEF CompileScope, ScopeOk
<1>5. sc.resource \in Resource
  <2>1. k.resource = s.resource /\ resource_ok(s.resource)
    BY <1>1 DEF ScopeKey, ScopeOk
  <2>2. /\ s.resource.node \in Ids \cup {AnyNode}
        /\ s.resource.tags \in SUBSET Tags
    BY <1>2, <2>1 DEF ResourceMatch, resource_ok
  <2> QED BY <2>1, <2>2 DEF CompileScope, to_cap_resource, Resource
<1>6. k.conditions = s.conditions
  BY <1>1 DEF ScopeKey
<1>7. /\ sc.caveats.not_before \in Nat
      /\ sc.caveats.not_after \in Nat
      /\ sc.caveats.uses \in SUBSET Uses
  BY <1>2, <1>6 DEF CompileScope, to_caveats
<1> QED BY <1>4, <1>5, <1>7 DEF issue, IsLink

LEMMA CompileTyped ==
    ASSUME NEW p \in Policies, compile_ok(p),
           NEW i \in Ids, NEW a \in Ids, NEW n \in Nat, NEW parent
    PROVE  IsLink(issue(i, a, compile(p), n, parent))
<1>1. PICK k \in ScopeKeys(p) : ScopeKeys(p) = {k} /\ ScopeOk(p, k)
  BY DEF compile_ok
<1>2. compile(p) = CompileScope(p, k)
  BY <1>1 DEF compile
<1> QED BY <1>1, <1>2, CompileScopeTyped
-----------------------------------------------------------------------------
(* The inductive invariant.  Chained is needed because Iam::attenuate        *)
(* compares a new link with the leaf alone: that the leaf is no broader than *)
(* the links above it has to be carried along.                               *)
IInv == TypeOK /\ Chained

(* A chain of one link satisfies the invariant. *)
LEMMA RootChainOK ==
    ASSUME IInv, NEW cs, Hand(cs),
           \A c \in cs : \E m : IsLink(m) /\ c = <<m>>
    PROVE  IInv'
<1> SUFFICES ASSUME NEW c \in grants'
             PROVE  /\ c \in Seq(Range(c)) /\ Len(c) # 0
                    /\ \A i \in 1..Len(c) : IsLink(c[i])
                    /\ \A i \in 1..(Len(c) - 1) :
                         c[i + 1].issuer = c[i].audience /\ c[i + 1].parent = id(c[i])
                    /\ \A i, j \in 1..Len(c) : i <= j => NoBroader(c[j], c[i])
  BY DEF IInv, TypeOK, Chained
<1>1. CASE c \in grants
  BY <1>1 DEF IInv, TypeOK, Chained
<1>2. CASE c \in cs
  <2>1. PICK m : IsLink(m) /\ c = <<m>>
    BY <1>2
  <2>2. c \in Seq(Range(c)) /\ Len(c) = 1 /\ c[1] = m
    BY <2>1, SingletonChain
  <2>3. NoBroader(m, m)
    BY <2>1, NoBroaderReflexive
  <2>4. 1..Len(c) = {1} /\ 1..(Len(c) - 1) = {}
    BY <2>2
  <2> QED BY <2>1, <2>2, <2>3, <2>4
<1> QED BY <1>1, <1>2 DEF Hand

(* Extending a chain by a link its leaf's holder issued, no broader than the
   leaf, satisfies the invariant. *)
LEMMA ExtendedChainOK ==
    ASSUME IInv, NEW g \in grants, NEW l, IsLink(l),
           l.issuer = Leaf(g).audience, l.parent = id(Leaf(g)),
           NoBroader(l, Leaf(g)), Hand({Append(g, l)})
    PROVE  IInv'
<1> DEFINE c == Append(g, l)
<1>1. /\ g \in Seq(Range(g)) /\ Len(g) # 0
      /\ \A i \in 1..Len(g) : IsLink(g[i])
      /\ \A i \in 1..(Len(g) - 1) :
           g[i + 1].issuer = g[i].audience /\ g[i + 1].parent = id(g[i])
      /\ \A i, j \in 1..Len(g) : i <= j => NoBroader(g[j], g[i])
  BY DEF IInv, TypeOK, Chained
<1>2. /\ c \in Seq(Range(c)) /\ Len(c) = Len(g) + 1 /\ Len(g) \in Nat \ {0}
      /\ \A i \in 1..Len(g) : c[i] = g[i]
      /\ c[Len(g) + 1] = l
  BY <1>1, AppendChain
<1> HIDE DEF c
<1>3. \A i \in 1..Len(c) : i \in 1..Len(g) \/ i = Len(g) + 1
  BY <1>2
<1>4. \A i \in 1..Len(c) : IsLink(c[i])
  BY <1>1, <1>2, <1>3
<1>5. \A i \in 1..(Len(c) - 1) :
        c[i + 1].issuer = c[i].audience /\ c[i + 1].parent = id(c[i])
  <2> SUFFICES ASSUME NEW i \in 1..(Len(c) - 1)
               PROVE  c[i + 1].issuer = c[i].audience /\ c[i + 1].parent = id(c[i])
    OBVIOUS
  <2>1. CASE i = Len(g)
    BY <1>2, <2>1 DEF Leaf, id
  <2>2. CASE i # Len(g)
    <3>1. i \in 1..(Len(g) - 1) /\ i \in 1..Len(g) /\ i + 1 \in 1..Len(g)
      BY <1>2, <2>2
    <3> QED BY <3>1, <1>1, <1>2
  <2> QED BY <2>1, <2>2
<1>6. \A i, j \in 1..Len(c) : i <= j => NoBroader(c[j], c[i])
  <2> SUFFICES ASSUME NEW i \in 1..Len(c), NEW j \in 1..Len(c), i <= j
               PROVE  NoBroader(c[j], c[i])
    OBVIOUS
  <2>1. CASE j \in 1..Len(g)
    <3>1. i \in 1..Len(g)
      BY <2>1, <1>2
    <3> QED BY <3>1, <2>1, <1>1, <1>2
  <2>2. CASE j = Len(g) + 1 /\ i = Len(g) + 1
    BY <2>2, <1>2, NoBroaderReflexive
  <2>3. CASE j = Len(g) + 1 /\ i \in 1..Len(g)
    <3>1. NoBroader(g[Len(g)], g[i]) /\ IsLink(g[i]) /\ IsLink(g[Len(g)])
      BY <2>3, <1>1, <1>2
    <3>2. NoBroader(l, g[Len(g)])
      BY DEF Leaf
    <3>3. NoBroader(l, g[i])
      BY <3>1, <3>2, NoBroaderTransitive
    <3> QED BY <3>3, <2>3, <1>2
  <2> QED BY <2>1, <2>2, <2>3, <1>3
<1>7. \A d \in grants' : d \in grants \/ d = c
  BY DEF Hand, c
<1>8. TypeOK'
  BY <1>1, <1>2, <1>4, <1>7 DEF IInv, TypeOK
<1>9. Chained'
  BY <1>5, <1>6, <1>7 DEF IInv, Chained
<1> QED BY <1>8, <1>9 DEF IInv

(* Every operation of the service preserves the invariant. *)
LEMMA Inductive == IInv /\ [Next]_vars => IInv'
<1> SUFFICES ASSUME IInv, [Next]_vars
             PROVE  IInv'
  OBVIOUS
<1>1. ASSUME NEW i \in Ids, NEW a \in Ids, NEW n \in Nonces, NEW p \in Policies,
             mint(i, a, p, n)
      PROVE  IInv'
  <2>1. IsLink(issue(i, a, compile(p), n, None))
    BY <1>1, CompileTyped, GrantAssumption DEF mint
  <2> QED BY <1>1, <2>1, RootChainOK DEF mint
<1>2. ASSUME NEW i \in Ids, NEW a \in Ids, NEW n \in Nonces, NEW p \in Policies,
             mint_policy(i, a, p, n)
      PROVE  IInv'
  <2> DEFINE num == Cardinality(ScopeKeys(p))
  <2>1. PICK rank \in Bijection(ScopeKeys(p), 0..(num - 1)) :
          Hand({<<issue(i, a, CompileScope(p, k), n + rank[k], None)>> : k \in ScopeKeys(p)})
    BY <1>2 DEF mint_policy
  <2> DEFINE cs == {<<issue(i, a, CompileScope(p, k), n + rank[k], None)>> : k \in ScopeKeys(p)}
  <2>2. \A k \in ScopeKeys(p) : rank[k] \in 0..(num - 1)
    BY DEF Bijection, Injection, IsInjective
  <2>3. \A k \in ScopeKeys(p) : n + rank[k] \in Nat
    BY <2>2, GrantAssumption
  <2>4. \A k \in ScopeKeys(p) : IsLink(issue(i, a, CompileScope(p, k), n + rank[k], None))
    BY <1>2, <2>3, CompileScopeTyped DEF mint_policy, compile_scopes_ok
  <2>5. \A c \in cs : \E m : IsLink(m) /\ c = <<m>>
    BY <2>4
  <2> QED BY <2>1, <2>5, RootChainOK
<1>3. ASSUME NEW i \in Ids, NEW n \in Nonces, NEW g \in grants,
             reissue_under(i, g, n)
      PROVE  IInv'
  <2>1. IsLink(g[1]) /\ Leaf(g) = g[1]
    BY <1>3 DEF IInv, TypeOK, reissue_under, Leaf
  <2>2. IsLink(issue(i, Leaf(g).audience, ScopeOf(Leaf(g)), n, None))
    BY <2>1, GrantAssumption DEF IsLink, issue, ScopeOf
  <2> QED BY <1>3, <2>2, RootChainOK DEF reissue_under
<1>4. ASSUME NEW i \in Ids, NEW a \in Ids, NEW n \in Nonces, NEW g \in grants,
             NEW p \in Policies, attenuate(i, g, a, p, n)
      PROVE  IInv'
  <2> DEFINE l == issue(i, a, compile(p), n, id(Leaf(g)))
  <2>1. IsLink(l)
    BY <1>4, CompileTyped, GrantAssumption DEF attenuate
  <2>2. l.issuer = Leaf(g).audience /\ l.parent = id(Leaf(g)) /\ NoBroader(l, Leaf(g))
    BY <1>4 DEF attenuate, issue, NoBroader
  <2> QED BY <1>4, <2>1, <2>2, ExtendedChainOK DEF attenuate
<1>5. CASE UNCHANGED vars
  BY <1>5 DEF vars, IInv, TypeOK, Chained
<1> QED BY <1>1, <1>2, <1>3, <1>4, <1>5 DEF Next

(* Every chain handed out is well-formed and properly chained. *)
THEOREM GrantInvariant == Spec => []IInv
<1>1. Init => IInv
  BY DEF Init, IInv, TypeOK, Chained
<1> QED BY <1>1, Inductive, PTL DEF Spec

(* The type invariant: what is handed out is always a sequence of links with
   literal abilities (grant.rs, expand_actions before every signature). *)
THEOREM GrantTypeOK == Spec => []TypeOK
<1>1. IInv => TypeOK
  BY DEF IInv
<1> QED BY <1>1, GrantInvariant, PTL
-----------------------------------------------------------------------------
(* "Authority can only ever narrow down a delegation chain" (SECURITY.md):
   whatever a chain's last link permits, every link above it permits, for
   chains of any length and any documents. *)
THEOREM Attenuation == Spec => []AttenuationNeverBroadens
<1>1. IInv => AttenuationNeverBroadens
  <2> SUFFICES ASSUME IInv, NEW c \in grants, NEW i \in 1..Len(c),
                      NEW a \in Actions, NEW n \in Ids, NEW t \in Times, NEW u \in Uses,
                      Permits(ScopeOf(Leaf(c)), a, n, SelfTags[n], t, u)
               PROVE  Permits(ScopeOf(c[i]), a, n, SelfTags[n], t, u)
    BY DEF AttenuationNeverBroadens
  <2>1. Len(c) \in 1..Len(c) /\ i <= Len(c)
    BY DEF IInv, TypeOK
  <2>2. IsLink(c[i]) /\ IsLink(Leaf(c)) /\ NoBroader(Leaf(c), c[i])
    BY <2>1 DEF IInv, TypeOK, Chained, Leaf
  <2>3. t \in Nat
    BY GrantAssumption
  <2>4. matches(c[i].resource, n, SelfTags[n])
    BY <2>2, MatchNarrows DEF Permits, ScopeOf, NoBroader, IsLink
  <2>5. in_window(c[i].caveats, t)
    BY <2>2, <2>3, WindowNarrows DEF Permits, ScopeOf, NoBroader, IsLink
  <2>6. a \in c[i].abilities /\ u \in c[i].caveats.uses
    BY <2>2 DEF Permits, ScopeOf, NoBroader, is_narrower_or_equal
  <2> QED BY <2>4, <2>5, <2>6 DEF Permits, ScopeOf
<1> QED BY <1>1, GrantInvariant, PTL

(* For a chain the service made, within the depth limit, the verifier's answer
   is decided by the summary Iam::inspect shows. *)
THEOREM SummaryDecides == Spec => []LeafDecides
<1>1. IInv => LeafDecides
  <2> SUFFICES ASSUME IInv, NEW c \in grants, Len(c) <= MaxChainDepth,
                      NEW n \in Ids, NEW q \in Ids, NEW t \in Times, NEW a \in Actions,
                      NEW revoked \in RevocationViews
               PROVE  LeafDecidesFor(inspect_chain(c), c, n, t, q, a, revoked)
    BY DEF LeafDecides
  <2>1. Len(c) \in 1..Len(c) /\ Len(c) \in Nat /\ Len(c) >= 1
    BY DEF IInv, TypeOK
  <2>2. guarded_decode(c)
    BY <2>1, GrantAssumption DEF guarded_decode
  <2>3. \A i \in 1..Len(c) : /\ IsLink(c[i]) /\ IsLink(Leaf(c))
                             /\ NoBroader(Leaf(c), c[i])
    BY <2>1 DEF IInv, TypeOK, Chained, Leaf
  <2>4. \A i \in 1..(Len(c) - 1) :
          /\ c[i + 1].issuer = c[i].audience
          /\ c[i + 1].parent = id(c[i])
          /\ NoBroader(c[i + 1], c[i])
    <3>1. \A i \in 1..(Len(c) - 1) : i \in 1..Len(c) /\ i + 1 \in 1..Len(c) /\ i <= i + 1
      BY <2>1
    <3> QED BY <3>1 DEF IInv, Chained
  <2>5. t \in Nat
    BY GrantAssumption
  <2>6. in_window(Leaf(c).caveats, t) => \A i \in 1..Len(c) : in_window(c[i].caveats, t)
    BY <2>3, <2>5, WindowNarrows DEF NoBroader, IsLink
  <2>7. matches(Leaf(c).resource, n, SelfTags[n])
          => \A i \in 1..Len(c) : matches(c[i].resource, n, SelfTags[n])
    BY <2>3, MatchNarrows DEF NoBroader, IsLink
  <2>8. /\ (\A i \in 1..Len(c) : in_window(c[i].caveats, t)) => in_window(Leaf(c).caveats, t)
        /\ (\A i \in 1..Len(c) : matches(c[i].resource, n, SelfTags[n]))
             => matches(Leaf(c).resource, n, SelfTags[n])
    BY <2>1 DEF Leaf
  <2>9. in_window(Leaf(c).caveats, t)
          <=> /\ Leaf(c).caveats.not_before <= t
              /\ Leaf(c).caveats.not_after = 0 \/ t <= Leaf(c).caveats.not_after
    BY DEF in_window
  <2> QED
    BY <2>2, <2>4, <2>6, <2>7, <2>8, <2>9
    DEF LeafDecidesFor, verify, authorize, inspect_chain
<1> QED BY <1>1, GrantInvariant, PTL
-----------------------------------------------------------------------------
(* Trust *)

(* The bodies a provider may sign. *)
Bodies == [provider : Attestors, subject : Subjects, level : Levels, expires : Expiries]

(* What circulates carries the signature of something a provider said, altered
   or not, and all that was said still circulates unaltered. *)
TrustInv ==
    /\ IsFiniteSet(held) /\ held \subseteq [body : Bodies, sig : said]
    /\ said \subseteq Bodies /\ second \in Nat
    /\ \A b \in said : [body |-> b, sig |-> b] \in held

(* Every step keeps it. *)
LEMMA TrustStep == TrustInv /\ [TrustNext]_trustVars => TrustInv'
<1> SUFFICES ASSUME TrustInv, [TrustNext]_trustVars PROVE TrustInv'
  OBVIOUS
<1> USE DEF TrustInv
<1>1. ASSUME NEW p \in Attestors, NEW s \in Subjects, NEW l \in Levels, NEW x \in Expiries,
             issue_attestation(p, s, l, x)
      PROVE  TrustInv'
  <2> DEFINE b == [provider |-> p, subject |-> s, level |-> l, expires |-> x]
             a == [body |-> b, sig |-> b]
  <2>1. held' = held \cup {a} /\ said' = said \cup {b} /\ second' = second
    BY <1>1 DEF issue_attestation
  <2>2. b \in Bodies
    BY DEF Bodies
  <2>3. IsFiniteSet(held')
    BY <2>1, FS_AddElement
  <2> QED BY <2>1, <2>2, <2>3
<1>2. ASSUME NEW a \in held, NEW l \in Levels, alter(a, l) PROVE TrustInv'
  <2>1. held' = held \cup {[a EXCEPT !.body.level = l]} /\ UNCHANGED <<said, second>>
    BY <1>2 DEF alter
  <2>2. [a EXCEPT !.body.level = l] \in [body : Bodies, sig : said]
    BY DEF Bodies
  <2>3. IsFiniteSet(held')
    BY <2>1, FS_AddElement
  <2> QED BY <2>1, <2>2, <2>3
<1>3. CASE pass
  BY <1>3 DEF pass
<1>4. CASE UNCHANGED trustVars
  BY <1>4 DEF trustVars
<1> QED BY <1>1, <1>2, <1>3, <1>4 DEF TrustNext

(* A provider that a policy lists stands behind s at t. *)
Backs(line, s, t) ==
    \E b \in said : /\ b.subject = s /\ b.provider = line.key /\ b.level >= line.min_level
                    /\ b.expires # 0 => t < b.expires

(* Attestations that count are those of a provider that stands behind s. *)
LEMMA QualifyingIsBacking ==
    ASSUME NEW line, NEW s, NEW t, TrustInv
    PROVE  Qualifying(line, s, t) # {} <=> Backs(line, s, t)
<1>1. ASSUME NEW a \in Qualifying(line, s, t) PROVE Backs(line, s, t)
  <2>1. a \in held /\ a.sig = a.body /\ a.sig \in said
    BY DEF Qualifying, verify_attestation, TrustInv
  <2> QED BY <2>1 DEF Qualifying, verify_attestation, Backs
<1>2. ASSUME NEW b \in said, b.subject = s, b.provider = line.key, b.level >= line.min_level,
             b.expires # 0 => t < b.expires
      PROVE  [body |-> b, sig |-> b] \in Qualifying(line, s, t)
  BY <1>2 DEF Qualifying, verify_attestation, TrustInv
<1> QED BY <1>1, <1>2 DEF Backs

(* A policy that names each provider once and weighs them alike. *)
Line == [key : Attestors, weight : Nat, min_level : Nat]
NamesEachOnce(policy) ==
    /\ policy.providers \in Seq(Line) /\ policy.providers # <<>>
    /\ \A i, j \in 1..Len(policy.providers) :
          /\ policy.providers[i].key = policy.providers[j].key => i = j
          /\ policy.providers[i].weight = policy.providers[j].weight

Earned(line, s, t) == IF Qualifying(line, s, t) # {} THEN line.weight ELSE 0

Adds(g, providers, s, t) ==
    /\ g[0] = 0
    /\ \A n \in 1..Len(providers) : g[n] = g[n - 1] + Earned(providers[n], s, t)

(* score is the sum of what the providers add, one after the other. *)
LEMMA ScoreAccumulates ==
    ASSUME NEW providers \in Seq(Line), NEW s, NEW t
    PROVE  \E g : Adds(g, providers, s, t) /\ score(providers, s, t) = g[Len(providers)]
<1> DEFINE N == Len(providers)
           step == [n \in 1..N |-> [x \in Nat |-> x + Earned(providers[n], s, t)]]
           Unroll(g) == [n \in 0..N |->
               IF n = 0 THEN 0 ELSE g[n - 1] + Earned(providers[n], s, t)]
           upto == CHOOSE g : g = Unroll(g)
<1>1. N \in Nat
  BY LenProperties
<1>2. \A n \in 1..N : Earned(providers[n], s, t) \in Nat
  <2> TAKE n \in 1..N
  <2>1. providers[n] \in Line
    BY ElementOfSeq
  <2> QED BY <2>1 DEF Earned, Line
<1>3. step \in [1..N -> [Nat -> Nat]]
  <2>1. \A n \in 1..N : \A x \in Nat : x + Earned(providers[n], s, t) \in Nat
    BY <1>2
  <2> QED BY <2>1
<1>4. PICK h \in [0..N -> Nat] : h[0] = 0 /\ \A n \in 1..N : h[n] = step[n][h[n - 1]]
  <2> DEFINE D == Nat
  <2>1. 0 \in D /\ N \in Nat /\ Steps(step, D, N)
    BY <1>1, <1>3 DEF Steps
  <2> HIDE DEF step, N, D
  <2>2. \E h : Path(h, step, D, 0, N)
    BY <2>1, Iteration
  <2> QED BY <2>2 DEF D, Path
<1>5. \A n \in 1..N : h[n] = h[n - 1] + Earned(providers[n], s, t)
  <2> TAKE n \in 1..N
  <2> HIDE DEF step
  <2>1. h[n - 1] \in Nat
    <3> HIDE DEF N
    <3>1. n - 1 \in 0..N
      BY <1>1
    <3> QED BY <1>4, <3>1
  <2>2. step[n][h[n - 1]] = h[n - 1] + Earned(providers[n], s, t)
    BY <2>1 DEF step
  <2> QED BY <1>4, <2>2
<1>6. h = Unroll(h)
  BY <1>1, <1>4, <1>5
<1>7. upto = Unroll(upto)
  <2> HIDE DEF Unroll
  <2> QED BY <1>6
<1>8. score(providers, s, t) = upto[N]
  BY DEF score, Earned
<1>9. Adds(upto, providers, s, t)
  <2>1. ASSUME NEW n \in 1..N PROVE Unroll(upto)[n] = upto[n - 1] + Earned(providers[n], s, t)
    BY <1>1
  <2>2. Unroll(upto)[0] = 0
    BY <1>1
  <2> HIDE DEF upto, Unroll
  <2> QED BY <1>7, <2>1, <2>2 DEF Adds
<1> HIDE DEF upto, Unroll, step
<1> QED BY <1>8, <1>9

(* So under such a policy it is the common weight times the number of keys that
   stand behind s. *)
LEMMA ScoreCountsProviders ==
    ASSUME NEW policy, NamesEachOnce(policy), NEW s, NEW t, TrustInv
    PROVE  score(policy.providers, s, t)
             = policy.providers[1].weight * Cardinality(Behind(policy, s, t))
<1> DEFINE ps == policy.providers
           unit == ps[1].weight
           N == Len(ps)
           K(n) == {ps[i].key : i \in {j \in 1..n : Backs(ps[j], s, t)}}
<1>1. /\ ps \in Seq(Line) /\ N \in Nat \ {0} /\ 1 \in 1..N
      /\ \A i, j \in 1..N : ps[i].key = ps[j].key => i = j
      /\ \A i \in 1..N : ps[i].weight = unit
      /\ unit \in Nat
  <2>1. ps \in Seq(Line) /\ ps # <<>>
    BY DEF NamesEachOnce
  <2>2. N \in Nat \ {0} /\ 1 \in 1..N
    BY <2>1
  <2>3. ps[1] \in Line
    BY <2>1, <2>2, ElementOfSeq
  <2> QED BY <2>1, <2>2, <2>3 DEF NamesEachOnce, Line
<1>2. PICK g : Adds(g, ps, s, t) /\ score(ps, s, t) = g[N]
  BY <1>1, ScoreAccumulates
<1>3. \A n \in 1..N : Earned(ps[n], s, t) = IF Backs(ps[n], s, t) THEN unit ELSE 0
  BY <1>1, QualifyingIsBacking DEF Earned
<1> HIDE DEF ps, unit, N, K
<1> DEFINE L == {n \in Nat : n <= N => IsFiniteSet(K(n)) /\ g[n] = unit * Cardinality(K(n))}
<1>4. 0 \in L
  <2>1. K(0) = {}
    BY DEF K
  <2>2. g[0] = 0 /\ unit * 0 = 0
    BY <1>1, <1>2 DEF Adds
  <2>3. IsFiniteSet(K(0)) /\ Cardinality(K(0)) = 0
    BY <2>1, FS_EmptySet
  <2> QED BY <2>2, <2>3
<1>5. ASSUME NEW n \in Nat, n \in L PROVE n + 1 \in L
  <2> SUFFICES ASSUME n + 1 <= N
               PROVE  IsFiniteSet(K(n + 1)) /\ g[n + 1] = unit * Cardinality(K(n + 1))
    OBVIOUS
  <2>1. /\ n + 1 \in 1..N /\ (n + 1) - 1 = n /\ n <= N
        /\ 1..(n + 1) = 1..n \cup {n + 1} /\ \A j \in 1..n : j \in 1..N /\ j # n + 1
    BY <1>1
  <2>2. IsFiniteSet(K(n)) /\ g[n] = unit * Cardinality(K(n)) /\ Cardinality(K(n)) \in Nat
    BY <1>5, <2>1, FS_CardinalityType
  <2>3. g[n + 1] = g[n] + Earned(ps[n + 1], s, t)
    BY <1>2, <2>1 DEF Adds, N
  <2>4. CASE Backs(ps[n + 1], s, t)
    <3>1. K(n + 1) = K(n) \cup {ps[n + 1].key}
      BY <2>1, <2>4 DEF K
    <3>2. ps[n + 1].key \notin K(n)
      BY <1>1, <2>1 DEF K
    <3>3. IsFiniteSet(K(n + 1)) /\ Cardinality(K(n + 1)) = Cardinality(K(n)) + 1
      BY <2>2, <3>1, <3>2, FS_AddElement
    <3>4. g[n + 1] = g[n] + unit
      BY <1>3, <2>1, <2>3, <2>4
    <3> DEFINE k == Cardinality(K(n))
    <3>5. k \in Nat /\ unit \in Nat
      BY <1>1, <2>2
    <3> HIDE DEF k
    <3>6. unit * (k + 1) = unit * k + unit
      BY <3>5
    <3> QED BY <2>2, <3>3, <3>4, <3>6 DEF k
  <2>5. CASE ~Backs(ps[n + 1], s, t)
    <3>1. K(n + 1) = K(n)
      BY <2>1, <2>5 DEF K
    <3>2. g[n + 1] = g[n] + 0
      BY <1>3, <2>1, <2>3, <2>5
    <3>3. unit * Cardinality(K(n)) \in Nat
      BY <1>1, <2>2
    <3> QED BY <2>2, <3>1, <3>2, <3>3
  <2> QED BY <2>4, <2>5
<1> HIDE DEF L
<1>6. N \in L
  BY <1>1, <1>4, <1>5, SetInduction
<1>7. g[N] = unit * Cardinality(K(N))
  BY <1>1, <1>6 DEF L
<1>8. K(N) = Behind(policy, s, t)
  BY DEF K, N, ps, Behind, Backs
<1> QED BY <1>2, <1>7, <1>8 DEF ps, unit

(* A finite set of numbers that is not empty has a largest one. *)
LEMMA FiniteMaximum ==
    ASSUME NEW S \in SUBSET Nat, IsFiniteSet(S), S # {}
    PROVE  \E m \in S : \A k \in S : k <= m
<1> DEFINE HasMax(X) == \E m \in X : \A k \in X : k <= m
           L == {n \in Nat : \A X \in SUBSET Nat :
                    IsFiniteSet(X) /\ Cardinality(X) = n /\ X # {} => HasMax(X)}
<1>1. 0 \in L
  BY FS_EmptySet
<1>2. ASSUME NEW n \in Nat, n \in L PROVE n + 1 \in L
  <2> SUFFICES ASSUME NEW X \in SUBSET Nat, IsFiniteSet(X), Cardinality(X) = n + 1, X # {}
               PROVE  HasMax(X)
    OBVIOUS
  <2>1. PICK x \in X : TRUE
    OBVIOUS
  <2>2. IsFiniteSet(X \ {x}) /\ Cardinality(X \ {x}) = n
    <3>1. IsFiniteSet(X \ {x}) /\ Cardinality(X \ {x}) = Cardinality(X) - 1
      BY <2>1, FS_RemoveElement
    <3> QED BY <3>1
  <2>3. CASE X \ {x} = {}
    BY <2>1, <2>3
  <2>4. CASE X \ {x} # {}
    <3>1. PICK m \in X \ {x} : \A k \in X \ {x} : k <= m
      BY <1>2, <2>2, <2>4
    <3>2. CASE x <= m
      BY <3>1, <3>2
    <3>3. CASE ~(x <= m)
      <4>1. \A k \in X : k <= x
        BY <2>1, <3>1, <3>3
      <4> QED BY <2>1, <4>1
    <3> QED BY <3>2, <3>3
  <2> QED BY <2>3, <2>4
<1> HIDE DEF L
<1>3. Cardinality(S) \in Nat /\ Cardinality(S) \in L
  BY <1>1, <1>2, SetInduction, FS_CardinalityType
<1> QED BY <1>3 DEF L

(* The level a relying party reads is 0 or that of a verified attestation. *)
LEMMA MaxLevelIsHeld ==
    ASSUME NEW t, TrustInv, max_level(t) # 0
    PROVE  \E b \in said : b.level = max_level(t) /\ (b.expires # 0 => t < b.expires)
<1> DEFINE V == {x \in held : verify_attestation(x, t)}
           levels == {0} \cup {a.body.level : a \in V}
<1>1. V \in SUBSET held /\ IsFiniteSet(V)
  <2>1. V \in SUBSET held /\ IsFiniteSet(held)
    BY DEF TrustInv
  <2> HIDE DEF V
  <2> QED BY <2>1, FS_Subset
<1>2. \A a \in V : /\ a.body \in said /\ a.body.level \in Nat
                   /\ (a.body.expires # 0 => t < a.body.expires)
  BY TrustAssumption DEF TrustInv, verify_attestation, Bodies
<1>3. IsFiniteSet(levels)
  <2> DEFINE W == {a.body.level : a \in V}
             f == [a \in V |-> a.body.level]
  <2>1. f \in Surjection(V, W)
    BY DEF Surjection
  <2> HIDE DEF f, V, W
  <2>2. IsFiniteSet(W)
    BY <1>1, <2>1, FS_Surjection
  <2>3. IsFiniteSet(W \cup {0})
    BY <2>2, FS_AddElement
  <2> QED BY <2>3 DEF W
<1>4. \E l \in levels : \A k \in levels : k <= l
  <2>1. levels \in SUBSET Nat /\ levels # {}
    BY <1>2
  <2> HIDE DEF levels
  <2> QED BY <1>3, <2>1, FiniteMaximum
<1>5. max_level(t) \in levels
  <2>1. max_level(t) = CHOOSE l \in levels : \A k \in levels : k <= l
    BY DEF max_level
  <2> HIDE DEF levels
  <2> QED BY <1>4, <2>1
<1>6. PICK a \in V : max_level(t) = a.body.level
  BY <1>5
<1> QED BY <1>2, <1>6

(* trust.rs: under policies that name each provider once and weigh them alike, a
   subject is trusted exactly when enough providers stand behind it, however
   many attestations circulate and however they were altered. *)
THEOREM TrustStaysEarned ==
    ASSUME \A policy \in TrustPolicies : NamesEachOnce(policy)
    PROVE  TrustSpec => []TrustIsEarned
<1>1. TrustInit => TrustInv
  BY FS_EmptySet DEF TrustInit, TrustInv
<1>2. TrustInv => TrustIsEarned
  <2> SUFFICES ASSUME TrustInv PROVE TrustIsEarned
    OBVIOUS
  <2>1. ASSUME NEW policy \in TrustPolicies, NEW s \in Subjects
        PROVE  is_trusted(policy, s, second)
                 <=> policy.providers[1].weight * Cardinality(Behind(policy, s, second))
                       >= policy.threshold
    BY ScoreCountsProviders DEF is_trusted
  <2> QED BY <2>1, MaxLevelIsHeld DEF TrustIsEarned
<1> QED BY <1>1, <1>2, TrustStep, PTL DEF TrustSpec
=============================================================================
