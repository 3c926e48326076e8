------------------------------- MODULE Policy -------------------------------
(* IAM policy documents and their compilation to capability scopes           *)
(* (crates/ce-iam/src/policy.rs, and expand_actions / compile /              *)
(* compile_scopes of crates/ce-iam/src/grant.rs).                            *)
(*                                                                           *)
(* Data.  An action string is a literal action, a wildcard pattern, or       *)
(* Blank (nothing left after trim).  The pattern "*" is the pattern that     *)
(* Covers every action.  A ce-cap Resource is a record in which every form   *)
(* (any node, one node, one tag, several tags) is a node constraint and a    *)
(* set of required tags.  The quantity conditions (max_cpu, max_mem_mb,      *)
(* max_credits, allowed_ports, path_prefix) are one field, the set of uses   *)
(* they leave open.                                                          *)
EXTENDS Naturals, Sequences, FiniteSets

CONSTANTS
    Ids,        \* node ids; a principal is a node id too
    Tags,       \* self-tags a node may advertise
    Actions,    \* literal action strings
    Patterns,   \* wildcard action strings
    Covers,     \* Covers[p]: the actions that start with pattern p's prefix
    Universe,   \* the service's action universe
    Uses,       \* what the quantity conditions range over
    Blank,      \* an action string that trims to nothing
    AnyNode,    \* the node constraint of a resource that names no node
    BadHex,     \* a node string that is not 32 bytes of hex
    None        \* an absent optional field

ASSUME PolicyAssumption ==
    /\ Universe \subseteq Actions
    /\ Covers \in [Patterns -> SUBSET Actions]
    /\ Blank \notin Actions \cup Patterns
    /\ Actions \cap Patterns = {}
    /\ AnyNode \notin Ids
    /\ BadHex \notin Ids
    /\ None \notin Nat
    /\ \A us \in SUBSET Uses : us # None

Resource == [node : Ids \cup {AnyNode}, tags : SUBSET Tags]
Caveats == [not_before : Nat, not_after : Nat, uses : SUBSET Uses]
Scope == [abilities : SUBSET Actions, resource : Resource, caveats : Caveats]

ActionString == Actions \cup Patterns \cup {Blank}

ResourceMatch ==
    [kind : {"any"}, node : {AnyNode}, tags : {{}}]
        \cup [kind : {"node"}, node : Ids \cup {BadHex}, tags : {{}}]
        \cup [kind : {"tag"}, node : {AnyNode},
              tags : {ts \in SUBSET Tags : \A t, u \in ts : t = u}]
        \cup [kind : {"all_of"}, node : {AnyNode}, tags : SUBSET Tags]

Conditions == [not_before : Nat \cup {None}, not_after : Nat \cup {None},
               uses : SUBSET Uses \cup {None}]

Statement == [effect : {"Allow", "Deny"}, actions : SUBSET ActionString,
              resource : ResourceMatch, conditions : Conditions]
-----------------------------------------------------------------------------
(* What a scope means, independent of the checks made when it is built.      *)

(* external: ce_cap::Resource::matches *)
matches(r, n, selfTags) ==
    /\ r.node \in {AnyNode, n}
    /\ r.tags \subseteq selfTags

(* external: the time window of ce_cap::Caveats; 0 means no bound and both
   ends are inclusive *)
in_window(c, t) ==
    /\ c.not_before <= t
    /\ c.not_after = 0 \/ t <= c.not_after

(* The scope sc lets its holder use action a as u on node n at time t. *)
Permits(sc, a, n, selfTags, t, u) ==
    /\ a \in sc.abilities
    /\ matches(sc.resource, n, selfTags)
    /\ in_window(sc.caveats, t)
    /\ u \in sc.caveats.uses
-----------------------------------------------------------------------------
(* Compilation *)

Expansion(s) == IF s \in Patterns THEN Covers[s] \cap Universe ELSE {s}

(* Mutant: a wildcard that matches nothing is dropped silently. *)
ExpandOkDroppingTypos(ss) == Blank \notin ss

(* A wildcard that matches nothing is an error, never an empty grant. *)
expand_ok(ss) ==
    /\ Blank \notin ss
    /\ \A s \in ss : Expansion(s) # {}

(* Mutant: wildcards reach the capability unexpanded. *)
ExpandNothing(ss) == ss

expand_actions(ss) == UNION {Expansion(s) : s \in ss}

resource_ok(rm) ==
    /\ rm.kind = "node" => rm.node # BadHex
    /\ rm.kind \in {"tag", "all_of"} => rm.tags # {}

to_cap_resource(rm) == [node |-> rm.node, tags |-> rm.tags]

(* Mutant: an absent expiry compiles to "not before" instead of to no bound. *)
CaveatsSwapped(c) ==
    [not_before |-> IF c.not_after = None THEN 0 ELSE c.not_after,
     not_after |-> IF c.not_before = None THEN 0 ELSE c.not_before,
     uses |-> IF c.uses = None THEN Uses ELSE c.uses]

to_caveats(c) ==
    [not_before |-> IF c.not_before = None THEN 0 ELSE c.not_before,
     not_after |-> IF c.not_after = None THEN 0 ELSE c.not_after,
     uses |-> IF c.uses = None THEN Uses ELSE c.uses]

allows(p) == {s \in p : s.effect = "Allow"}

HasDeny(p) == \E s \in p : s.effect = "Deny"

StatementActions(ss) == UNION {s.actions : s \in ss}

(* One (resource, conditions) scope and the statements that share it.  The
   code keys the group by the JSON of the pair before it is compiled. *)
ScopeKey(s) == [resource |-> s.resource, conditions |-> s.conditions]
ScopeKeys(p) == {ScopeKey(s) : s \in allows(p)}
InScope(p, k) == {s \in allows(p) : ScopeKey(s) = k}

ScopeOk(p, k) ==
    /\ expand_ok(StatementActions(InScope(p, k)))
    /\ expand_actions(StatementActions(InScope(p, k))) # {}
    /\ resource_ok(k.resource)

CompileScope(p, k) ==
    [abilities |-> expand_actions(StatementActions(InScope(p, k))),
     resource  |-> to_cap_resource(k.resource),
     caveats   |-> to_caveats(k.conditions)]

(* compile: every Allow statement shares one scope, there is at least one, and
   Deny has no meaning for a capability. *)
compile_ok(p) ==
    /\ ~HasDeny(p)
    /\ \E k \in ScopeKeys(p) : ScopeKeys(p) = {k} /\ ScopeOk(p, k)

compile(p) == CompileScope(p, CHOOSE k \in ScopeKeys(p) : TRUE)

(* Mutant: a Deny statement is skipped instead of refused. *)
CompileScopesIgnoringDeny(p) ==
    /\ ScopeKeys(p) # {}
    /\ \A k \in ScopeKeys(p) : ScopeOk(p, k)

compile_scopes_ok(p) ==
    /\ ~HasDeny(p)
    /\ ScopeKeys(p) # {}
    /\ \A k \in ScopeKeys(p) : ScopeOk(p, k)

compile_scopes(p) == {CompileScope(p, k) : k \in ScopeKeys(p)}
-----------------------------------------------------------------------------
(* The meaning of a document, read statement by statement. *)

NamesNode(rm, n, selfTags) ==
    CASE rm.kind = "any"  -> TRUE
      [] rm.kind = "node" -> rm.node = n
      [] OTHER            -> rm.tags # {} /\ rm.tags \subseteq selfTags

Spells(s, a) ==
    \/ a \in s.actions
    \/ a \in Universe /\ \E w \in s.actions \cap Patterns : a \in Covers[w]

DuringConditions(c, t) ==
    /\ c.not_before # None => c.not_before <= t
    /\ c.not_after \notin {None, 0} => t <= c.not_after

(* Statement s is about this action, node, time and use. *)
Concerns(s, a, n, selfTags, t, u) ==
    /\ Spells(s, a)
    /\ NamesNode(s.resource, n, selfTags)
    /\ DuringConditions(s.conditions, t)
    /\ s.conditions.uses # None => u \in s.conditions.uses

(* What document p gives its principal: some Allow statement concerns it and
   no Deny statement does. *)
Grants(p, a, n, selfTags, t, u) ==
    /\ \E s \in p : s.effect = "Allow" /\ Concerns(s, a, n, selfTags, t, u)
    /\ \A s \in p : s.effect = "Deny" => ~Concerns(s, a, n, selfTags, t, u)
=============================================================================
