--------------------------- MODULE PolicyDocument ---------------------------
(* A policy document while it is written (struct Policy of                   *)
(* crates/ce-iam/src/policy.rs), one statement of Library after another, and *)
(* what compiling it must preserve at every point.  The order of the         *)
(* statements and a statement repeated have no effect on compile or          *)
(* compile_scopes, so a document is a set.                                   *)
EXTENDS Policy

CONSTANTS
    Library,        \* the statements an author may write
    MaxStatements,  \* bound on the length of a document
    Moments         \* the times a capability is used at

ASSUME DocumentAssumption ==
    /\ Library \subseteq Statement
    /\ Moments \subseteq Nat

VARIABLE doc

DocInit == doc = {}

Author ==
    /\ Cardinality(doc) < MaxStatements
    /\ \E s \in Library : doc' = doc \cup {s}

DocSpec == DocInit /\ [][Author]_doc
-----------------------------------------------------------------------------
(* A document that Iam::mint accepts compiles to one capability that permits
   exactly what the document, read statement by statement, grants: every
   action, on every node with any self-tags, at every time and as every use. *)
CompileFaithful ==
    compile_ok(doc) =>
        \A a \in Actions, n \in Ids, selfTags \in SUBSET Tags, t \in Moments, u \in Uses :
            Permits(compile(doc), a, n, selfTags, t, u) <=> Grants(doc, a, n, selfTags, t, u)

(* The set of capabilities Iam::mint_policy makes from a multi-scope document
   permits exactly what the document grants: no scope is lost, none leaks its
   actions into another, and a Deny is never silently dropped. *)
ScopesFaithful ==
    compile_scopes_ok(doc) =>
        \A a \in Actions, n \in Ids, selfTags \in SUBSET Tags, t \in Moments, u \in Uses :
            (\E sc \in compile_scopes(doc) : Permits(sc, a, n, selfTags, t, u))
                <=> Grants(doc, a, n, selfTags, t, u)

(* A typo never disappears: in a document that compiles, every action string
   of every statement contributes at least one ability to the scope its
   statement belongs to (expand_actions refuses what expands to nothing). *)
NoSilentTypo ==
    compile_scopes_ok(doc) =>
        \A s \in doc : \A x \in s.actions :
            \E a \in CompileScope(doc, ScopeKey(s)).abilities :
                Spells([s EXCEPT !.actions = {x}], a)
=============================================================================
