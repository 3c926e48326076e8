------------------------------ MODULE Catalog -------------------------------
(* The role/policy catalog (crates/ce-iam/src/catalog.rs) as a value: named  *)
(* roles, named policies and attachments, the operations that evolve it, and *)
(* the effective grants it reports.  A BTreeMap of sorted vectors without    *)
(* empty entries is a relation.                                              *)
EXTENDS Policy

CONSTANTS
    RoleNames, PolicyNames,
    Principals,
    Docs        \* policy documents roles and policies are given

ASSUME CatalogAssumption == Blank \notin RoleNames \cup PolicyNames /\ None \notin Docs

(* An operation on a role or a policy; a name that trims to nothing is Blank. *)
CatalogOp ==
    LET role == RoleNames \cup {Blank}
        policy == PolicyNames \cup {Blank}
    IN  [op : {"put_role"}, name : role, doc : Docs]
        \cup [op : {"remove_role"}, name : role]
        \cup [op : {"put_policy"}, name : policy, doc : Docs]
        \cup [op : {"remove_policy"}, name : policy]
        \cup [op : {"attach_role", "detach_role"}, name : role, principal : Principals]

new == [roles |-> [r \in RoleNames |-> None],
        policies |-> [q \in PolicyNames |-> None],
        attachments |-> {}]

get_role(c, r) == IF r \in RoleNames THEN c.roles[r] ELSE None

(* BTreeMap::remove: nothing happens when the key is not in the map. *)
Without(map, key) == [x \in DOMAIN map |-> IF x = key THEN None ELSE map[x]]

(* Mutant: removing a role leaves it attached. *)
ApplyLeavingAttached(c, o) ==
    CASE o.op = "put_role"      -> [c EXCEPT !.roles[o.name] = o.doc]
      [] o.op = "remove_role"   -> [c EXCEPT !.roles = Without(@, o.name)]
      [] o.op = "put_policy"    -> [c EXCEPT !.policies[o.name] = o.doc]
      [] o.op = "remove_policy" -> [c EXCEPT !.policies = Without(@, o.name)]
      [] o.op = "attach_role"   -> [c EXCEPT !.attachments = @ \cup {<<o.principal, o.name>>}]
      [] o.op = "detach_role"   -> [c EXCEPT !.attachments = @ \ {<<o.principal, o.name>>}]

(* Catalog::apply on the catalog's content. *)
apply(c, o) ==
    CASE o.op = "put_role"      -> [c EXCEPT !.roles[o.name] = o.doc]
      [] o.op = "remove_role"   -> [c EXCEPT !.roles = Without(@, o.name),
                                             !.attachments = {a \in @ : a[2] # o.name}]
      [] o.op = "put_policy"    -> [c EXCEPT !.policies[o.name] = o.doc]
      [] o.op = "remove_policy" -> [c EXCEPT !.policies = Without(@, o.name)]
      [] o.op = "attach_role"   -> [c EXCEPT !.attachments = @ \cup {<<o.principal, o.name>>}]
      [] o.op = "detach_role"   -> [c EXCEPT !.attachments = @ \ {<<o.principal, o.name>>}]

(* Mutant: a name that trims to nothing is accepted. *)
ValidateAnyName(c, o) == o.op = "attach_role" => get_role(c, o.name) # None

(* CatalogStore::validate: a put needs a name and an attachment its role; the
   removal of what is not there, nameless or not, is accepted and recorded. *)
validate(c, o) ==
    /\ o.op \in {"put_role", "put_policy"} => o.name # Blank
    /\ o.op = "attach_role" => get_role(c, o.name) # None

roles_for(c, p) == {r \in RoleNames : <<p, r>> \in c.attachments}

(* Effective grants: Deny statements are skipped, an Allow statement without
   actions is an error, and the actions of the attached roles are put together
   by scope, not expanded. *)
effective_ok(c, p) ==
    \A r \in roles_for(c, p) :
        /\ c.roles[r] # None
        /\ \A s \in allows(c.roles[r]) : s.actions # {}

(* Mutant: the groups are keyed by the resource alone. *)
EffectiveByResource(c, p) ==
    LET all == UNION {c.roles[r] : r \in roles_for(c, p)}
        one(k) == {s \in allows(all) : s.resource = k.resource}
    IN {[scope |-> CHOOSE k \in ScopeKeys(one(j)) : TRUE, abilities |-> StatementActions(one(j)),
         from_roles |-> {r \in roles_for(c, p) : j \in ScopeKeys(c.roles[r])}] : j \in ScopeKeys(all)}

effective_grants(c, p) ==
    LET all == UNION {c.roles[r] : r \in roles_for(c, p)}
    IN {[scope |-> k, abilities |-> StatementActions(InScope(all, k)),
         from_roles |-> {r \in roles_for(c, p) : k \in ScopeKeys(c.roles[r])}] : k \in ScopeKeys(all)}
=============================================================================
