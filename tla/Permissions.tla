---------------------------- MODULE Permissions ----------------------------
(***************************************************************************)
(* The permission rules (packages/core/authz), twice, as the code has      *)
(* them: `referenceAllows' answers for one scope, rule by rule; `resolve'  *)
(* computes the whole permitted set up front, for the filter of a search.  *)
(***************************************************************************)
EXTENDS GroupGraph

CONSTANTS Workspaces, Layers, Documents   \* the scopes: an id is of one kind

ASSUME ScopesAssumption ==
    /\ Workspaces \cap Layers = {}
    /\ Workspaces \cap Documents = {}
    /\ Layers \cap Documents = {}

Scopes == Workspaces \cup Layers \cup Documents

Permission == {"read", "write", "admin"}

OrgRoles == {"platform_admin", "org_admin", "member"}

Grant == [principal : Principals, scope : Scopes, permission : Permission,
          effect : {"allow", "deny"}]

-----------------------------------------------------------------------------
(* permissions.ts, scope-tree.ts *)

\* Rules 6 and 7: write does not imply read, admin implies both.
Implies(granted) ==
    CASE granted = "read"  -> {"read"}
      [] granted = "write" -> {"write"}
      [] granted = "admin" -> {"read", "write", "admin"}

Satisfies(granted, requested) == requested \in Implies(granted)

\* A tree places the layers and documents it knows: workspaceOf and layerOf are
\* sets of pairs that are functional, so an unknown id is in none.
Tree == [workspaceOf : SUBSET (Layers \X Workspaces), layerOf : SUBSET (Documents \X Layers)]

LayersOf(tree, w) == {l \in Layers : <<l, w>> \in tree.workspaceOf}

\* The scope and everything it is nested in.
Ancestry(scope, tree) ==
    {scope}
    \cup {l \in Layers : <<scope, l>> \in tree.layerOf}
    \cup {w \in Workspaces : \/ <<scope, w>> \in tree.workspaceOf
                             \/ \E l \in Layers : /\ <<scope, l>> \in tree.layerOf
                                                  /\ <<l, w>> \in tree.workspaceOf}

-----------------------------------------------------------------------------
(* reference.ts *)

\* The grants of the caller's principals that bear on a permission.  Rule 1, the
\* tenant, is the row-level policy and the org_id of every statement: grants
\* holds one organization's rows.
Applicable(principals, grants, p) ==
    {g \in grants : g.principal \in principals /\ Satisfies(g.permission, p)}

\* Rules 4, 5 and 8: a grant reaches what is nested under its scope, any deny
\* beats any allow, and no allow is no access.
MemberAllows(principals, grants, tree, scope, p) ==
    LET chain == Ancestry(scope, tree)
        covering == {g \in Applicable(principals, grants, p) : g.scope \in chain} IN
    /\ \A g \in covering : g.effect /= "deny"
    /\ \E g \in covering : g.effect = "allow"

\* The token's ceiling first, then the roles (rules 2 and 3), then the grants.
\* A token without a ceiling has all of Permission.
ReferenceAllows(role, ceiling, principals, grants, tree, scope, p) ==
    /\ p \in ceiling
    /\ role /= "platform_admin"
    /\ role = "org_admin" \/ MemberAllows(principals, grants, tree, scope, p)

-----------------------------------------------------------------------------
(* resolve.ts *)

NoPlan == [kind |-> "none", layers |-> {}, extraDocs |-> {}, deniedDocs |-> {}]
AllPlan == [kind |-> "all", layers |-> {}, extraDocs |-> {}, deniedDocs |-> {}]

Plan == [kind : {"none", "all", "scoped"}, layers : SUBSET Layers,
         extraDocs : SUBSET Documents, deniedDocs : SUBSET Documents]

\* The scopes of a set that some applicable grant allows, or denies.
Named(scopes, grants, effect) ==
    {s \in scopes : \E g \in grants : g.scope = s /\ g.effect = effect}

\* Mutant of Spread: a grant's scope taken for a layer without a look at its type.
SpreadAnyScope(grants, tree, effect) ==
    Named(Scopes, grants, effect)
    \cup UNION {LayersOf(tree, w) : w \in Named(Workspaces, grants, effect)}

\* A layer with the layers of every workspace named.
Spread(grants, tree, effect) ==
    Named(Layers, grants, effect)
    \cup UNION {LayersOf(tree, w) : w \in Named(Workspaces, grants, effect)}

\* Mutant of ExtraDocs: only document-scoped denies are subtracted.
ExtraDocsUnderDeny(grants, tree, layers, deniedLayers) ==
    {d \in Named(Documents, grants, "allow") :
        /\ d \notin Named(Documents, grants, "deny")
        /\ \E l \in Layers : <<d, l>> \in tree.layerOf /\ l \notin layers}

\* Documents granted one by one, outside the allowed layers.  One the tree
\* cannot place is refused.
ExtraDocs(grants, tree, layers, deniedLayers) ==
    {d \in Named(Documents, grants, "allow") :
        /\ d \notin Named(Documents, grants, "deny")
        /\ \E l \in Layers :
              /\ <<d, l>> \in tree.layerOf
              /\ l \notin deniedLayers
              /\ \A w \in Named(Workspaces, grants, "deny") : <<l, w>> \notin tree.workspaceOf
              /\ l \notin layers}

\* What a member's grants reach.
ScopedPlan(grants, tree) ==
    LET deniedLayers == Spread(grants, tree, "deny")
        layers == Spread(grants, tree, "allow") \ deniedLayers
        extraDocs == ExtraDocs(grants, tree, layers, deniedLayers) IN
    IF layers = {} /\ extraDocs = {} THEN NoPlan
    ELSE [kind |-> "scoped", layers |-> layers, extraDocs |-> extraDocs,
          deniedDocs |-> Named(Documents, grants, "deny")]

Resolve(role, ceiling, principals, grants, tree, p) ==
    IF p \notin ceiling \/ role = "platform_admin" THEN NoPlan
    ELSE IF role = "org_admin" THEN AllPlan
    ELSE ScopedPlan(Applicable(principals, grants, p), tree)

-----------------------------------------------------------------------------
(* store.ts, filter.ts *)

\* loadScopeTree places every live layer but, of the documents, only those that
\* a grant names.
LoadedTree(tree, grants) ==
    [tree EXCEPT !.layerOf = {pair \in @ : \E g \in grants : g.scope = pair[1]}]

\* The clauses of buildFilter on a point of document d in layer l.  There is no
\* filter for a plan of kind none: the caller does not query.
Admits(plan, d, l) ==
    \/ plan.kind = "all"
    \/ /\ plan.kind = "scoped"
       /\ l \in plan.layers \/ d \in plan.extraDocs
       /\ d \notin plan.deniedDocs

=============================================================================
