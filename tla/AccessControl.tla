--------------------------- MODULE AccessControl ---------------------------
(***************************************************************************)
(* Requests that evaluate permissions while the permissions change.        *)
(*                                                                         *)
(* A request reads the organization's groups_version, the caller's         *)
(* principals (from the cache, or from group_members), their grants and    *)
(* the scope tree, one statement after the other at READ COMMITTED, and    *)
(* then acts on the answer (packages/api/src/adapters.ts: contextFor, and  *)
(* the services that call it).  Meanwhile members, groups, grants and      *)
(* layers come and go, each in a transaction that moves groups_version     *)
(* (migrations 0003 and 0005).                                             *)
(***************************************************************************)
EXTENDS Permissions, Integers

CONSTANTS
    Users, Groups,   \* the principals
    Role,            \* Role[u]: the role in the caller's token
    WorkspaceOf,     \* the workspace of a layer
    LayerOf,         \* the layer of a document
    Requests,        \* requests that may be in flight at once
    None,
    InitialMembers,  \* the organization when the behaviour begins
    InitialGrants,
    Issuable,        \* the grants a request may ask for
    Extending,       \* the grants an extension may write
    MaxVersion       \* bound: changes of groups_version in a behaviour

ASSUME AccessAssumption ==
    /\ Principals = Users \cup Groups
    /\ Users \cap Groups = {}
    /\ Role \in [Users -> OrgRoles]
    /\ WorkspaceOf \in [Layers -> Workspaces]
    /\ LayerOf \in [Documents -> Layers]
    /\ None \notin Users \cup Layers
    /\ InitialMembers \subseteq Principals \X Groups
    /\ InitialGrants \subseteq Grant
    /\ Issuable \subseteq {g \in Grant : g.scope \notin Documents /\ g.effect = "allow"}
    /\ Extending \subseteq Grant
    /\ MaxVersion \in Nat

VARIABLES
    members,   \* group_members: <<member, group>>
    groups,    \* the groups that exist
    grants,    \* the rows of grants
    layers,    \* layers[l]: "absent", "live" or "deleted"
    version,   \* organizations.groups_version
    cache,     \* cache[u][v]: the principals cached for u at version v, or {}
    request,   \* request[r]: what r has read so far
    past       \* past[v]: members and grants as they were at version v

vars == <<members, groups, grants, layers, version, cache, request, past>>

-----------------------------------------------------------------------------
(* State *)

Versions == 0 .. MaxVersion

\* A row of grants.  The id is the version its insert moved the organization to.
GrantRow == [principal : Principals, scope : Scopes, permission : Permission,
             effect : {"allow", "deny"}, id : Versions]

Snapshot == [members : SUBSET (Principals \X Groups), grants : SUBSET GrantRow]

PCs == {"idle", "cache", "graph", "store", "grants", "tree", "allowed", "acting", "answered"}

\* target: the grant to issue or to revoke, the layer to create or to remove.
Request == [pc : PCs,
            op : {"none", "search", "issue", "revoke", "create", "remove"},
            user : Users \cup {None},
            target : Grant \cup GrantRow \cup Layers \cup {None},
            start : Versions,
            principals : SUBSET Principals,
            grants : SUBSET GrantRow,
            plan : Plan,
            answer : SUBSET Documents]

IdleRequest == [pc |-> "idle", op |-> "none", user |-> None, target |-> None, start |-> 0,
                principals |-> {}, grants |-> {}, plan |-> NoPlan, answer |-> {}]

\* The live layers, and the documents in them.
LiveTree ==
    [workspaceOf |-> {<<l, WorkspaceOf[l]>> : l \in {l \in Layers : layers[l] = "live"}},
     layerOf |-> {<<d, LayerOf[d]>> : d \in {d \in Documents : layers[LayerOf[d]] = "live"}}]

\* Nothing refers to an id before it is given.
LiveScope(scope) ==
    /\ scope \in Layers => layers[scope] = "live"
    /\ scope \in Documents => layers[LayerOf[scope]] = "live"

Numbered(g, id) == [principal |-> g.principal, scope |-> g.scope, permission |-> g.permission,
                    effect |-> g.effect, id |-> id]

Init ==
    /\ members = InitialMembers
    /\ groups = Groups
    /\ grants = {Numbered(g, 0) : g \in InitialGrants}
    /\ layers \in [Layers -> {"absent", "live"}]
    /\ \A g \in InitialGrants : LiveScope(g.scope)
    /\ version = 0
    /\ cache = [u \in Users |-> [v \in Versions |-> {}]]
    /\ request = [r \in Requests |-> IdleRequest]
    /\ past = [v \in Versions |-> [members |-> members, grants |-> grants]]

-----------------------------------------------------------------------------
(* Changes of members, groups and grants *)

\* Mutant of Change: the trigger is missing, the version stays.
ChangeUnseen(ms, gs) ==
    /\ version < MaxVersion
    /\ members' = ms
    /\ grants' = gs
    /\ version' = version
    /\ past' = [past EXCEPT ![version] = [members |-> ms, grants |-> gs]]

\* A transaction that changed rows commits, and its triggers have moved the
\* version.  One step stands for a step per row: readers compare for equality.
Change(ms, gs) ==
    /\ version < MaxVersion
    /\ members' = ms
    /\ grants' = gs
    /\ version' = version + 1
    /\ past' = [past EXCEPT ![version + 1] = [members |-> ms, grants |-> gs]]

\* PostgresGroups.addMember.  A foreign key holds the group.
AddMember(m, g) ==
    /\ g \in groups
    /\ m \in Users \cup groups
    /\ <<m, g>> \notin members
    /\ Change(members \cup {<<m, g>>}, grants)
    /\ UNCHANGED <<groups, layers, cache, request>>

RemoveMember(m, g) ==
    /\ <<m, g>> \in members
    /\ Change(members \ {<<m, g>>}, grants)
    /\ UNCHANGED <<groups, layers, cache, request>>

\* PostgresGroups.remove: the grants, the group, and by cascade its edges.
RemoveGroup(g) ==
    /\ g \in groups
    /\ groups' = groups \ {g}
    /\ Change({e \in members : g \notin {e[1], e[2]}}, {x \in grants : x.principal /= g})
    /\ UNCHANGED <<layers, cache, request>>

\* The unique key of grants.
SameKey(x, g) == x.principal = g.principal /\ x.scope = g.scope /\ x.permission = g.permission

\* The rows an extension writes: the core itself issues neither a deny nor a
\* grant on a document.
ExtensionGrant(g) ==
    /\ g.principal \in Users \cup groups
    /\ LiveScope(g.scope)
    /\ ~\E x \in grants : SameKey(x, g)
    /\ version < MaxVersion
    /\ Change(members, grants \cup {Numbered(g, version + 1)})
    /\ UNCHANGED <<groups, layers, cache, request>>

-----------------------------------------------------------------------------
(* The permission context of a request: contextFor *)

\* The first statements: loadGroupsVersion, and for a revoke the row named.
Begin(r, u, op, target) ==
    /\ request[r].pc = "idle"
    /\ request' = [request EXCEPT ![r] = [IdleRequest EXCEPT !.pc = "cache", !.op = op, !.user = u,
                                                             !.target = target, !.start = version]]
    /\ UNCHANGED <<members, groups, grants, layers, version, cache, past>>

\* Mutant of CacheKey: one entry for the user, whatever the version.
CacheKeyNoVersion(r) == 0

\* principalsCacheKey.
CacheKey(r) == request[r].start

CacheHit(r) ==
    LET hit == cache[request[r].user][CacheKey(r)] IN
    /\ request[r].pc = "cache"
    /\ hit /= {}
    /\ request' = [request EXCEPT ![r].pc = "grants", ![r].principals = hit]
    /\ UNCHANGED <<members, groups, grants, layers, version, cache, past>>

\* A miss, an expired entry, or a cache that does not answer.
CacheMiss(r) ==
    /\ request[r].pc = "cache"
    /\ request' = [request EXCEPT ![r].pc = "graph"]
    /\ UNCHANGED <<members, groups, grants, layers, version, cache, past>>

LoadGraph(r) ==
    /\ request[r].pc = "graph"
    /\ request' = [request EXCEPT ![r].pc = "store",
                                  ![r].principals = EffectivePrincipals(members, request[r].user)]
    /\ UNCHANGED <<members, groups, grants, layers, version, cache, past>>

\* The entry is written, or the write fails; either way the request goes on.
CacheSet(r) ==
    /\ request[r].pc = "store"
    /\ \/ cache' = [cache EXCEPT ![request[r].user][CacheKey(r)] = request[r].principals]
       \/ UNCHANGED cache
    /\ request' = [request EXCEPT ![r].pc = "grants"]
    /\ UNCHANGED <<members, groups, grants, layers, version, past>>

LoadGrants(r) ==
    /\ request[r].pc = "grants"
    /\ request' = [request EXCEPT
           ![r].pc = "tree",
           ![r].grants = {g \in grants : g.principal \in request[r].principals}]
    /\ UNCHANGED <<members, groups, grants, layers, version, cache, past>>

\* The scope whose administration an operation asks for.
TargetScope(r) ==
    CASE request[r].op \in {"issue", "revoke"} -> request[r].target.scope
      [] OTHER -> WorkspaceOf[request[r].target]

\* loadScopeTree (its two statements see the same layers here: one that a delete
\* takes in between is in neither), and the decision: a plan for a search, one scope for the rest.
LoadTree(r) ==
    LET q == request[r]
        tree == LoadedTree(LiveTree, q.grants)
        plan == Resolve(Role[q.user], Permission, q.principals, q.grants, tree, "read")
        allowed == IF q.op = "search" THEN plan.kind /= "none"
                   ELSE ReferenceAllows(Role[q.user], Permission, q.principals, q.grants, tree,
                                        TargetScope(r), "admin") IN
    /\ q.pc = "tree"
    /\ request' = [request EXCEPT ![r] =
           IF allowed THEN [q EXCEPT !.pc = "allowed",
                                     !.principals = {},
                                     !.grants = {},
                                     !.plan = IF q.op = "search" THEN plan ELSE NoPlan]
           ELSE IdleRequest]
    /\ UNCHANGED <<members, groups, grants, layers, version, cache, past>>

-----------------------------------------------------------------------------
(* What the requests do *)

\* NacreSearchService.search: the filter inside the query, then the hydration,
\* which drops what a deleted layer held.
Search(r) ==
    /\ request[r].pc = "allowed"
    /\ request[r].op = "search"
    /\ request' = [request EXCEPT
           ![r].pc = "answered",
           ![r].answer = {d \in Documents : /\ layers[LayerOf[d]] = "live"
                                            /\ Admits(request[r].plan, d, LayerOf[d])}]
    /\ UNCHANGED <<members, groups, grants, layers, version, cache, past>>

\* PostgresGrants.issue: the scope and the principal are looked up ...
IssueCheck(r) ==
    LET g == request[r].target
        exists == /\ LiveScope(g.scope)
                  /\ g.principal \in Users \cup groups IN
    /\ request[r].pc = "allowed"
    /\ request[r].op = "issue"
    /\ request' = [request EXCEPT ![r] = IF exists THEN [@ EXCEPT !.pc = "acting"] ELSE IdleRequest]
    /\ UNCHANGED <<members, groups, grants, layers, version, cache, past>>

\* ... and the row is upserted: an existing row keeps its id and becomes allow.
Issue(r) ==
    LET g == request[r].target
        old == {x \in grants : SameKey(x, g)}
        id == IF old = {} THEN version + 1 ELSE (CHOOSE x \in old : TRUE).id IN
    /\ request[r].pc = "acting"
    /\ request[r].op = "issue"
    /\ version < MaxVersion
    /\ Change(members, (grants \ old) \cup {Numbered(g, id)})
    /\ request' = [request EXCEPT ![r] = IdleRequest]
    /\ UNCHANGED <<groups, layers, cache>>

\* PostgresGrants.revoke: the row is deleted by its id.
Revoke(r) ==
    LET gone == {x \in grants : x.id = request[r].target.id /\ SameKey(x, request[r].target)} IN
    /\ request[r].pc = "allowed"
    /\ request[r].op = "revoke"
    /\ IF gone = {} THEN UNCHANGED <<members, grants, version, past>>
       ELSE Change(members, grants \ gone)
    /\ request' = [request EXCEPT ![r] = IdleRequest]
    /\ UNCHANGED <<groups, layers, cache>>

\* PostgresLayers.create.  An id is never used twice.
CreateLayer(r) ==
    /\ request[r].pc = "allowed"
    /\ request[r].op = "create"
    /\ layers' = IF layers[request[r].target] = "absent"
                 THEN [layers EXCEPT ![request[r].target] = "live"] ELSE layers
    /\ request' = [request EXCEPT ![r] = IdleRequest]
    /\ UNCHANGED <<members, groups, grants, version, cache, past>>

\* PostgresLayers.remove, which locks the layer's row before it decides: the
\* layer, its documents and the grants on it, in one transaction.
RemoveLayer(r) ==
    LET l == request[r].target
        on == {x \in grants : x.scope = l} IN
    /\ request[r].pc = "allowed"
    /\ request[r].op = "remove"
    /\ IF layers[l] = "live"
       THEN /\ layers' = [layers EXCEPT ![l] = "deleted"]
            /\ IF on = {} THEN UNCHANGED <<members, grants, version, past>>
               ELSE Change(members, grants \ on)
       ELSE UNCHANGED <<layers, members, grants, version, past>>
    /\ request' = [request EXCEPT ![r] = IdleRequest]
    /\ UNCHANGED <<groups, cache>>

\* PostgresGrants.list, as one read: the rows on scopes the caller administers.
ListGrants(u) ==
    LET ps == EffectivePrincipals(members, u)
        mine == {g \in grants : g.principal \in ps}
        tree == LoadedTree(LiveTree, mine) IN
    {g \in grants :
        /\ Resolve(Role[u], Permission, ps, mine, tree, "admin").kind /= "none"
        /\ ReferenceAllows(Role[u], Permission, ps, mine, tree, g.scope, "admin")}

\* The response is sent, or the request dies at any point before.
Finish(r) ==
    /\ request[r].pc /= "idle"
    /\ request' = [request EXCEPT ![r] = IdleRequest]
    /\ UNCHANGED <<members, groups, grants, layers, version, cache, past>>

-----------------------------------------------------------------------------

BeginStep(r, u) ==
    \/ Begin(r, u, "search", None)
    \/ \E g \in Issuable : Begin(r, u, "issue", g)
    \/ \E g \in grants : Begin(r, u, "revoke", g)
    \/ \E l \in Layers : layers[l] = "absent" /\ Begin(r, u, "create", l)
    \/ \E l \in Layers : layers[l] = "live" /\ Begin(r, u, "remove", l)

RequestStep(r) ==
    \/ \E u \in Users : BeginStep(r, u)
    \/ CacheHit(r) \/ CacheMiss(r) \/ LoadGraph(r) \/ CacheSet(r) \/ LoadGrants(r) \/ LoadTree(r)
    \/ Search(r) \/ IssueCheck(r) \/ Issue(r) \/ Revoke(r) \/ CreateLayer(r) \/ RemoveLayer(r)
    \/ Finish(r)

ChangeStep ==
    \/ \E m \in Principals, g \in Groups : AddMember(m, g) \/ RemoveMember(m, g)
    \/ \E g \in Groups : RemoveGroup(g)
    \/ \E g \in Extending : ExtensionGrant(g)

Next == ChangeStep \/ \E r \in Requests : RequestStep(r)

Spec == Init /\ [][Next]_vars

-----------------------------------------------------------------------------
(* Properties *)

\* Every variable keeps its type.
TypeOK ==
    /\ members \subseteq Principals \X Groups
    /\ groups \subseteq Groups
    /\ grants \subseteq GrantRow
    /\ layers \in [Layers -> {"absent", "live", "deleted"}]
    /\ version \in Versions
    /\ cache \in [Users -> [Versions -> SUBSET Principals]]
    /\ request \in [Requests -> Request]
    /\ past \in [Versions -> Snapshot]

\* The filter a search runs with, built from the grants and the part of the
\* tree it loads, admits exactly the documents the rules allow one by one.
PlanMatchesRules ==
    \A u \in Users, p \in Permission, d \in Documents :
        layers[LayerOf[d]] = "live" =>
            LET ps == EffectivePrincipals(members, u)
                loaded == {g \in grants : g.principal \in ps} IN
            Admits(Resolve(Role[u], Permission, ps, loaded, LoadedTree(LiveTree, loaded), p),
                   d, LayerOf[d])
            <=> ReferenceAllows(Role[u], Permission, ps, grants, LiveTree, d, p)

\* What is cached under a version is the membership of that version or of a
\* later one, never of an earlier: a revoked membership is not served.
CacheFresh ==
    \A u \in Users, v \in Versions : cache[u][v] /= {} =>
        \E n \in v .. version : cache[u][v] = EffectivePrincipals(past[n].members, u)

\* Where every layer and document is, whether or not it still is.
WholeTree == [workspaceOf |-> {<<l, WorkspaceOf[l]>> : l \in Layers},
              layerOf |-> {<<d, LayerOf[d]>> : d \in Documents}]

\* The permission u has by the members of one version and the grants of another.
AllowedBy(u, n, m, scope, p) ==
    ReferenceAllows(Role[u], Permission, EffectivePrincipals(past[n].members, u),
                    past[m].grants, WholeTree, scope, p)

\* The caller had the permission by members and, then or later, grants that
\* became current no earlier than the request.
AllowedSince(r, scope, p) ==
    \E n \in request[r].start .. version : \E m \in n .. version :
        AllowedBy(request[r].user, n, m, scope, p)

\* Not the scope of a layer that was deleted.
NotDeleted(scope) ==
    /\ scope \in Layers => layers[scope] /= "deleted"
    /\ scope \in Documents => layers[LayerOf[scope]] /= "deleted"

\* A search answers with documents that memberships and grants allowed which
\* were both current after it began, and an administrative request acts under such
\* an authority: whatever was revoked before it began is reflected in it.
RequestAuthorized ==
    \A r \in Requests :
        /\ request[r].pc = "answered" =>
               \A d \in request[r].answer : AllowedSince(r, d, "read")
        /\ /\ request[r].pc \in {"allowed", "acting"}
           /\ request[r].op /= "search"
           /\ NotDeleted(TargetScope(r))
           => AllowedSince(r, TargetScope(r), "admin")

-----------------------------------------------------------------------------
(* What the comments say without exception *)

\* principalsFor: the key and the grant set describe one instant.
AnswerOfOneInstant ==
    \A r \in Requests : request[r].pc = "answered" =>
        \A d \in request[r].answer :
            \E n \in request[r].start .. version :
                AllowedBy(request[r].user, n, n, d, "read")

\* PostgresGrants.list: who may issue on a scope sees who else holds a grant there.
ListIsWhole ==
    \A u \in Users, g \in grants :
        /\ LiveScope(g.scope)
        /\ ReferenceAllows(Role[u], Permission, EffectivePrincipals(members, u), grants,
                           LiveTree, g.scope, "admin")
        => g \in ListGrants(u)

\* PostgresGrants.issue: a grant names a scope and a principal that exist.
GrantsResolve ==
    \A g \in grants :
        /\ g.scope \in Layers => layers[g.scope] = "live"
        /\ g.principal \in Users \cup groups

=============================================================================
