------------------------ MODULE AccessControlProofs ------------------------
(* The permission rules, and what requests decide while permissions change. *)
EXTENDS AccessControl, TLAPS

-----------------------------------------------------------------------------
(* The filter *)

\* A grant of a set with this effect is on this scope.
On(A, scope, effect) == \E g \in A : g.scope = scope /\ g.effect = effect

\* The scopes of a document are itself, its layer and the layer's workspace.
LEMMA DocumentAncestry ==
    ASSUME NEW tree \in Tree, NEW d \in Documents, NEW l \in Layers, NEW w \in Workspaces,
           <<d, l>> \in tree.layerOf, <<l, w>> \in tree.workspaceOf,
           \A k \in Layers : <<d, k>> \in tree.layerOf => k = l,
           \A v \in Workspaces : <<l, v>> \in tree.workspaceOf => v = w
    PROVE  Ancestry(d, tree) = {d, l, w}
<1>1. d \notin Layers
  BY ScopesAssumption
<1>2. \A v : <<d, v>> \notin tree.workspaceOf
  BY <1>1 DEF Tree
<1> QED
  BY <1>2 DEF Ancestry

\* Rules 4, 5 and 8 for a document.
LEMMA DocumentRules ==
    ASSUME NEW tree \in Tree, NEW d \in Documents, NEW l \in Layers, NEW w \in Workspaces,
           <<d, l>> \in tree.layerOf, <<l, w>> \in tree.workspaceOf,
           \A k \in Layers : <<d, k>> \in tree.layerOf => k = l,
           \A v \in Workspaces : <<l, v>> \in tree.workspaceOf => v = w,
           NEW principals, NEW gs, NEW p
    PROVE  LET A == Applicable(principals, gs, p) IN
           MemberAllows(principals, gs, tree, d, p)
           <=> /\ ~On(A, d, "deny") /\ ~On(A, l, "deny") /\ ~On(A, w, "deny")
               /\ On(A, d, "allow") \/ On(A, l, "allow") \/ On(A, w, "allow")
<1>1. Ancestry(d, tree) = {d, l, w}
  BY DocumentAncestry
<1> QED
  BY <1>1 DEF MemberAllows, On

\* A layer is spread to by a grant on it or on its workspace.
LEMMA SpreadRules ==
    ASSUME NEW tree, NEW l \in Layers, NEW w \in Workspaces, <<l, w>> \in tree.workspaceOf,
           \A v \in Workspaces : <<l, v>> \in tree.workspaceOf => v = w,
           NEW A, NEW effect
    PROVE  l \in Spread(A, tree, effect) <=> On(A, l, effect) \/ On(A, w, effect)
<1>1. \A v : v \in Named(Workspaces, A, effect) <=> v \in Workspaces /\ On(A, v, effect)
  BY DEF Named, On
<1>2. \A v \in Workspaces : l \in LayersOf(tree, v) <=> v = w
  BY DEF LayersOf
<1>3. l \in Named(Layers, A, effect) <=> On(A, l, effect)
  BY DEF Named, On
<1> HIDE DEF Named, LayersOf, On
<1>4. l \in UNION {LayersOf(tree, v) : v \in Named(Workspaces, A, effect)}
      <=> On(A, w, effect)
  <2>1. ASSUME NEW v \in Named(Workspaces, A, effect), l \in LayersOf(tree, v)
        PROVE  On(A, w, effect)
    BY <1>1, <1>2, <2>1
  <2>2. ASSUME On(A, w, effect) PROVE w \in Named(Workspaces, A, effect) /\ l \in LayersOf(tree, w)
    BY <1>1, <1>2, <2>2
  <2> QED
    BY <2>1, <2>2
<1> QED
  BY <1>3, <1>4 DEF Spread

\* What the filter admits of a document, in terms of the grants on its scopes.
LEMMA FilterRules ==
    ASSUME NEW tree \in Tree, NEW d \in Documents, NEW l \in Layers, NEW w \in Workspaces,
           <<l, w>> \in tree.workspaceOf,
           \A k \in Layers : <<d, k>> \in tree.layerOf => k = l,
           \A v \in Workspaces : <<l, v>> \in tree.workspaceOf => v = w,
           NEW A, On(A, d, "allow") => <<d, l>> \in tree.layerOf
    PROVE  Admits(ScopedPlan(A, tree), d, l)
           <=> /\ ~On(A, d, "deny") /\ ~On(A, l, "deny") /\ ~On(A, w, "deny")
               /\ On(A, d, "allow") \/ On(A, l, "allow") \/ On(A, w, "allow")
<1> DEFINE deniedLayers == Spread(A, tree, "deny")
           allowed == Spread(A, tree, "allow") \ deniedLayers
           extraDocs == ExtraDocs(A, tree, allowed, deniedLayers)
<1>1. l \in deniedLayers <=> On(A, l, "deny") \/ On(A, w, "deny")
  BY SpreadRules
<1>2. l \in Spread(A, tree, "allow") <=> On(A, l, "allow") \/ On(A, w, "allow")
  BY SpreadRules
<1>3. (\A v \in Named(Workspaces, A, "deny") : <<l, v>> \notin tree.workspaceOf)
      <=> ~On(A, w, "deny")
  BY DEF Named, On
<1>4. d \in Named(Documents, A, "deny") <=> On(A, d, "deny")
  BY DEF Named, On
<1>5. d \in Named(Documents, A, "allow") <=> On(A, d, "allow")
  BY DEF Named, On
<1>6. d \in extraDocs <=> /\ On(A, d, "allow") /\ ~On(A, d, "deny")
                          /\ l \notin deniedLayers /\ ~On(A, w, "deny")
                          /\ l \notin allowed
  <2> HIDE DEF deniedLayers, allowed
  <2> QED
    BY <1>3, <1>4, <1>5 DEF ExtraDocs
<1> HIDE DEF deniedLayers, extraDocs
<1>7. l \in allowed <=> /\ On(A, l, "allow") \/ On(A, w, "allow")
                        /\ l \notin deniedLayers
  BY <1>2
<1> HIDE DEF allowed
<1>8. ScopedPlan(A, tree) = IF allowed = {} /\ extraDocs = {} THEN NoPlan
                            ELSE [kind |-> "scoped", layers |-> allowed, extraDocs |-> extraDocs,
                                  deniedDocs |-> Named(Documents, A, "deny")]
  BY DEF ScopedPlan, allowed, extraDocs, deniedLayers
<1>9. Admits(ScopedPlan(A, tree), d, l)
      <=> (l \in allowed \/ d \in extraDocs) /\ d \notin Named(Documents, A, "deny")
  <2>1. CASE allowed = {} /\ extraDocs = {}
    BY <2>1, <1>8 DEF Admits, NoPlan
  <2>2. CASE ~(allowed = {} /\ extraDocs = {})
    BY <2>2, <1>8 DEF Admits
  <2> QED
    BY <2>1, <2>2
<1> QED
  BY <1>1, <1>4, <1>6, <1>7, <1>9

\* `resolve' and `buildFilter' implement `referenceAllows': for every set of
\* grants and every tree, a search filter built from the part of the tree that is
\* loaded admits a document that has a place exactly when the rules allow it.
THEOREM FilterMatchesReference ==
    ASSUME NEW tree \in Tree, NEW d \in Documents, NEW l \in Layers, NEW w \in Workspaces,
           <<d, l>> \in tree.layerOf, <<l, w>> \in tree.workspaceOf,
           \A k \in Layers : <<d, k>> \in tree.layerOf => k = l,
           \A v \in Workspaces : <<l, v>> \in tree.workspaceOf => v = w,
           NEW role, NEW ceiling, NEW principals, NEW grts, NEW p
    PROVE  Admits(Resolve(role, ceiling, principals, grts, LoadedTree(tree, grts), p), d, l)
           <=> ReferenceAllows(role, ceiling, principals, grts, tree, d, p)
<1> DEFINE T == LoadedTree(tree, grts)
           A == Applicable(principals, grts, p)
<1>1. /\ T.workspaceOf = tree.workspaceOf
      /\ T.layerOf = {pair \in tree.layerOf : \E g \in grts : g.scope = pair[1]}
      /\ T \in Tree
  BY DEF LoadedTree, Tree
<1>2. On(A, d, "allow") => <<d, l>> \in T.layerOf
  BY <1>1 DEF On, Applicable
<1>3. \A k \in Layers : <<d, k>> \in T.layerOf => k = l
  BY <1>1
<1>4. Admits(ScopedPlan(A, T), d, l) <=> MemberAllows(principals, grts, tree, d, p)
  <2> HIDE DEF T, A
  <2>1. \A v \in Workspaces : <<l, v>> \in T.workspaceOf => v = w
    BY <1>1
  <2>2. <<l, w>> \in T.workspaceOf
    BY <1>1
  <2>3. Admits(ScopedPlan(A, T), d, l)
        <=> /\ ~On(A, d, "deny") /\ ~On(A, l, "deny") /\ ~On(A, w, "deny")
            /\ On(A, d, "allow") \/ On(A, l, "allow") \/ On(A, w, "allow")
    BY <1>1, <1>2, <1>3, <2>1, <2>2, FilterRules
  <2>4. MemberAllows(principals, grts, tree, d, p)
        <=> /\ ~On(A, d, "deny") /\ ~On(A, l, "deny") /\ ~On(A, w, "deny")
            /\ On(A, d, "allow") \/ On(A, l, "allow") \/ On(A, w, "allow")
    BY DocumentRules DEF A
  <2> QED
    BY <2>3, <2>4
<1> HIDE DEF T
<1>5. CASE p \notin ceiling \/ role = "platform_admin"
  BY <1>5 DEF Resolve, ReferenceAllows, Admits, NoPlan
<1>6. CASE p \in ceiling /\ role = "org_admin"
  BY <1>6 DEF Resolve, ReferenceAllows, Admits, AllPlan
<1>7. CASE p \in ceiling /\ role /= "org_admin" /\ role /= "platform_admin"
  <2>1. Resolve(role, ceiling, principals, grts, T, p) = ScopedPlan(A, T)
    BY <1>7 DEF Resolve
  <2> QED
    BY <1>7, <2>1, <1>4 DEF ReferenceAllows, T
<1> QED
  BY <1>5, <1>6, <1>7 DEF T

-----------------------------------------------------------------------------
(* The trees *)

\* The tree a request loads, and the tree of every id, are trees.
LEMMA TreeTypes == LiveTree \in Tree /\ WholeTree \in Tree
  BY AccessAssumption DEF LiveTree, WholeTree, Tree

\* Where a layer and a document are.
LEMMA TreePlaces ==
    /\ \A l \in Layers, w \in Workspaces :
          /\ <<l, w>> \in WholeTree.workspaceOf <=> w = WorkspaceOf[l]
          /\ <<l, w>> \in LiveTree.workspaceOf <=> w = WorkspaceOf[l] /\ layers[l] = "live"
    /\ \A d \in Documents, l \in Layers :
          /\ <<d, l>> \in WholeTree.layerOf <=> l = LayerOf[d]
          /\ <<d, l>> \in LiveTree.layerOf <=> l = LayerOf[d] /\ layers[l] = "live"
  BY AccessAssumption DEF LiveTree, WholeTree

\* The grants that were loaded are all that bear on the caller.
LEMMA LoadedApplicable ==
    ASSUME NEW ps, NEW all, NEW p
    PROVE  Applicable(ps, {g \in all : g.principal \in ps}, p) = Applicable(ps, all, p)
  BY DEF Applicable

\* In every state, the filter of a search admits exactly what the rules allow.
THEOREM FilterExact == Spec => []PlanMatchesRules
<1>1. PlanMatchesRules
  <2> SUFFICES ASSUME NEW u \in Users, NEW p \in Permission, NEW d \in Documents,
                      layers[LayerOf[d]] = "live", NEW ps, NEW loaded,
                      loaded = {g \in grants : g.principal \in ps}
               PROVE  Admits(Resolve(Role[u], Permission, ps, loaded,
                                     LoadedTree(LiveTree, loaded), p), d, LayerOf[d])
                      <=> ReferenceAllows(Role[u], Permission, ps, grants, LiveTree, d, p)
    BY DEF PlanMatchesRules
  <2> DEFINE l == LayerOf[d]
             w == WorkspaceOf[l]
  <2>1. l \in Layers /\ w \in Workspaces
    BY AccessAssumption
  <2>2. /\ <<d, l>> \in LiveTree.layerOf
        /\ <<l, w>> \in LiveTree.workspaceOf
        /\ \A k \in Layers : <<d, k>> \in LiveTree.layerOf => k = l
        /\ \A v \in Workspaces : <<l, v>> \in LiveTree.workspaceOf => v = w
    BY <2>1, TreePlaces
  <2> HIDE DEF l, w
  <2>3. Admits(Resolve(Role[u], Permission, ps, loaded, LoadedTree(LiveTree, loaded), p), d, l)
        <=> ReferenceAllows(Role[u], Permission, ps, loaded, LiveTree, d, p)
    BY <2>1, <2>2, TreeTypes, FilterMatchesReference
  <2>4. ReferenceAllows(Role[u], Permission, ps, loaded, LiveTree, d, p)
        <=> ReferenceAllows(Role[u], Permission, ps, grants, LiveTree, d, p)
    BY LoadedApplicable DEF ReferenceAllows, MemberAllows
  <2> QED
    BY <2>3, <2>4 DEF l
<1> QED
  BY <1>1, PTL

-----------------------------------------------------------------------------
(* Types *)

\* A plan is a plan, whatever it is resolved from.
LEMMA ResolveType ==
    ASSUME NEW role, NEW ceiling, NEW ps, NEW grts, NEW tree, NEW p
    PROVE  Resolve(role, ceiling, ps, grts, tree, p) \in Plan
<1> DEFINE A == Applicable(ps, grts, p)
<1>1. NoPlan \in Plan /\ AllPlan \in Plan
  BY DEF NoPlan, AllPlan, Plan
<1>2. ASSUME NEW B, NEW effect PROVE Spread(B, tree, effect) \subseteq Layers
  BY DEF Spread, Named, LayersOf
<1>3. ASSUME NEW B, NEW ls, NEW ds PROVE ExtraDocs(B, tree, ls, ds) \subseteq Documents
  BY DEF ExtraDocs, Named
<1>4. Named(Documents, A, "deny") \subseteq Documents
  BY DEF Named
<1>5. ScopedPlan(A, tree) \in Plan
  <2> DEFINE ds == Spread(A, tree, "deny")
             ls == Spread(A, tree, "allow") \ ds
             xs == ExtraDocs(A, tree, ls, ds)
  <2>1. ls \subseteq Layers /\ xs \subseteq Documents
    BY <1>2, <1>3
  <2>2. ScopedPlan(A, tree) = IF ls = {} /\ xs = {} THEN NoPlan
                              ELSE [kind |-> "scoped", layers |-> ls, extraDocs |-> xs,
                                    deniedDocs |-> Named(Documents, A, "deny")]
    BY DEF ScopedPlan
  <2> HIDE DEF ls, xs, ds
  <2> QED
    BY <1>1, <1>4, <2>1, <2>2 DEF Plan
<1> QED
  BY <1>1, <1>5 DEF Resolve

\* The principals a walk finds are principals.
LEMMA EffectiveType ==
    ASSUME NEW edges, NEW p PROVE EffectivePrincipals(edges, p) \in SUBSET Principals
  BY DEF EffectivePrincipals

\* What a request targets, by its operation.
Targeted(q) ==
    /\ q.pc /= "idle" => q.user \in Users /\ q.op /= "none"
    /\ q.op = "issue" => q.target \in Issuable
    /\ q.op = "revoke" => q.target \in GrantRow
    /\ q.op \in {"create", "remove"} => q.target \in Layers

TypeInv == TypeOK /\ \A r \in Requests : Targeted(request[r])

\* The idle request.
LEMMA IdleType == IdleRequest \in Request /\ Targeted(IdleRequest)
  BY AccessAssumption DEF IdleRequest, Request, Targeted, NoPlan, Plan, Versions, PCs

\* A row of grants, numbered.
LEMMA NumberedType ==
    ASSUME NEW g \in Grant, NEW id \in Versions PROVE Numbered(g, id) \in GrantRow
  BY DEF Numbered, Grant, GrantRow

\* A change keeps the types of what it changes.
LEMMA ChangeType ==
    ASSUME TypeOK, NEW ms \in SUBSET (Principals \X Groups), NEW gs \in SUBSET GrantRow,
           Change(ms, gs)
    PROVE  /\ members' \subseteq Principals \X Groups
           /\ grants' \subseteq GrantRow
           /\ version' \in Versions
           /\ past' \in [Versions -> Snapshot]
<1>1. version + 1 \in Versions
  BY AccessAssumption DEF Change, TypeOK, Versions
<1>2. [members |-> ms, grants |-> gs] \in Snapshot
  BY DEF Snapshot
<1> QED
  BY <1>1, <1>2 DEF Change, TypeOK

\* A request that changed into a request.
LEMMA RequestType ==
    ASSUME TypeInv, NEW r \in Requests, NEW q \in Request, Targeted(q),
           request' = [request EXCEPT ![r] = q]
    PROVE  /\ request' \in [Requests -> Request]
           /\ \A s \in Requests : Targeted(request'[s])
  BY DEF TypeInv, TypeOK

\* Every action keeps the types.
LEMMA TypeStep == TypeInv /\ [Next]_vars => TypeInv'
<1> SUFFICES ASSUME TypeInv, [Next]_vars PROVE TypeInv'
  OBVIOUS
<1> USE DEF Targeted
<1>0. TypeOK /\ \A s \in Requests : request[s] \in Request /\ Targeted(request[s])
  BY DEF TypeInv, TypeOK
<1>1. CASE UNCHANGED vars
  BY <1>1 DEF vars, TypeInv, TypeOK
<1>2. CASE ChangeStep
  <2>1. ASSUME NEW ms \in SUBSET (Principals \X Groups), NEW gs \in SUBSET GrantRow, Change(ms, gs),
               groups' \subseteq Groups, UNCHANGED <<layers, cache, request>>
        PROVE  TypeInv'
    BY <2>1, <1>0, ChangeType DEF TypeInv, TypeOK
  <2>2. ASSUME NEW m \in Principals, NEW g \in Groups, AddMember(m, g) PROVE TypeInv'
    BY <2>1, <2>2, <1>0 DEF AddMember, TypeOK
  <2>3. ASSUME NEW m \in Principals, NEW g \in Groups, RemoveMember(m, g) PROVE TypeInv'
    BY <2>1, <2>3, <1>0 DEF RemoveMember, TypeOK
  <2>4. ASSUME NEW g \in Groups, RemoveGroup(g) PROVE TypeInv'
    BY <2>1, <2>4, <1>0 DEF RemoveGroup, TypeOK
  <2>5. ASSUME NEW g \in Extending, ExtensionGrant(g) PROVE TypeInv'
    <3>1. version + 1 \in Versions
      BY <2>5, <1>0, AccessAssumption DEF ExtensionGrant, Change, TypeOK, Versions
    <3>2. grants \cup {Numbered(g, version + 1)} \in SUBSET GrantRow
      BY <3>1, <1>0, NumberedType, AccessAssumption DEF TypeOK
    <3> QED
      BY <2>1, <2>5, <3>2, <1>0 DEF ExtensionGrant, TypeOK
  <2> QED
    BY <1>2, <2>2, <2>3, <2>4, <2>5 DEF ChangeStep
<1>3. ASSUME NEW r \in Requests, NEW q \in Request, Targeted(q),
             request' = [request EXCEPT ![r] = q],
             members' \subseteq Principals \X Groups, grants' \subseteq GrantRow,
             version' \in Versions, past' \in [Versions -> Snapshot], UNCHANGED groups,
             layers' \in [Layers -> {"absent", "live", "deleted"}],
             cache' \in [Users -> [Versions -> SUBSET Principals]]
      PROVE  TypeInv'
  BY <1>3, <1>0, RequestType DEF TypeInv, TypeOK
<1>4. CASE \E r \in Requests : RequestStep(r)
  <2> PICK r \in Requests : RequestStep(r)
    BY <1>4
  <2>0. request \in [Requests -> Request] /\ request[r] \in Request
    BY <1>0 DEF TypeOK
  <2>1. ASSUME NEW u \in Users, BeginStep(r, u) PROVE TypeInv'
    <3>1. ASSUME NEW op \in {"search", "issue", "revoke", "create", "remove"},
                 NEW target \in Grant \cup GrantRow \cup Layers \cup {None},
                 op = "issue" => target \in Issuable,
                 op = "revoke" => target \in GrantRow,
                 op \in {"create", "remove"} => target \in Layers,
                 Begin(r, u, op, target)
          PROVE  TypeInv'
      <4> DEFINE q == [IdleRequest EXCEPT !.pc = "cache", !.op = op, !.user = u,
                                          !.target = target, !.start = version]
      <4>1. q \in Request
        BY <1>0, IdleType DEF Request, TypeOK, PCs
      <4>2. Targeted(q)
        BY <3>1 DEF IdleRequest
      <4>3. request' = [request EXCEPT ![r] = q]
        BY <3>1 DEF Begin
      <4> HIDE DEF q
      <4> QED
        BY <1>3, <3>1, <4>1, <4>2, <4>3, <1>0 DEF Begin, TypeOK
    <3>2. Issuable \subseteq Grant /\ grants \subseteq GrantRow
      BY <1>0, AccessAssumption DEF TypeOK
    <3> QED
      BY <2>1, <3>1, <3>2 DEF BeginStep
  <2>2. CASE CacheHit(r)
    <3> DEFINE q == [request[r] EXCEPT !.pc = "grants", !.principals = cache[request[r].user][CacheKey(r)]]
    <3>1. request' = [request EXCEPT ![r] = q]
      BY <2>2, <2>0 DEF CacheHit
    <3>2. cache[request[r].user][CacheKey(r)] \in SUBSET Principals
      BY <2>2, <1>0 DEF CacheHit, CacheKey, TypeOK, Request
    <3>3. q \in Request /\ Targeted(q)
      BY <3>2, <2>2, <1>0 DEF CacheHit, Request, PCs
    <3> HIDE DEF q
    <3> QED
      BY <1>3, <2>2, <3>1, <3>3, <1>0 DEF CacheHit, TypeOK
  <2>3. CASE CacheMiss(r)
    <3> DEFINE q == [request[r] EXCEPT !.pc = "graph"]
    <3>1. request' = [request EXCEPT ![r] = q]
      BY <2>3, <2>0 DEF CacheMiss
    <3>3. q \in Request /\ Targeted(q)
      BY <2>3, <1>0 DEF CacheMiss, Request, PCs
    <3> HIDE DEF q
    <3> QED
      BY <1>3, <2>3, <3>1, <3>3, <1>0 DEF CacheMiss, TypeOK
  <2>4. CASE LoadGraph(r)
    <3> DEFINE q == [request[r] EXCEPT !.pc = "store", !.principals = EffectivePrincipals(members, request[r].user)]
    <3>1. request' = [request EXCEPT ![r] = q]
      BY <2>4, <2>0 DEF LoadGraph
    <3>2. EffectivePrincipals(members, request[r].user) \in SUBSET Principals
      BY EffectiveType
    <3>3. q \in Request /\ Targeted(q)
      BY <3>2, <2>4, <1>0 DEF LoadGraph, Request, PCs
    <3> HIDE DEF q
    <3> QED
      BY <1>3, <2>4, <3>1, <3>3, <1>0 DEF LoadGraph, TypeOK
  <2>5. CASE CacheSet(r)
    <3> DEFINE q == [request[r] EXCEPT !.pc = "grants"]
    <3>1. request' = [request EXCEPT ![r] = q]
      BY <2>5, <2>0 DEF CacheSet
    <3>3. q \in Request /\ Targeted(q)
      BY <2>5, <1>0 DEF CacheSet, Request, PCs
    <3>4. cache' \in [Users -> [Versions -> SUBSET Principals]]
      <4>1. /\ request[r].user \in Users
            /\ CacheKey(r) \in Versions
            /\ request[r].principals \in SUBSET Principals
        BY <2>5, <1>0 DEF CacheSet, CacheKey, Request
      <4>2. cache \in [Users -> [Versions -> SUBSET Principals]]
        BY <1>0 DEF TypeOK
      <4>3. \/ cache' = [cache EXCEPT ![request[r].user][CacheKey(r)] = request[r].principals]
            \/ cache' = cache
        BY <2>5 DEF CacheSet
      <4> QED
        BY ONLY <4>1, <4>2, <4>3
    <3> HIDE DEF q
    <3> QED
      BY <1>3, <2>5, <3>1, <3>3, <3>4, <1>0 DEF CacheSet, TypeOK
  <2>6. CASE LoadGrants(r)
    <3> DEFINE q == [request[r] EXCEPT !.pc = "tree", !.grants = {g \in grants : g.principal \in request[r].principals}]
    <3>1. request' = [request EXCEPT ![r] = q]
      BY <2>6, <2>0 DEF LoadGrants
    <3>2. {g \in grants : g.principal \in request[r].principals} \in SUBSET GrantRow
      BY <1>0 DEF TypeOK
    <3>3. q \in Request /\ Targeted(q)
      BY <3>2, <2>6, <1>0 DEF LoadGrants, Request, PCs
    <3> HIDE DEF q
    <3> QED
      BY <1>3, <2>6, <3>1, <3>3, <1>0 DEF LoadGrants, TypeOK
  <2>7. CASE Search(r)
    <3> DEFINE q == [request[r] EXCEPT !.pc = "answered", !.answer = {d \in Documents : layers[LayerOf[d]] = "live" /\ Admits(request[r].plan, d, LayerOf[d])}]
    <3>1. request' = [request EXCEPT ![r] = q]
      BY <2>7, <2>0 DEF Search
    <3>3. q \in Request /\ Targeted(q)
      BY <2>7, <1>0 DEF Search, Request, PCs
    <3> HIDE DEF q
    <3> QED
      BY <1>3, <2>7, <3>1, <3>3, <1>0 DEF Search, TypeOK
  <2>8. CASE LoadTree(r)
    <3> DEFINE plan == Resolve(Role[request[r].user], Permission, request[r].principals,
                               request[r].grants, LoadedTree(LiveTree, request[r].grants), "read")
               q == [request[r] EXCEPT !.pc = "allowed", !.principals = {}, !.grants = {},
                                       !.plan = IF request[r].op = "search" THEN plan ELSE NoPlan]
    <3>1. plan \in Plan /\ NoPlan \in Plan
      BY ResolveType DEF NoPlan, Plan
    <3>2. \/ request' = [request EXCEPT ![r] = q]
          \/ request' = [request EXCEPT ![r] = IdleRequest]
      BY <2>8, <2>0 DEF LoadTree
    <3> HIDE DEF plan
    <3>3. q \in Request /\ Targeted(q)
      BY <3>1, <2>8, <1>0 DEF LoadTree, Request, PCs
    <3> HIDE DEF q
    <3> QED
      BY <1>3, <2>8, <3>2, <3>3, <1>0, IdleType DEF LoadTree, TypeOK
  <2>9. CASE IssueCheck(r)
    <3> DEFINE q == [request[r] EXCEPT !.pc = "acting"]
    <3>1. \/ request' = [request EXCEPT ![r] = q]
          \/ request' = [request EXCEPT ![r] = IdleRequest]
      BY <2>9, <2>0 DEF IssueCheck
    <3>2. q \in Request /\ Targeted(q)
      BY <2>9, <1>0 DEF IssueCheck, Request, PCs
    <3> HIDE DEF q
    <3> QED
      BY <1>3, <2>9, <3>1, <3>2, <1>0, IdleType DEF IssueCheck, TypeOK
  <2>10. CASE Issue(r)
    <3> DEFINE g == request[r].target
               old == {x \in grants : SameKey(x, g)}
               id == IF old = {} THEN version + 1 ELSE (CHOOSE x \in old : TRUE).id
    <3>1. g \in Grant
      BY <2>10, <1>0, AccessAssumption DEF Issue
    <3>2. id \in Versions
      <4>1. CASE old = {}
        BY <4>1, <2>10, <1>0, AccessAssumption DEF Issue, TypeOK, Versions
      <4>2. CASE old /= {}
        <5>1. (CHOOSE x \in old : TRUE) \in GrantRow
          BY <4>2, <1>0 DEF TypeOK
        <5> QED
          BY <4>2, <5>1 DEF GrantRow
      <4> QED
        BY <4>1, <4>2
    <3>3. Change(members, (grants \ old) \cup {Numbered(g, id)})
      BY <2>10 DEF Issue
    <3> HIDE DEF g, id
    <3>4. (grants \ old) \cup {Numbered(g, id)} \in SUBSET GrantRow
      BY <3>1, <3>2, NumberedType, <1>0 DEF TypeOK
    <3>5. /\ members' \subseteq Principals \X Groups
          /\ grants' \subseteq GrantRow
          /\ version' \in Versions
          /\ past' \in [Versions -> Snapshot]
      BY <3>3, <3>4, <1>0, ChangeType DEF TypeOK
    <3> QED
      BY <1>3, <2>10, <3>5, <1>0, IdleType DEF Issue, TypeOK
  <2>11. CASE Revoke(r)
    <3> DEFINE gone == {x \in grants : x.id = request[r].target.id /\ SameKey(x, request[r].target)}
    <3>1. Change(members, grants \ gone) \/ UNCHANGED <<members, grants, version, past>>
      BY <2>11 DEF Revoke
    <3>2. /\ members' \subseteq Principals \X Groups
          /\ grants' \subseteq GrantRow
          /\ version' \in Versions
          /\ past' \in [Versions -> Snapshot]
      <4> HIDE DEF gone
      <4>1. grants \ gone \in SUBSET GrantRow
        BY <1>0 DEF TypeOK
      <4> QED
        BY <3>1, <4>1, <1>0, ChangeType DEF TypeOK
    <3> QED
      BY <1>3, <2>11, <3>2, <1>0, IdleType DEF Revoke, TypeOK
  <2>12. CASE CreateLayer(r)
    BY <1>3, <2>12, <1>0, IdleType DEF CreateLayer, TypeOK
  <2>13. CASE RemoveLayer(r)
    <3> DEFINE on == {x \in grants : x.scope = request[r].target}
    <3>1. Change(members, grants \ on) \/ UNCHANGED <<members, grants, version, past>>
      BY <2>13 DEF RemoveLayer
    <3>2. /\ members' \subseteq Principals \X Groups
          /\ grants' \subseteq GrantRow
          /\ version' \in Versions
          /\ past' \in [Versions -> Snapshot]
      <4> HIDE DEF on
      <4>1. grants \ on \in SUBSET GrantRow
        BY <1>0 DEF TypeOK
      <4> QED
        BY <3>1, <4>1, <1>0, ChangeType DEF TypeOK
    <3>3. layers' \in [Layers -> {"absent", "live", "deleted"}]
      BY <2>13, <1>0 DEF RemoveLayer, TypeOK
    <3> QED
      BY <1>3, <2>13, <3>2, <3>3, <1>0, IdleType DEF RemoveLayer, TypeOK
  <2>14. CASE Finish(r)
    BY <1>3, <2>14, <1>0, IdleType DEF Finish, TypeOK
  <2> QED
    BY <2>1, <2>2, <2>3, <2>4, <2>5, <2>6, <2>7, <2>8, <2>9, <2>10, <2>11, <2>12, <2>13, <2>14 DEF RequestStep
<1> QED
  BY <1>1, <1>2, <1>4 DEF Next

\* The first state has the types.
LEMMA InitType == Init => TypeInv
<1> SUFFICES ASSUME Init PROVE TypeInv
  OBVIOUS
<1>1. 0 \in Versions
  BY AccessAssumption DEF Versions
<1>2. {Numbered(g, 0) : g \in InitialGrants} \subseteq GrantRow
  BY <1>1, NumberedType, AccessAssumption
<1>3. request \in [Requests -> Request] /\ \A r \in Requests : Targeted(request[r])
  BY IdleType DEF Init
<1> QED
  BY <1>1, <1>2, <1>3, AccessAssumption DEF Init, TypeInv, TypeOK, Snapshot

\* Every variable keeps its type, for every organization and number of requests.
THEOREM TypeCorrect == Spec => []TypeOK
  BY InitType, TypeStep, PTL DEF Spec, TypeInv

-----------------------------------------------------------------------------
(* The decisions are those of the whole tree *)

\* A scope whose id has been given: its layer is live, or was.
GivenIn(ls, scope) ==
    /\ scope \in Layers => ls[scope] /= "absent"
    /\ scope \in Documents => ls[LayerOf[scope]] /= "absent"

\* What the filter of a search admits, where its grants are on ids that were given
\* and the layer was not deleted, the rules allow in the whole tree.
LEMMA PlanSound ==
    ASSUME TypeOK, NEW role, NEW ps, NEW all, NEW loaded, NEW d \in Documents, NEW p \in Permission,
           loaded = {g \in all : g.principal \in ps},
           \A g \in all : GivenIn(layers, g.scope), NotDeleted(d),
           Admits(Resolve(role, Permission, ps, loaded, LoadedTree(LiveTree, loaded), p),
                  d, LayerOf[d])
    PROVE  ReferenceAllows(role, Permission, ps, all, WholeTree, d, p)
<1> DEFINE l == LayerOf[d]
           w == WorkspaceOf[l]
           A == Applicable(ps, loaded, p)
           T == LoadedTree(LiveTree, loaded)
<1>1. l \in Layers /\ w \in Workspaces
  BY AccessAssumption
<1>2. layers[l] \in {"absent", "live"}
  BY <1>1 DEF TypeOK, NotDeleted
<1>3. CASE layers[l] = "live"
  <2>1. /\ <<d, l>> \in LiveTree.layerOf
        /\ <<l, w>> \in LiveTree.workspaceOf
        /\ \A k \in Layers : <<d, k>> \in LiveTree.layerOf => k = l
        /\ \A v \in Workspaces : <<l, v>> \in LiveTree.workspaceOf => v = w
        /\ <<d, l>> \in WholeTree.layerOf
        /\ <<l, w>> \in WholeTree.workspaceOf
        /\ \A k \in Layers : <<d, k>> \in WholeTree.layerOf => k = l
        /\ \A v \in Workspaces : <<l, v>> \in WholeTree.workspaceOf => v = w
    BY <1>1, <1>3, TreePlaces
  <2> HIDE DEF w, A, T
  <2>2. ReferenceAllows(role, Permission, ps, loaded, LiveTree, d, p)
    BY <1>1, <2>1, TreeTypes, FilterMatchesReference
  <2> HIDE DEF l
  <2>3. Ancestry(d, LiveTree) = {d, l, w} /\ Ancestry(d, WholeTree) = {d, l, w}
    BY <1>1, <2>1, TreeTypes, DocumentAncestry
  <2> QED
    BY <2>2, <2>3, LoadedApplicable DEF ReferenceAllows, MemberAllows
<1>4. CASE layers[l] = "absent"
  <2>1. \A g \in loaded : g.scope /= l /\ g.scope /= d
    BY <1>1, <1>4 DEF GivenIn
  <2>2. \A v \in Workspaces : <<l, v>> \notin T.workspaceOf
    BY <1>1, <1>4, TreePlaces DEF LoadedTree, LiveTree
  <2>3. d \notin Named(Documents, A, "allow")
    BY <2>1 DEF Named, Applicable
  <2>4. l \notin Named(Layers, A, "allow")
    BY <2>1 DEF Named, Applicable
  <2> HIDE DEF l, w, A, T
  <2>5. l \notin Spread(A, T, "allow")
    BY <2>2, <2>4 DEF Spread, LayersOf, Named
  <2>6. ~Admits(ScopedPlan(A, T), d, l)
    <3> DEFINE ds == Spread(A, T, "deny")
               ls == Spread(A, T, "allow") \ ds
               xs == ExtraDocs(A, T, ls, ds)
    <3>1. d \notin xs
      BY <2>3 DEF ExtraDocs
    <3>2. l \notin ls
      BY <2>5
    <3>3. ScopedPlan(A, T) = IF ls = {} /\ xs = {} THEN NoPlan
                             ELSE [kind |-> "scoped", layers |-> ls, extraDocs |-> xs,
                                   deniedDocs |-> Named(Documents, A, "deny")]
      BY DEF ScopedPlan
    <3> HIDE DEF ls, xs, ds
    <3> QED
      BY <3>1, <3>2, <3>3 DEF Admits, NoPlan
  <2>7. Resolve(role, Permission, ps, loaded, T, p)
        = IF role = "platform_admin" THEN NoPlan
          ELSE IF role = "org_admin" THEN AllPlan ELSE ScopedPlan(A, T)
    BY DEF Resolve, A
  <2>8. Admits(Resolve(role, Permission, ps, loaded, T, p), d, l)
    BY DEF T, l
  <2>9. role = "org_admin"
    BY <2>6, <2>7, <2>8 DEF Admits, NoPlan
  <2> QED
    BY <2>9 DEF ReferenceAllows
<1> QED
  BY <1>2, <1>3, <1>4

\* What the rules allow of one scope in the tree a request loads, they allow in
\* the whole tree.
LEMMA ScopeSound ==
    ASSUME TypeOK, NEW role, NEW ps, NEW all, NEW loaded, NEW scope \in Scopes, NEW p \in Permission,
           loaded = {g \in all : g.principal \in ps},
           \A g \in all : GivenIn(layers, g.scope), NotDeleted(scope),
           ReferenceAllows(role, Permission, ps, loaded, LoadedTree(LiveTree, loaded), scope, p)
    PROVE  ReferenceAllows(role, Permission, ps, all, WholeTree, scope, p)
<1> DEFINE A == Applicable(ps, all, p)
           T == LoadedTree(LiveTree, loaded)
<1>1. Applicable(ps, loaded, p) = A
  BY LoadedApplicable
<1>2. /\ T.workspaceOf = LiveTree.workspaceOf
      /\ T.layerOf = {pair \in LiveTree.layerOf : \E g \in loaded : g.scope = pair[1]}
  BY DEF LoadedTree, LiveTree
<1>3. CASE role = "org_admin"
  BY <1>3 DEF ReferenceAllows
<1>4. ASSUME Ancestry(scope, T) = Ancestry(scope, WholeTree)
      PROVE  ReferenceAllows(role, Permission, ps, all, WholeTree, scope, p)
  BY <1>1, <1>4 DEF ReferenceAllows, MemberAllows
<1>5. ASSUME role /= "org_admin", \A g \in loaded : g.scope \notin Ancestry(scope, T) PROVE FALSE
  BY <1>5 DEF ReferenceAllows, MemberAllows, Applicable
<1>6. CASE scope \in Workspaces
  <2>1. scope \notin Layers /\ scope \notin Documents
    BY <1>6, ScopesAssumption
  <2>3. \A x : <<scope, x>> \notin LiveTree.layerOf /\ <<scope, x>> \notin LiveTree.workspaceOf
    BY <2>1, TreeTypes DEF Tree
  <2>4. \A x : <<scope, x>> \notin WholeTree.layerOf /\ <<scope, x>> \notin WholeTree.workspaceOf
    BY <2>1, TreeTypes DEF Tree
  <2>5. \A x : <<scope, x>> \notin T.layerOf /\ <<scope, x>> \notin T.workspaceOf
    BY <1>2, <2>3
  <2> HIDE DEF T
  <2>2. Ancestry(scope, T) = {scope} /\ Ancestry(scope, WholeTree) = {scope}
    BY <2>4, <2>5 DEF Ancestry
  <2> QED
    BY <1>4, <2>2 DEF T
<1>7. CASE scope \in Layers
  <2> DEFINE w == WorkspaceOf[scope]
  <2>1. scope \notin Documents /\ w \in Workspaces
    BY <1>7, ScopesAssumption, AccessAssumption
  <2>2. \A l : <<scope, l>> \notin T.layerOf /\ <<scope, l>> \notin WholeTree.layerOf
    BY <2>1, <1>2, TreeTypes DEF Tree
  <2>3. \A v \in Workspaces : <<scope, v>> \in WholeTree.workspaceOf <=> v = w
    BY <1>7, TreePlaces
  <2>4. \A v \in Workspaces : <<scope, v>> \in T.workspaceOf <=> v = w /\ layers[scope] = "live"
    BY <1>7, <1>2, TreePlaces
  <2>5. CASE layers[scope] = "live"
    <3> HIDE DEF T, w
    <3>1. Ancestry(scope, T) = {scope, w}
      BY <2>1, <2>2, <2>4, <2>5 DEF Ancestry
    <3>2. Ancestry(scope, WholeTree) = {scope, w}
      BY <2>1, <2>2, <2>3 DEF Ancestry
    <3> QED
      BY <1>4, <3>1, <3>2 DEF T
  <2>6. CASE layers[scope] = "absent"
    <3>1. Ancestry(scope, T) = {scope}
      BY <2>2, <2>4, <2>6 DEF Ancestry
    <3>2. \A g \in loaded : g.scope /= scope
      BY <1>7, <2>6 DEF GivenIn
    <3> QED
      BY <1>3, <1>5, <3>1, <3>2
  <2> QED
    BY <1>7, <2>5, <2>6 DEF TypeOK, NotDeleted
<1>8. CASE scope \in Documents
  <2> DEFINE l == LayerOf[scope]
             w == WorkspaceOf[l]
  <2>1. l \in Layers /\ w \in Workspaces /\ scope \notin Layers
    BY <1>8, ScopesAssumption, AccessAssumption
  <2>2. CASE layers[l] = "live" /\ \E g \in loaded : g.scope = scope
    <3>1. /\ <<scope, l>> \in WholeTree.layerOf
          /\ <<l, w>> \in WholeTree.workspaceOf
          /\ \A k \in Layers : <<scope, k>> \in WholeTree.layerOf => k = l
          /\ \A v \in Workspaces : <<l, v>> \in WholeTree.workspaceOf => v = w
      BY <1>8, <2>1, TreePlaces
    <3>2. /\ <<scope, l>> \in T.layerOf
          /\ <<l, w>> \in T.workspaceOf
          /\ \A k \in Layers : <<scope, k>> \in T.layerOf => k = l
          /\ \A v \in Workspaces : <<l, v>> \in T.workspaceOf => v = w
      BY <1>2, <1>8, <2>1, <2>2, TreePlaces
    <3>3. T \in Tree
      BY TreeTypes DEF LoadedTree, Tree
    <3> HIDE DEF T, l, w
    <3>4. Ancestry(scope, T) = {scope, l, w} /\ Ancestry(scope, WholeTree) = {scope, l, w}
      BY <1>8, <2>1, <3>1, <3>2, <3>3, TreeTypes, DocumentAncestry
    <3> QED
      BY <1>4, <3>4 DEF T
  <2>3. CASE ~(layers[l] = "live" /\ \E g \in loaded : g.scope = scope)
    <3>1. \A g \in loaded : g.scope /= scope
      <4>1. CASE layers[l] = "absent"
        BY <1>8, <4>1 DEF GivenIn
      <4>2. CASE layers[l] /= "absent"
        BY <1>8, <2>1, <2>3, <4>2 DEF TypeOK, NotDeleted
      <4> QED
        BY <4>1, <4>2
    <3>2. \A k : <<scope, k>> \notin T.layerOf
      BY <3>1, <1>2
    <3>3. \A v : <<scope, v>> \notin T.workspaceOf
      BY <2>1, <1>2, TreeTypes DEF Tree
    <3>4. Ancestry(scope, T) = {scope}
      BY <3>2, <3>3 DEF Ancestry
    <3> QED
      BY <1>3, <1>5, <3>1, <3>4
  <2> QED
    BY <2>2, <2>3
<1> QED
  BY <1>6, <1>7, <1>8 DEF Scopes

-----------------------------------------------------------------------------
(* What a request has read is of no version before it began *)

\* The history ends with the present, and no grant ever was on an id not given.
PastInv ==
    /\ past[version] = [members |-> members, grants |-> grants]
    /\ \A n \in 0 .. version : \A g \in past[n].grants : GivenIn(layers, g.scope)

ReadPrincipals(q, n) == q.principals = EffectivePrincipals(past[n].members, q.user)

ReadGrants(q, m) == q.grants = {g \in past[m].grants : g.principal \in q.principals}

\* What request r holds, at each of its steps.
RequestInv(r) ==
    /\ request[r].pc /= "idle" => request[r].start <= version
    /\ request[r].pc \in {"store", "grants"} =>
          \E n \in request[r].start .. version : ReadPrincipals(request[r], n)
    /\ request[r].pc = "tree" =>
          \E n \in request[r].start .. version : \E m \in n .. version :
              ReadPrincipals(request[r], n) /\ ReadGrants(request[r], m)
    /\ /\ request[r].pc \in {"allowed", "acting"}
       /\ request[r].op /= "search"
       /\ NotDeleted(TargetScope(r))
       => AllowedSince(r, TargetScope(r), "admin")
    /\ request[r].pc = "acting" /\ request[r].op = "issue" =>
          GivenIn(layers, request[r].target.scope)
    /\ request[r].pc = "allowed" /\ request[r].op = "search" =>
          \A d \in Documents : NotDeleted(d) /\ Admits(request[r].plan, d, LayerOf[d]) =>
              AllowedSince(r, d, "read")
    /\ request[r].pc = "answered" => \A d \in request[r].answer : AllowedSince(r, d, "read")

AuthInv == TypeInv /\ PastInv /\ CacheFresh /\ \A r \in Requests : RequestInv(r)

\* A layer goes from absent to live to deleted.
LayersAge ==
    \A l \in Layers :
        /\ layers[l] = "deleted" => layers'[l] = "deleted"
        /\ layers[l] /= "absent" => layers'[l] /= "absent"

\* History only grows.
Grows ==
    /\ version' \in Versions /\ version <= version'
    /\ \A n \in 0 .. version : past'[n] = past[n]
    /\ LayersAge

\* A scope that is not deleted was not deleted, and one given stays so.
LEMMA ScopesGrow ==
    ASSUME Grows, NEW scope
    PROVE  /\ NotDeleted(scope)' => NotDeleted(scope)
           /\ GivenIn(layers, scope) => GivenIn(layers', scope)
<1>1. scope \in Documents => LayerOf[scope] \in Layers
  BY AccessAssumption
<1> QED
  BY <1>1 DEF Grows, LayersAge, NotDeleted, GivenIn

\* An authority found once stays found.
LEMMA AllowedGrows ==
    ASSUME TypeInv, Grows, NEW r \in Requests, NEW scope, NEW p,
           request'[r].user = request[r].user, request'[r].start = request[r].start,
           AllowedSince(r, scope, p)
    PROVE  AllowedSince(r, scope, p)'
<1>1. version \in Nat /\ version' \in Nat /\ request[r].start \in Nat
  BY AccessAssumption DEF TypeInv, TypeOK, Versions, Grows, Request
<1>2a. PICK n \in request[r].start .. version : \E m \in n .. version :
         AllowedBy(request[r].user, n, m, scope, p)
  BY DEF AllowedSince
<1>2. PICK m \in n .. version : AllowedBy(request[r].user, n, m, scope, p)
  BY <1>2a
<1>3. past'[n] = past[n] /\ past'[m] = past[m]
  BY <1>1, <1>2 DEF Grows
<1>4. n \in request[r].start .. version' /\ m \in n .. version'
  BY <1>1, <1>2 DEF Grows
<1>5. AllowedBy(request[r].user, n, m, scope, p)'
  BY <1>2, <1>3 DEF AllowedBy
<1> QED
  BY <1>4, <1>5 DEF AllowedSince

\* What a request holds stays true while others move.
LEMMA RequestWaits ==
    ASSUME TypeInv, Grows, NEW r \in Requests, request'[r] = request[r], RequestInv(r)
    PROVE  RequestInv(r)'
<1>1. version \in Nat /\ version' \in Nat /\ request[r].start \in Nat
  BY AccessAssumption DEF TypeInv, TypeOK, Versions, Grows, Request
<1>2. \A n \in request[r].start .. version : n \in request[r].start .. version' /\ past'[n] = past[n]
  BY <1>1 DEF Grows
<1>3. \A n \in request[r].start .. version : \A m \in n .. version :
         m \in n .. version' /\ past'[m] = past[m]
  BY <1>1 DEF Grows
<1>4. TargetScope(r)' = TargetScope(r)
  BY DEF TargetScope
<1>5. ASSUME NEW scope, NEW p, AllowedSince(r, scope, p) PROVE AllowedSince(r, scope, p)'
  BY <1>5, AllowedGrows
<1>6. (request[r].pc /= "idle" => request[r].start <= version)'
  BY <1>1 DEF RequestInv, Grows
<1>7. (request[r].pc \in {"store", "grants"} =>
          \E n \in request[r].start .. version : ReadPrincipals(request[r], n))'
  BY <1>2 DEF RequestInv, ReadPrincipals
<1>8. (request[r].pc = "tree" =>
          \E n \in request[r].start .. version : \E m \in n .. version :
              ReadPrincipals(request[r], n) /\ ReadGrants(request[r], m))'
  <2> SUFFICES ASSUME request[r].pc = "tree"
               PROVE  \E n \in request[r].start .. version' : \E m \in n .. version' :
                          ReadPrincipals(request[r], n)' /\ ReadGrants(request[r], m)'
    OBVIOUS
  <2>0. PICK n \in request[r].start .. version : \E m \in n .. version :
           ReadPrincipals(request[r], n) /\ ReadGrants(request[r], m)
    BY DEF RequestInv
  <2>1. PICK m \in n .. version : ReadPrincipals(request[r], n) /\ ReadGrants(request[r], m)
    BY <2>0
  <2>2. ReadPrincipals(request[r], n)' /\ ReadGrants(request[r], m)'
    BY <2>1, <1>2, <1>3 DEF ReadPrincipals, ReadGrants
  <2> QED
    BY <2>1, <2>2, <1>2, <1>3
<1>9. (/\ request[r].pc \in {"allowed", "acting"}
       /\ request[r].op /= "search"
       /\ NotDeleted(TargetScope(r))
       => AllowedSince(r, TargetScope(r), "admin"))'
  BY <1>4, <1>5, ScopesGrow DEF RequestInv
<1>10. (request[r].pc = "acting" /\ request[r].op = "issue" =>
          GivenIn(layers, request[r].target.scope))'
  BY ScopesGrow DEF RequestInv
<1>11. (request[r].pc = "allowed" /\ request[r].op = "search" =>
          \A d \in Documents : NotDeleted(d) /\ Admits(request[r].plan, d, LayerOf[d]) =>
              AllowedSince(r, d, "read"))'
  BY <1>5, ScopesGrow DEF RequestInv
<1>12. (request[r].pc = "answered" => \A d \in request[r].answer : AllowedSince(r, d, "read"))'
  BY <1>5 DEF RequestInv
<1> QED
  BY <1>6, <1>7, <1>8, <1>9, <1>10, <1>11, <1>12 DEF RequestInv

\* The cache stays fresh while it is left alone.
LEMMA CacheWaits ==
    ASSUME TypeInv, Grows, CacheFresh, cache' = cache
    PROVE  CacheFresh'
<1>1. version \in Nat /\ version' \in Nat
  BY AccessAssumption DEF TypeInv, TypeOK, Versions, Grows
<1> SUFFICES ASSUME NEW u \in Users, NEW v \in Versions, cache[u][v] /= {}
             PROVE  \E n \in v .. version' :
                        cache[u][v] = EffectivePrincipals(past'[n].members, u)
  BY DEF CacheFresh
<1>2. PICK n \in v .. version : cache[u][v] = EffectivePrincipals(past[n].members, u)
  BY DEF CacheFresh
<1>3. n \in v .. version' /\ past'[n] = past[n]
  BY <1>1, AccessAssumption DEF Grows, Versions
<1> QED
  BY <1>2, <1>3

\* A change extends the history.
LEMMA ChangeGrows ==
    ASSUME TypeInv, PastInv, NEW ms, NEW gs, Change(ms, gs),
           LayersAge,
           \A g \in gs : GivenIn(layers', g.scope)
    PROVE  Grows /\ PastInv'
<1>1. version \in Nat /\ version + 1 \in Versions /\ version' = version + 1
  BY AccessAssumption DEF TypeInv, TypeOK, Versions, Change
<1>2. past' = [past EXCEPT ![version + 1] = [members |-> ms, grants |-> gs]]
      /\ past \in [Versions -> Snapshot]
  BY DEF Change, TypeInv, TypeOK
<1>3. \A n \in 0 .. version : past'[n] = past[n]
  BY <1>1, <1>2 DEF Versions
<1>4. past'[version + 1] = [members |-> ms, grants |-> gs]
  BY <1>1, <1>2
<1>5. Grows
  BY <1>1, <1>3 DEF Grows
<1>6. ASSUME NEW n \in 0 .. version', NEW g \in past'[n].grants PROVE GivenIn(layers', g.scope)
  <2>1. CASE n = version + 1
    BY <2>1, <1>4, <1>6
  <2>2. CASE n \in 0 .. version
    BY <2>2, <1>3, <1>5, <1>6, ScopesGrow DEF PastInv
  <2> QED
    BY <1>1, <2>1, <2>2
<1> QED
  BY <1>1, <1>4, <1>5, <1>6 DEF PastInv, Change

\* A step that changes no rows keeps the history.
LEMMA StillGrows ==
    ASSUME TypeInv, PastInv, UNCHANGED <<members, grants, version, past>>,
           LayersAge
    PROVE  Grows /\ PastInv'
<1>1. version \in Versions /\ version \in Nat
  BY AccessAssumption DEF TypeInv, TypeOK, Versions
<1>2. Grows
  BY <1>1 DEF Grows
<1> QED
  BY <1>2, ScopesGrow DEF PastInv

\* A request that ends holds nothing.
LEMMA IdleInv == ASSUME NEW r \in Requests, request'[r] = IdleRequest PROVE RequestInv(r)'
  BY DEF RequestInv, IdleRequest

\* The decision of a request, from what it read.
LEMMA DecisionStep ==
    ASSUME AuthInv, NEW r \in Requests, LoadTree(r)
    PROVE  RequestInv(r)'
<1> DEFINE q == request[r]
           T == LoadedTree(LiveTree, q.grants)
           plan == Resolve(Role[q.user], Permission, q.principals, q.grants, T, "read")
           q2 == [q EXCEPT !.pc = "allowed", !.principals = {}, !.grants = {},
                           !.plan = IF q.op = "search" THEN plan ELSE NoPlan]
           allowed == IF q.op = "search" THEN plan.kind /= "none"
                      ELSE ReferenceAllows(Role[q.user], Permission, q.principals, q.grants, T,
                                           TargetScope(r), "admin")
<1>1. q \in Request /\ q.pc = "tree" /\ q.user \in Users /\ TypeOK /\ Targeted(q)
  BY DEF AuthInv, TypeInv, TypeOK, LoadTree, Targeted
<1>2. version \in Nat /\ q.start \in Nat
  BY <1>1, AccessAssumption DEF TypeOK, Versions, Request
<1>3. PICK n \in q.start .. version : \E m \in n .. version :
         ReadPrincipals(q, n) /\ ReadGrants(q, m)
  BY <1>1 DEF AuthInv, RequestInv
<1>4. PICK m \in n .. version : ReadPrincipals(q, n) /\ ReadGrants(q, m)
  BY <1>3
<1>5. request' = [request EXCEPT ![r] = IF allowed THEN q2 ELSE IdleRequest]
  BY DEF LoadTree
<1>6. UNCHANGED <<layers, version, past>>
  BY DEF LoadTree
<1>7. \A g \in past[m].grants : GivenIn(layers, g.scope)
  BY <1>2 DEF AuthInv, PastInv
<1>8. request \in [Requests -> Request]
  BY <1>1 DEF TypeOK
<1>9. TargetScope(r) \in Scopes \/ q.op = "search"
  <2>1. CASE q.op = "issue"
    BY <2>1, <1>1, AccessAssumption DEF TargetScope, Targeted, Grant
  <2>2. CASE q.op = "revoke"
    BY <2>2, <1>1 DEF TargetScope, Targeted, GrantRow
  <2>3. CASE q.op \in {"create", "remove"}
    BY <2>3, <1>1, AccessAssumption DEF TargetScope, Targeted, Scopes
  <2> QED
    BY <2>1, <2>2, <2>3, <1>1 DEF Request, Targeted
<1>10. CASE ~allowed
  BY <1>5, <1>8, <1>10, IdleInv
<1>11. CASE allowed
  <2>1. request'[r] = q2
    BY <1>5, <1>8, <1>11
  <2>2. /\ q2.pc = "allowed" /\ q2.op = q.op /\ q2.user = q.user /\ q2.start = q.start
        /\ q2.target = q.target
        /\ q.op = "search" => q2.plan = plan
    BY <1>1 DEF Request
  <2>3. ASSUME NEW scope, NEW p, AllowedBy(q.user, n, m, scope, p) PROVE AllowedSince(r, scope, p)'
    <3>1. PICK u : u = q.user
      OBVIOUS
    <3>2. AllowedBy(u, n, m, scope, p)'
      BY <1>6, <2>3, <3>1 DEF AllowedBy
    <3>3. request'[r].user = u /\ request'[r].start = q.start /\ version' = version
      BY <1>6, <2>1, <2>2, <3>1
    <3> HIDE DEF q, q2
    <3> QED
      BY <3>2, <3>3 DEF AllowedSince
  <2>4. ASSUME q.op /= "search", NotDeleted(TargetScope(r)) PROVE AllowedSince(r, TargetScope(r), "admin")'
    <3> DEFINE scope == TargetScope(r)
    <3>1. scope' = scope
      BY <2>1, <2>2 DEF TargetScope
    <3>2. ReferenceAllows(Role[q.user], Permission, q.principals, q.grants, T, scope, "admin")
      BY <1>11, <2>4
    <3>3. scope \in Scopes /\ "admin" \in Permission
      BY <1>9, <2>4 DEF Permission
    <3> HIDE DEF scope, q
    <3>4. ReferenceAllows(Role[q.user], Permission, q.principals, past[m].grants, WholeTree,
                          scope, "admin")
      BY <1>1, <1>4, <1>7, <2>4, <3>2, <3>3, ScopeSound DEF ReadGrants, scope
    <3>5. AllowedBy(q.user, n, m, scope, "admin")
      BY <1>4, <3>4 DEF AllowedBy, ReadPrincipals
    <3> QED
      BY <2>3, <3>1, <3>5 DEF scope
  <2>5. ASSUME q.op = "search", NEW d \in Documents, NotDeleted(d), Admits(plan, d, LayerOf[d])
        PROVE  AllowedSince(r, d, "read")'
    <3>1. "read" \in Permission
      BY DEF Permission
    <3> HIDE DEF q
    <3>2. ReferenceAllows(Role[q.user], Permission, q.principals, past[m].grants, WholeTree, d, "read")
      BY <1>1, <1>4, <1>7, <2>5, <3>1, PlanSound DEF ReadGrants
    <3>3. AllowedBy(q.user, n, m, d, "read")
      BY <1>4, <3>2 DEF AllowedBy, ReadPrincipals
    <3> QED
      BY <2>3, <3>3
  <2>6. /\ TargetScope(r)' = TargetScope(r)
        /\ \A scope : NotDeleted(scope)' <=> NotDeleted(scope)
    BY <1>6, <2>1, <2>2 DEF TargetScope, NotDeleted
  <2>7. q.start <= version
    BY <1>1 DEF AuthInv, RequestInv
  <2> HIDE DEF q, q2, plan
  <2> QED
    BY <1>6, <2>1, <2>2, <2>4, <2>5, <2>6, <2>7 DEF RequestInv
<1> QED
  BY <1>10, <1>11

\* Every action keeps AuthInv.
LEMMA AuthStep == AuthInv /\ [Next]_vars => AuthInv'
<1> SUFFICES ASSUME AuthInv, [Next]_vars PROVE AuthInv'
  OBVIOUS
<1>0. /\ TypeInv /\ TypeInv' /\ PastInv /\ CacheFresh
      /\ \A r \in Requests : RequestInv(r)
      /\ version \in Nat /\ version \in 0 .. version
      /\ past[version].members = members /\ past[version].grants = grants
  BY TypeStep, AccessAssumption DEF AuthInv, TypeInv, TypeOK, Versions, PastInv
<1>t. /\ request \in [Requests -> Request]
      /\ layers \in [Layers -> {"absent", "live", "deleted"}]
  BY <1>0 DEF TypeInv, TypeOK
<1>a. ASSUME Grows, PastInv', CacheFresh', NEW r \in Requests, RequestInv(r)',
             \A s \in Requests \ {r} : request'[s] = request[s]
      PROVE  AuthInv'
  <2>1. ASSUME NEW s \in Requests PROVE RequestInv(s)'
    <3>1. CASE s = r
      BY <1>a, <3>1
    <3>2. CASE s /= r
      BY <1>a, <1>0, <3>2, RequestWaits
    <3> QED
      BY <3>1, <3>2
  <2> QED
    BY <1>0, <1>a, <2>1 DEF AuthInv
<1>b. ASSUME Grows, PastInv', cache' = cache, request' = request PROVE AuthInv'
  <2>1. ASSUME NEW s \in Requests PROVE RequestInv(s)'
    BY <1>b, <1>0, RequestWaits
  <2> QED
    BY <1>0, <1>b, <2>1, CacheWaits DEF AuthInv
<1>c. ASSUME UNCHANGED <<members, grants, version, past, layers>> PROVE Grows /\ PastInv'
  BY <1>c, <1>0, StillGrows DEF LayersAge
<1>d. ASSUME NEW r \in Requests, NEW q, request' = [request EXCEPT ![r] = q]
      PROVE  request'[r] = q /\ \A s \in Requests \ {r} : request'[s] = request[s]
  BY <1>d, <1>t
<1>e. ASSUME NEW g \in grants PROVE GivenIn(layers, g.scope)
  BY <1>0, <1>e DEF PastInv
<1>1. CASE UNCHANGED vars
  BY <1>1, <1>b, <1>c DEF vars
<1>2. CASE ChangeStep
  <2>1. ASSUME NEW ms, NEW gs, Change(ms, gs), UNCHANGED <<layers, cache, request>>,
               \A g \in gs : GivenIn(layers, g.scope)
        PROVE  AuthInv'
    <3>1. Grows /\ PastInv'
      BY <2>1, <1>0, ChangeGrows DEF LayersAge
    <3> QED
      BY <2>1, <3>1, <1>b
  <2>2. ASSUME NEW m \in Principals, NEW g \in Groups, AddMember(m, g) PROVE AuthInv'
    BY <2>1, <2>2, <1>e DEF AddMember
  <2>3. ASSUME NEW m \in Principals, NEW g \in Groups, RemoveMember(m, g) PROVE AuthInv'
    BY <2>1, <2>3, <1>e DEF RemoveMember
  <2>4. ASSUME NEW g \in Groups, RemoveGroup(g) PROVE AuthInv'
    BY <2>1, <2>4, <1>e DEF RemoveGroup
  <2>5. ASSUME NEW g \in Extending, ExtensionGrant(g) PROVE AuthInv'
    <3>1. GivenIn(layers, Numbered(g, version + 1).scope)
      BY <2>5, <1>t, AccessAssumption DEF ExtensionGrant, LiveScope, GivenIn, Numbered
    <3> QED
      BY <2>1, <2>5, <3>1, <1>e DEF ExtensionGrant
  <2> QED
    BY <1>2, <2>2, <2>3, <2>4, <2>5 DEF ChangeStep
<1>3. CASE \E r \in Requests : RequestStep(r)
  <2> PICK r \in Requests : RequestStep(r)
    BY <1>3
  <2> DEFINE q == request[r]
  <2>0. /\ q \in Request /\ q.start \in Versions /\ q.start \in Nat
        /\ q.pc /= "idle" => q.user \in Users /\ q.start <= version
    BY <1>0, <1>t, AccessAssumption DEF Request, TypeInv, Targeted, RequestInv, Versions
  <2>a. ASSUME UNCHANGED <<members, grants, version, past, layers>>, CacheFresh',
               NEW q2, request' = [request EXCEPT ![r] = q2], RequestInv(r)'
        PROVE  AuthInv'
    BY <2>a, <1>a, <1>c, <1>d
  <2>b. ASSUME UNCHANGED <<members, grants, version, past, layers, cache>> PROVE CacheFresh'
    BY <2>b, <1>0, <1>c, CacheWaits
  <2>c. ASSUME Grows, PastInv', cache' = cache, request' = [request EXCEPT ![r] = IdleRequest]
        PROVE  AuthInv'
    BY <2>c, <1>0, <1>a, <1>d, IdleInv, CacheWaits
  <2>1. ASSUME NEW u \in Users, BeginStep(r, u) PROVE AuthInv'
    <3>1. ASSUME NEW op, NEW target, Begin(r, u, op, target) PROVE AuthInv'
      <4> DEFINE q2 == [IdleRequest EXCEPT !.pc = "cache", !.op = op, !.user = u,
                                           !.target = target, !.start = version]
      <4>1. request' = [request EXCEPT ![r] = q2]
        BY <3>1 DEF Begin
      <4>2. q2.pc = "cache" /\ q2.start = version
        BY DEF IdleRequest
      <4> HIDE DEF q2
      <4>3. RequestInv(r)'
        BY <1>0, <1>d, <3>1, <4>1, <4>2 DEF RequestInv, Begin
      <4> QED
        BY <2>a, <2>b, <3>1, <4>1, <4>3 DEF Begin
    <3> QED
      BY <2>1, <3>1 DEF BeginStep
  <2>2. CASE CacheHit(r)
    <3> DEFINE q2 == [q EXCEPT !.pc = "grants", !.principals = cache[q.user][CacheKey(r)]]
    <3>1. request' = [request EXCEPT ![r] = q2]
      BY <2>2, <1>t DEF CacheHit
    <3>2. PICK n \in q.start .. version :
             cache[q.user][CacheKey(r)] = EffectivePrincipals(past[n].members, q.user)
      BY <2>0, <2>2, <1>0 DEF CacheHit, CacheKey, CacheFresh
    <3>3. /\ q2.pc = "grants" /\ q2.start = q.start /\ q2.user = q.user
          /\ q2.principals = EffectivePrincipals(past[n].members, q.user)
      BY <2>0, <3>2 DEF Request
    <3>4. request'[r] = q2
      BY <1>d, <3>1
    <3>5. UNCHANGED <<version, past>> /\ q.start <= version
      BY <2>0, <2>2 DEF CacheHit
    <3> HIDE DEF q, q2
    <3>6. RequestInv(r)'
      BY <3>2, <3>3, <3>4, <3>5 DEF RequestInv, ReadPrincipals
    <3> QED
      BY <2>a, <2>b, <2>2, <3>1, <3>6 DEF CacheHit
  <2>3. CASE CacheMiss(r)
    <3> DEFINE q2 == [q EXCEPT !.pc = "graph"]
    <3>1. request' = [request EXCEPT ![r] = q2]
      BY <2>3, <1>t DEF CacheMiss
    <3>2. q2.pc = "graph" /\ q2.start = q.start
      BY <2>0 DEF Request
    <3>3. RequestInv(r)'
      BY <2>0, <2>3, <1>d, <3>1, <3>2 DEF RequestInv, CacheMiss
    <3> HIDE DEF q2
    <3> QED
      BY <2>a, <2>b, <2>3, <3>1, <3>3 DEF CacheMiss
  <2>4. CASE LoadGraph(r)
    <3> DEFINE q2 == [q EXCEPT !.pc = "store", !.principals = EffectivePrincipals(members, q.user)]
    <3>1. request' = [request EXCEPT ![r] = q2]
      BY <2>4, <1>t DEF LoadGraph
    <3>2. /\ q2.pc = "store" /\ q2.start = q.start /\ q2.user = q.user
          /\ q2.principals = EffectivePrincipals(past[version].members, q.user)
      BY <2>0, <1>0 DEF Request
    <3>3. request'[r] = q2
      BY <1>d, <3>1
    <3>4. UNCHANGED <<version, past>> /\ q.start <= version /\ version \in q.start .. version
      BY <2>0, <2>4, <1>0 DEF LoadGraph
    <3> HIDE DEF q, q2
    <3>5. RequestInv(r)'
      BY <3>2, <3>3, <3>4 DEF RequestInv, ReadPrincipals
    <3> QED
      BY <2>a, <2>b, <2>4, <3>1, <3>5 DEF LoadGraph
  <2>5. CASE CacheSet(r)
    <3> DEFINE q2 == [q EXCEPT !.pc = "grants"]
    <3>1. request' = [request EXCEPT ![r] = q2]
      BY <2>5, <1>t DEF CacheSet
    <3>2. /\ q2.pc = "grants" /\ q2.start = q.start /\ q2.user = q.user
          /\ q2.principals = q.principals
      BY <2>0 DEF Request
    <3>3. PICK n \in q.start .. version : q.principals = EffectivePrincipals(past[n].members, q.user)
      BY <2>5, <1>0 DEF CacheSet, RequestInv, ReadPrincipals
    <3>4. request'[r] = q2
      BY <1>d, <3>1
    <3>5. UNCHANGED <<version, past>> /\ q.start <= version /\ q.user \in Users
      BY <2>0, <2>5 DEF CacheSet
    <3>6. CacheFresh'
      <4>1. cache \in [Users -> [Versions -> SUBSET Principals]]
        BY <1>0 DEF TypeInv, TypeOK
      <4>2. \/ cache' = [cache EXCEPT ![q.user][q.start] = q.principals]
            \/ cache' = cache
        BY <2>5 DEF CacheSet, CacheKey
      <4> HIDE DEF q
      <4>3. ASSUME NEW u \in Users, NEW v \in Versions, cache'[u][v] /= {}
            PROVE  \E i \in v .. version : cache'[u][v] = EffectivePrincipals(past[i].members, u)
        <5>1. CASE cache'[u][v] = cache[u][v]
          BY <5>1, <4>3, <1>0 DEF CacheFresh
        <5>2. CASE cache'[u][v] /= cache[u][v]
          <6>1. u = q.user /\ v = q.start /\ cache'[u][v] = q.principals
            BY <4>1, <4>2, <5>2
          <6> QED
            BY <6>1, <3>3
        <5> QED
          BY <5>1, <5>2
      <4> QED
        BY <4>3, <3>5 DEF CacheFresh
    <3> HIDE DEF q, q2
    <3>7. RequestInv(r)'
      BY <3>2, <3>3, <3>4, <3>5 DEF RequestInv, ReadPrincipals
    <3> QED
      BY <2>a, <2>5, <3>1, <3>6, <3>7 DEF CacheSet
  <2>6. CASE LoadGrants(r)
    <3> DEFINE q2 == [q EXCEPT !.pc = "tree", !.grants = {g \in grants : g.principal \in q.principals}]
    <3>1. request' = [request EXCEPT ![r] = q2]
      BY <2>6, <1>t DEF LoadGrants
    <3>2. /\ q2.pc = "tree" /\ q2.start = q.start /\ q2.user = q.user
          /\ q2.principals = q.principals
          /\ q2.grants = {g \in past[version].grants : g.principal \in q.principals}
      BY <2>0, <1>0 DEF Request
    <3>3. PICK n \in q.start .. version : q.principals = EffectivePrincipals(past[n].members, q.user)
      BY <2>6, <1>0 DEF LoadGrants, RequestInv, ReadPrincipals
    <3>4. request'[r] = q2
      BY <1>d, <3>1
    <3>5. UNCHANGED <<version, past>> /\ q.start <= version /\ version \in n .. version
      BY <2>0, <2>6, <1>0 DEF LoadGrants
    <3> HIDE DEF q, q2
    <3>6. RequestInv(r)'
      BY <3>2, <3>3, <3>4, <3>5 DEF RequestInv, ReadPrincipals, ReadGrants
    <3> QED
      BY <2>a, <2>b, <2>6, <3>1, <3>6 DEF LoadGrants
  <2>7. CASE LoadTree(r)
    <3>1. RequestInv(r)'
      BY <2>7, DecisionStep
    <3>2. PICK q2 : request' = [request EXCEPT ![r] = q2]
      BY <2>7 DEF LoadTree
    <3> QED
      BY <2>a, <2>b, <2>7, <3>1, <3>2 DEF LoadTree
  <2>8. CASE Search(r)
    <3> DEFINE found == {d \in Documents : /\ layers[LayerOf[d]] = "live"
                                          /\ Admits(q.plan, d, LayerOf[d])}
               q2 == [q EXCEPT !.pc = "answered", !.answer = found]
    <3>1. request' = [request EXCEPT ![r] = q2]
      BY <2>8, <1>t DEF Search
    <3>2. /\ q2.pc = "answered" /\ q2.start = q.start /\ q2.user = q.user /\ q2.answer = found
      BY <2>0 DEF Request
    <3>3. request'[r] = q2
      BY <1>d, <3>1
    <3>4. ASSUME NEW d \in found PROVE AllowedSince(r, d, "read")
      <4>1. NotDeleted(d)
        BY ScopesAssumption DEF NotDeleted
      <4> QED
        BY <2>8, <4>1, <1>0 DEF Search, RequestInv
    <3>5. Grows
      BY <2>8, <1>c DEF Search
    <3>6. ASSUME NEW d \in found PROVE AllowedSince(r, d, "read")'
      BY <3>2, <3>3, <3>4, <3>5, <1>0, AllowedGrows
    <3>7. UNCHANGED <<version, past>> /\ q.start <= version
      BY <2>0, <2>8 DEF Search
    <3> HIDE DEF q, q2, found
    <3>8. RequestInv(r)'
      BY <3>2, <3>3, <3>6, <3>7 DEF RequestInv
    <3> QED
      BY <2>a, <2>b, <2>8, <3>1, <3>8 DEF Search
  <2>9. CASE IssueCheck(r)
    <3> DEFINE q2 == [q EXCEPT !.pc = "acting"]
               exists == /\ LiveScope(q.target.scope)
                         /\ q.target.principal \in Users \cup groups
    <3>1. request' = [request EXCEPT ![r] = IF exists THEN q2 ELSE IdleRequest]
      BY <2>9, <1>t DEF IssueCheck
    <3>2. Grows /\ PastInv'
      BY <2>9, <1>c DEF IssueCheck
    <3>3. CASE ~exists
      BY <2>9, <2>c, <3>1, <3>2, <3>3 DEF IssueCheck
    <3>4. CASE exists
      <4>1. request' = [request EXCEPT ![r] = q2]
        BY <3>1, <3>4
      <4>2. /\ q2.pc = "acting" /\ q2.start = q.start /\ q2.user = q.user /\ q2.op = "issue"
            /\ q2.target = q.target /\ q.op = "issue" /\ q.pc = "allowed"
        BY <2>0, <2>9 DEF Request, IssueCheck
      <4>3. request'[r] = q2
        BY <1>d, <4>1
      <4>4. GivenIn(layers, q.target.scope) /\ UNCHANGED <<layers, version, past>>
        BY <2>9, <3>4 DEF IssueCheck, LiveScope, GivenIn
      <4>5. TargetScope(r)' = TargetScope(r)
        BY <4>2, <4>3 DEF TargetScope
      <4>6. NotDeleted(TargetScope(r)) => AllowedSince(r, TargetScope(r), "admin")
        BY <4>2, <1>0 DEF RequestInv
      <4>7. PICK scope : scope = TargetScope(r)
        OBVIOUS
      <4>8. (NotDeleted(scope) => AllowedSince(r, scope, "admin"))'
        BY <4>2, <4>3, <4>6, <4>7, <3>2, <1>0, ScopesGrow, AllowedGrows
      <4>9. q.start <= version
        BY <2>0, <4>2
      <4> HIDE DEF q, q2
      <4>10. RequestInv(r)'
        BY <4>2, <4>3, <4>4, <4>5, <4>7, <4>8, <4>9 DEF RequestInv
      <4> QED
        BY <2>a, <2>b, <2>9, <4>1, <4>10 DEF IssueCheck
    <3> QED
      BY <3>3, <3>4
  <2>10. CASE Issue(r)
    <3> DEFINE g == q.target
               old == {x \in grants : SameKey(x, g)}
               id == IF old = {} THEN version + 1 ELSE (CHOOSE x \in old : TRUE).id
    <3>1. Change(members, (grants \ old) \cup {Numbered(g, id)})
      BY <2>10 DEF Issue
    <3>2. GivenIn(layers, Numbered(g, id).scope)
      BY <2>10, <1>0 DEF Issue, RequestInv, Numbered
    <3> HIDE DEF g, old, id
    <3>3. \A x \in (grants \ old) \cup {Numbered(g, id)} : GivenIn(layers, x.scope)
      BY <3>2, <1>e
    <3>4. layers' = layers /\ LayersAge
      BY <2>10 DEF Issue, LayersAge
    <3>5. Grows /\ PastInv'
      BY <1>0, <3>1, <3>3, <3>4, ChangeGrows
    <3> QED
      BY <2>c, <2>10, <3>5 DEF Issue
  <2>11. CASE Revoke(r)
    <3> DEFINE gone == {x \in grants : x.id = q.target.id /\ SameKey(x, q.target)}
    <3>1. Change(members, grants \ gone) \/ UNCHANGED <<members, grants, version, past>>
      BY <2>11 DEF Revoke
    <3>2. layers' = layers /\ LayersAge
      BY <2>11 DEF Revoke, LayersAge
    <3> HIDE DEF gone
    <3>3. \A x \in grants \ gone : GivenIn(layers', x.scope)
      BY <1>e, <3>2
    <3>4. CASE Change(members, grants \ gone)
      <4>1. Grows /\ PastInv'
        BY <1>0, <3>2, <3>3, <3>4, ChangeGrows
      <4> QED
        BY <2>c, <2>11, <4>1 DEF Revoke
    <3>5. CASE UNCHANGED <<members, grants, version, past>>
      BY <2>c, <2>11, <3>2, <3>5, <1>c DEF Revoke
    <3> QED
      BY <3>1, <3>4, <3>5
  <2>12. CASE CreateLayer(r)
    <3>1. LayersAge
      BY <2>12, <1>t DEF CreateLayer, LayersAge
    <3>2. Grows /\ PastInv'
      BY <2>12, <3>1, <1>0, StillGrows DEF CreateLayer
    <3> QED
      BY <2>c, <2>12, <3>2 DEF CreateLayer
  <2>13. CASE RemoveLayer(r)
    <3> DEFINE on == {x \in grants : x.scope = q.target}
    <3>1. Change(members, grants \ on) \/ UNCHANGED <<members, grants, version, past>>
      BY <2>13 DEF RemoveLayer
    <3>2. LayersAge
      BY <2>13, <1>t DEF RemoveLayer, LayersAge
    <3> HIDE DEF on
    <3>3. \A x \in grants \ on : GivenIn(layers', x.scope)
      <4>1. ASSUME NEW scope, GivenIn(layers, scope) PROVE GivenIn(layers', scope)
        BY <3>2, <4>1, AccessAssumption DEF GivenIn, LayersAge
      <4> QED
        BY <1>e, <4>1
    <3>4. CASE Change(members, grants \ on)
      <4>1. Grows /\ PastInv'
        BY <1>0, <3>2, <3>3, <3>4, ChangeGrows
      <4> QED
        BY <2>c, <2>13, <4>1 DEF RemoveLayer
    <3>5. CASE UNCHANGED <<members, grants, version, past>>
      <4>1. Grows /\ PastInv'
        BY <1>0, <3>2, <3>5, StillGrows
      <4> QED
        BY <2>c, <2>13, <4>1 DEF RemoveLayer
    <3> QED
      BY <3>1, <3>4, <3>5
  <2>14. CASE Finish(r)
    BY <2>c, <2>14, <1>c DEF Finish
  <2> QED
    BY <2>1, <2>2, <2>3, <2>4, <2>5, <2>6, <2>7, <2>8, <2>9, <2>10, <2>11, <2>12, <2>13, <2>14
       DEF RequestStep
<1> QED
  BY <1>1, <1>2, <1>3 DEF Next

\* A request sees neither a membership nor a grant that was gone when it began,
\* whoever else caches, issues, revokes or removes meanwhile.
LEMMA AuthInvariant == Spec => []AuthInv
<1>1. Init => AuthInv
  <2> SUFFICES ASSUME Init PROVE AuthInv
    OBVIOUS
  <2>1. TypeInv
    BY InitType
  <2>2. 0 \in Versions
    BY AccessAssumption DEF Versions
  <2>3. \A n \in Versions : past[n] = [members |-> members, grants |-> grants]
    BY DEF Init
  <2>4. \A g \in grants : GivenIn(layers, g.scope)
    BY DEF Init, LiveScope, GivenIn, Numbered
  <2>5. PastInv
    BY <2>2, <2>3, <2>4 DEF Init, PastInv
  <2>6. CacheFresh
    BY DEF Init, CacheFresh
  <2>7. \A r \in Requests : RequestInv(r)
    BY DEF Init, RequestInv, IdleRequest
  <2> QED
    BY <2>1, <2>5, <2>6, <2>7 DEF AuthInv
<1> QED
  BY <1>1, AuthStep, PTL DEF Spec

\* An entry of the principals cache is the membership of its version or of a
\* later one.
THEOREM CacheIsFresh == Spec => []CacheFresh
<1>1. AuthInv => CacheFresh
  BY DEF AuthInv
<1> QED
  BY <1>1, AuthInvariant, PTL

\* Whatever was revoked before a request began is reflected in what it answers
\* and in what it does, for every number of requests and of changes.
THEOREM RevocationHolds == Spec => []RequestAuthorized
<1>1. AuthInv => RequestAuthorized
  BY DEF AuthInv, RequestInv, RequestAuthorized
<1> QED
  BY <1>1, AuthInvariant, PTL

=============================================================================
