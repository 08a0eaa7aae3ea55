---------------------- MODULE EffectivePrincipalsWalk ----------------------
(***************************************************************************)
(* The loop of `effectivePrincipals' (packages/core/authz/principals.ts).  *)
(* Membership comes from directories the organization does not control and *)
(* may have cycles.                                                        *)
(***************************************************************************)
EXTENDS GroupGraph

CONSTANTS
    Groups,   \* the principals that have members
    Self      \* the principal asked about

ASSUME WalkAssumption == Groups \subseteq Principals /\ Self \in Principals

VARIABLES
    edges,    \* the input: <<member, group>>
    seen,
    queue     \* no principal is queued twice and the order does not matter: a set

vars == <<edges, seen, queue>>

\* The graph is whatever group_members holds.
Init ==
    /\ edges \in SUBSET (Principals \X Groups)
    /\ seen = {Self}
    /\ queue = {Self}

\* Mutant of Unseen: no check of what was seen.
UnseenNot(current) == {g \in Groups : <<current, g>> \in edges}

\* graph.directGroups, less what was seen.
Unseen(current) == {g \in Groups : <<current, g>> \in edges} \ seen

\* Mutant of Visit: what is found is not walked from.
VisitDirect(current) ==
    /\ current \in queue
    /\ seen' = seen \cup Unseen(current)
    /\ queue' = queue \ {current}
    /\ UNCHANGED edges

\* One round of the loop.
Visit(current) ==
    /\ current \in queue
    /\ seen' = seen \cup Unseen(current)
    /\ queue' = (queue \ {current}) \cup Unseen(current)
    /\ UNCHANGED edges

Next == \E current \in Principals : Visit(current)

Spec == Init /\ [][Next]_vars /\ WF_vars(Next)

-----------------------------------------------------------------------------

\* effectivePrincipals returns the principal and all the groups it is in,
\* transitively, and nothing else, on every graph.
WalkExact == queue = {} => seen = EffectivePrincipals(edges, Self)

\* effectivePrincipals returns, whatever cycles the graph has.
Terminates == <>(queue = {})

=============================================================================
