-------------------------- MODULE MCAccessControl --------------------------
(* Instances of AccessControl for TLC. *)
EXTENDS AccessControl, TLC

CONSTANTS user, admin, group, outer, ws, layer, layer2, doc, doc2

MCRole == [u \in Users |-> IF u = admin THEN "org_admin" ELSE "member"]
MCWorkspaceOf == [l \in Layers |-> ws]
MCLayerOf == [d \in Documents |-> IF d = doc2 THEN layer2 ELSE layer]
MCPrincipals == Users \cup Groups

Allow(p, s, x) == [principal |-> p, scope |-> s, permission |-> x, effect |-> "allow"]
Deny(p, s, x) == [principal |-> p, scope |-> s, permission |-> x, effect |-> "deny"]

\* A group that administers the workspace, with the user in it.
StaffMembers == {<<user, group>>}
StaffGrants == {Allow(group, ws, "admin")}
StaffIssuable == {Allow(user, layer, "read")}
StaffExtending == {Deny(user, doc, "read")}

\* Grants at every scope, to the user and to a group it may be in.
RuleMembers == {<<user, group>>, <<group, outer>>}
RuleExtending == {g \in Grant : \/ g.principal = user /\ g.permission = "read"
                                \/ g.principal = outer /\ g.permission = "admin"}
NoGrants == {}

\* A grant to the group itself.
GroupGrant == {Allow(group, layer, "read")}

RequestSymmetry == Permutations(Requests)

=============================================================================
