SPECIFICATION Spec
CONSTANTS
    user = user
    admin = admin
    group = group
    outer = outer
    ws = ws
    layer = layer
    layer2 = layer2
    doc = doc
    doc2 = doc2
    Workspaces = {ws}
    Layers = {layer, layer2}
    Documents = {doc, doc2}
    Users = {user, admin}
    Groups = {group, outer}
    Principals <- MCPrincipals
    Role <- MCRole
    WorkspaceOf <- MCWorkspaceOf
    LayerOf <- MCLayerOf
    Requests = {}
    InitialMembers <- RuleMembers
    InitialGrants <- NoGrants
    Issuable <- NoGrants
    Extending <- RuleExtending
    None = None
    MaxVersion = 3
INVARIANTS
    PlanMatchesRules
CHECK_DEADLOCK FALSE
