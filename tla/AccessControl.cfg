SPECIFICATION Spec
CONSTANTS
    user = user
    admin = admin
    group = group
    outer = outer
    ws = ws
    layer = layer
    layer2 = layer2
    doc = doc
    doc2 = doc2
    Workspaces = {ws}
    Layers = {layer}
    Documents = {doc}
    Users = {user}
    Groups = {group}
    Principals <- MCPrincipals
    Role <- MCRole
    WorkspaceOf <- MCWorkspaceOf
    LayerOf <- MCLayerOf
    Requests = {r1, r2}
    InitialMembers <- StaffMembers
    InitialGrants <- StaffGrants
    Issuable <- StaffIssuable
    Extending <- StaffExtending
    None = None
    MaxVersion = 2
INVARIANTS
    TypeOK
    CacheFresh
    RequestAuthorized
SYMMETRY RequestSymmetry
CHECK_DEADLOCK FALSE
