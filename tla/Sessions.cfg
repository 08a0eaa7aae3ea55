SPECIFICATION Spec
CONSTANTS
    Calls = {c1, c2}
    MaxTokens = 3
    MaxPassword = 1
    WeakHash = TRUE
    None = None
SYMMETRY CallSymmetry
INVARIANTS
    TypeOK
    OneLive
    FamilyEnds
    SessionsEnd
PROPERTIES
    DisabledStops
CHECK_DEADLOCK FALSE
