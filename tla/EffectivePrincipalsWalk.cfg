SPECIFICATION Spec
CONSTANTS
    Principals = {user, g1, g2, g3}
    Groups = {g1, g2, g3}
    Self = user
INVARIANT WalkExact
PROPERTY Terminates
CHECK_DEADLOCK FALSE
