SPECIFICATION Spec
CONSTANTS
    Docs = {d1}
    Texts = {t1, t2}
    Empty = {}
    Urls = {u1}
    Metas = {m1}
    Workers = {w1, w2}
    Clients = {c1}
    Collectors = {k1}
    Tokens = {1, 2, 3, 4, 5, 6, 7, 8, 9, 10}
    ObjectStorage = FALSE
    MaxAttempts = 2
    MaxOps = 3
    None = None
    Key = Key
SYMMETRY WorkerSymmetry
INVARIANTS
    TombstoneHolds
    IndexedAnswers
    IndexedIsLatest
PROPERTIES
    ImplementsIndex
CHECK_DEADLOCK FALSE
