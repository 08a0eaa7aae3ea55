SPECIFICATION Spec
CONSTANTS
    Docs = {d1}
    Texts = {t1}
    Empty = {}
    Urls = {}
    Metas = {m1}
    Workers = {w1}
    Clients = {c1}
    Collectors = {k1}
    Tokens = {1, 2, 3, 4, 5, 6, 7, 8, 9, 10}
    ObjectStorage = FALSE
    MaxAttempts = 2
    MaxOps = 4
    None = None
    Key = Key
INVARIANTS
    IndexedAlwaysAnswers
CHECK_DEADLOCK FALSE
