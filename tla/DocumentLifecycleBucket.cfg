SPECIFICATION Spec
CONSTANTS
    Docs = {d1}
    Texts = {t1}
    Empty = {}
    Urls = {u1}
    Metas = {m1, m2}
    Workers = {w1}
    Clients = {c1, c2}
    Collectors = {k1}
    Tokens = {1, 2, 3, 4, 5, 6, 7, 8, 9, 10}
    ObjectStorage = TRUE
    MaxAttempts = 2
    MaxOps = 4
    None = None
    Key = Key
SYMMETRY ClientSymmetry
INVARIANTS
    TypeOK
    SourceAvailable
    PurgedIsGone
    MetadataAgrees
    TriesBounded
CHECK_DEADLOCK FALSE
