SPECIFICATION Spec
CONSTANTS
    Dims = {"tenant"}
    t1 = t1
    t2 = t2
    c1 = c1
    c2 = c2
    s1 = s1
    Pins = {t1, t2}
    Unset = Unset
    Subjects = {s1}
    Contents = {"a"}
    Confidences = {50}
    Deadlines = {1}
    MaxRecords = 2
    NoRecord = NoRecord
    NoSubject = NoSubject
    NoDeadline = NoDeadline
    NormOf <- MCNormOf
    Similarity <- MCSimilarity
    Negating <- MCNegating
    Clients = {c1, c2}
    Workers = {}
    Backend = "memory"
    VectorLists = TRUE
    DedupEnabled = FALSE
    ConflictEnabled = FALSE
    CanFail = FALSE
    Requests <- FactRequests
    CallScopes <- PolicyScopes
    Calls = {"remember", "forget_everywhere"}
    Instants = {1, 2}
    MaxCalls = 4
    DEDUP_LIMIT = 20
    CONFLICT_LIMIT = 5
    BATCH_LIMIT = 1000
    ARCHIVE_GRACE = 1
    NoVector = NoVector
INVARIANT
    ErasureComplete
CHECK_DEADLOCK FALSE
