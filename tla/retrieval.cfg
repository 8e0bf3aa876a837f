SPECIFICATION RetrievalSpec
CONSTANTS
    Dims = {"tenant"}
    t1 = t1
    c1 = c1
    c2 = c2
    s1 = s1
    Pins = {t1}
    Unset = Unset
    Subjects = {s1}
    Contents = {"a"}
    Confidences = {50}
    Deadlines = {}
    MaxRecords = 3
    NoRecord = NoRecord
    NoSubject = NoSubject
    NoDeadline = NoDeadline
    NormOf <- MCNormOf
    Similarity <- MCSimilarity
    Negating = {}
    Clients = {c1, c2}
    Workers = {}
    Backend = "memory"
    VectorLists = TRUE
    DedupEnabled = FALSE
    ConflictEnabled = FALSE
    CanFail = FALSE
    Requests <- FactRequests
    CallScopes <- MCCallScopes
    Calls = {"remember", "update", "forget"}
    Instants = {}
    MaxCalls = 3
    DEDUP_LIMIT = 20
    CONFLICT_LIMIT = 5
    BATCH_LIMIT = 1000
    ARCHIVE_GRACE = 1
    NoVector = NoVector
    RecallRequests <- MCRecallRequests
    Mentions = {"a"}
SYMMETRY Symmetric
INVARIANTS
    RecallTypeOK
    UpdatesLeaveNoGap
    BudgetSpent
CHECK_DEADLOCK FALSE
