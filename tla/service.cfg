SPECIFICATION FairServiceSpec
CONSTANTS
    Dims = {"tenant", "user"}
    p1 = p1
    c1 = c1
    c2 = c2
    Pins = {p1}
    Unset = Unset
    Subjects = {}
    Contents = {"a", "long"}
    Confidences = {50}
    Deadlines = {}
    MaxRecords = 3
    NoRecord = NoRecord
    NoSubject = NoSubject
    NoDeadline = NoDeadline
    NormOf <- MCNormOf
    Similarity <- MCSimilarity
    Negating = {}
    Clients = {c1, c2}
    Workers = {}
    Backend = "local"
    VectorLists = TRUE
    DedupEnabled = FALSE
    ConflictEnabled = FALSE
    CanFail = TRUE
    Requests = {}
    CallScopes = {}
    Calls = {"remember", "update", "forget", "purge"}
    Instants = {}
    MaxCalls = 2
    DEDUP_LIMIT = 20
    CONFLICT_LIMIT = 5
    BATCH_LIMIT = 1000
    ARCHIVE_GRACE = 1
    NoVector = NoVector
    Surfaces = {"http", "sdk", "node", "python"}
    ServiceRequests <- MCServiceRequests
    Mentions <- MCMentions
    Blank = Blank
    TooLong = {"long"}
    MaxBatchSize = 2
    MaxSends = 2
    MaxBreaks = 2
INVARIANTS
    ServiceTypeOK
    PromisesKept
    AnswersInScope
PROPERTIES
    CallsReturn
CHECK_DEADLOCK FALSE
