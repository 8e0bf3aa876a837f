SPECIFICATION FairServiceSpec
CONSTANTS
    Dims = {"tenant", "user"}
    p1 = p1
    c1 = c1
    c2 = c2
    Pins = {p1}
    Unset = Unset
    Subjects = {}
    Contents = {"a", "long"}
    Confidences = {50}
    Deadlines = {}
    MaxRecords = 3
    NoRecord = NoRecord
    NoSubject = NoSubject
    NoDeadline = NoDeadline
    NormOf <- MCNormOf
    Similarity <- MCSimilarity
    Negating = {}
    Clients = {c1, c2}
    Workers = {}
    Backend = "local"
    VectorLists = TRUE
    DedupEnabled = FALSE
    ConflictEnabled = FALSE
    CanFail = FALSE
    Requests = {}
    CallScopes = {}
    Calls = {"remember", "update", "forget", "purge"}
    Instants = {}
    MaxCalls = 3
    DEDUP_LIMIT = 20
    CONFLICT_LIMIT = 5
    BATCH_LIMIT = 1000
    ARCHIVE_GRACE = 1
    NoVector = NoVector
    Surfaces = {"http"}
    ServiceRequests <- MCServiceRequests
    Mentions <- MCMentions
    Blank = Blank
    TooLong = {"long"}
    MaxBatchSize = 2
    MaxSends = 3
    MaxBreaks = 0
PROPERTY
    ForgottenStaysHidden
CHECK_DEADLOCK FALSE
