SPECIFICATION FairGovernanceSpec
CONSTANTS
    Dims = {"tenant", "user"}
    p1 = p1
    p2 = p2
    c1 = c1
    c2 = c2
    agent = agent
    atlas = atlas
    postgres = postgres
    Pins = {p1, p2}
    Unset = Unset
    Subjects = {atlas}
    Objects = {atlas, postgres}
    Contents = {"uses", "steps", "must", "likes"}
    Confidences = {40, 50, 65, 70, 75}
    Deadlines = {}
    MaxRecords = 2
    NoRecord = NoRecord
    NoSubject = NoSubject
    NoDeadline = NoDeadline
    NormOf <- MCNormOf
    Similarity <- MCSimilarity
    Negating = {}
    Clients = {c1, c2}
    Workers = {}
    Backend = "memory"
    VectorLists = TRUE
    DedupEnabled = FALSE
    ConflictEnabled = FALSE
    CanFail = TRUE
    Requests <- MCRequests
    CallScopes <- MCCallScopes
    Calls = {"remember", "forget", "purge"}
    Instants = {}
    MaxCalls = 2
    DEDUP_LIMIT = 20
    CONFLICT_LIMIT = 5
    BATCH_LIMIT = 1000
    ARCHIVE_GRACE = 1
    NoVector = NoVector
    RelationsOf <- MCRelationsOf
    CuesOf <- MCCuesOf
    OutOfBounds = {}
    Conversations <- MCConversations
    DefaultScope <- Owner
    Principals = {agent}
    ScopeOf <- MCScopeOf
    QueryScopes <- MCQueryScopes
    Budget = 2
    MaxReads = 1
INVARIANTS
    GovernanceTypeOK
    GraphMirrored
    EdgesTrue
    ExtractionLeavesPrefix
PROPERTIES
    GateSpec
    ReadsReturn
CHECK_DEADLOCK FALSE
