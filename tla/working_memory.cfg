SPECIFICATION Spec
CONSTANTS
    Callers = {c1, c2, c3}
    Backends = {"redis", "in-process"}
    Lists = {"observations", "checkpoints"}
    Items = {x}
    SNAPSHOT_LIST_CAP = 2
    Missing = Missing
    MAX_RACES = 2
    SingleLife = TRUE
    MaxCalls = 6
SYMMETRY Symmetric
INVARIANTS
    TypeOK
    RaceMeansProgress
PROPERTIES
    PushesAreAtomic
CHECK_DEADLOCK FALSE
