SPECIFICATION Spec
CONSTANTS
    Callers = {c1, c2}
    Ids = {r1}
    Backends = {"memory", "local", "postgres"}
    NoRow = NoRow
    MaxCalls = 8
SYMMETRY Symmetric
INVARIANTS
    TypeOK
    StatesAreEarned
    RevisionsCoverPath
CHECK_DEADLOCK FALSE
