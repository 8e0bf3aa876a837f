SPECIFICATION FairSpec
CONSTANTS
    Callers = {c1, c2, c3}
    threshold = 2
    cooldown_duration = 2
    None = None
INVARIANTS
    TypeOK
    OpenIsTimed
PROPERTIES
    CooldownKept
    Recovers
