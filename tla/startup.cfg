SPECIFICATION FairSpec
CONSTANTS
    e1 = e1
    e2 = e2
    Engines = {e1, e2}
    ProcessOf <- MCProcessOf
    Configs <- MCConfigs
    Features = {"postgres", "redis", "pgvector"}
    Migrations <- MCMigrations
    Names = {"n"}
    MaxFails = 1
    MaxCloses = 1
    NoName = NoName
INVARIANTS
    TypeOK
    ServesFullSchema
    DeclaredMeansServed
PROPERTIES
    StartsConverge
CHECK_DEADLOCK FALSE
