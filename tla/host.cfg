CONSTANTS
    Server = {unit, byhand}
    Supervised = {unit}
    s1 = s1
    s2 = s2
    Scope = {s1, s2}
    Setting <- OneScopeEach
    Write = {w1}
    MaxGeneration = 2
    MaxSnapshots = 2
    MaxCrashes = 2
    None = None
SPECIFICATION FairSpec
INVARIANTS
    TypeOK
    OneOwner
    AcknowledgedWritesKept
    LocalGrantLedger
    KeySurvivesRestart
PROPERTIES
    RestartTakesOver
