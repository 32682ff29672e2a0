CONSTANTS
    Server = {unit, byhand}
    Supervised = {unit}
    s1 = s1
    s2 = s2
    Scope = {s1, s2}
    Setting <- OneScopeEach
    Write = {w1}
    MaxGeneration = 2
    MaxSnapshots = 0
    MaxCrashes = 0
    None = None
SPECIFICATION Spec
INVARIANTS
    ServingUndisturbed
