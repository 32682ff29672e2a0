SPECIFICATION Spec
CONSTANTS
    a = a
    b = b
    c = c
    None = None
    Memories <- MCThree
    HotCapacity = 2
    WarmCapacity = 1
    PromotionThreshold = 1
    KeepCount = 1
    TopK = 1
    SamplingInterval = 2
    MaxAccess = 1
SYMMETRY MCSymmetry
INVARIANTS
    TypeOK
    VectorsOnlyHot
    HotWithinCapacity
PROPERTIES
    HotFindable
    CoolingStaysDown
