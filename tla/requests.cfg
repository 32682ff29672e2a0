CONSTANTS
    alice = alice
    admin = admin
    writer = writer
    private = private
    shared = shared
    m1 = m1
    k1 = k1
    k2 = k2
    c1 = c1
    c2 = c2
    add = add
    move = move
    again = again
    edit = edit
    remove = remove
    Owner = {alice}
    Grant = {admin, writer}
    Scope = {shared}
    Key = {k1, k2}
    Memory = {m1, m2}
    Content = {c1, c2}
    Generation = {1, 2}
    FirstGeneration = 1
    GrantOwner <- OneOwner
    GrantRow <- GrantRowOf
    MaxRevision = 2
    None = None
    Call = {add, edit, remove}
    Asked <- AskedIn
    Attempt = {i1, i2}
    Model = {running, other}
    RunningModel = running
    MaxInFlight = 2
    MaxCut = 1
    MaxOutages = 0
SPECIFICATION ServiceSpec
SYMMETRY Symmetry
CHECK_DEADLOCK FALSE
INVARIANTS
    ServiceTypeOK
    DerivedIndexParity
PROPERTIES
    CallsTakeEffectOnce
    VectorsComparable
