CONSTANTS
    alice = alice
    admin = admin
    writer = writer
    private = private
    shared = shared
    m1 = m1
    k1 = k1
    k2 = k2
    c1 = c1
    c2 = c2
    add = add
    move = move
    again = again
    edit = edit
    remove = remove
    Owner = {alice}
    Grant = {admin, writer}
    Scope = {private, shared}
    Key = {k1, k2}
    Memory = {m1}
    Content = {c1, c2}
    Generation = {1, 2}
    FirstGeneration = 1
    GrantOwner <- OneOwner
    GrantRow <- GrantRowOf
    MaxRevision = 2
    None = None
    Call = {add, move}
    Asked <- AskedIn
    Attempt = {i1}
    Model = {running}
    RunningModel = running
    MaxInFlight = 2
    MaxCut = 1
    MaxOutages = 1
SPECIFICATION FairServiceSpec
CHECK_DEADLOCK FALSE
PROPERTIES
    CallsSettle
