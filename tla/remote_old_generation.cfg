CONSTANTS
    alice = alice
    bob = bob
    claude = claude
    early = early
    late = late
    pairing = pairing
    shared = shared
    m1 = m1
    m2 = m2
    search = search
    get = get
    recent = recent
    status = status
    export = export
    restore = restore
    purge = purge
    Client = {claude}
    Owner = {alice}
    PermSets <- GrantedPerms
    Challenge = {}
    Names <- NamesIn
    Token = {early}
    Claims <- ClaimsIn
    TTL = 0
    MaxTime = 1
    MaxGeneration = 2
    MaxStarts = 2
    MaxRevoked = 1
    None = None
    Scope = {shared}
    Memory = {m1}
    MemoryOwner <- OwnerOfMemory
    Call = {search, get, recent, status, export, restore, purge}
    Asked <- AskedIn
    LocalTerms <- LocalTermsIn
    Session = Session
    SessionTTL = 1
    MinCardinality = 1
    MaxSent = 1
SPECIFICATION RemoteSpec
CHECK_DEADLOCK FALSE
PROPERTIES
    OldGenerationStaysInvalid
