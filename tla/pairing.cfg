CONSTANTS
    alice = alice
    bob = bob
    claude = claude
    pair = pair
    first = first
    second = second
    Client = {claude}
    Owner = {alice, bob}
    PermSets <- GrantedPerms
    Challenge = {pair}
    Names <- NamesIn
    Token = {first, second}
    Claims <- ClaimsIn
    TTL = 1
    MaxTime = 2
    MaxGeneration = 3
    MaxStarts = 2
    MaxRevoked = 1
    None = None
SPECIFICATION LinkSpec
CHECK_DEADLOCK FALSE
INVARIANTS
    LinkTypeOK
    LinkLedger
    ClaimedOncePerStart
