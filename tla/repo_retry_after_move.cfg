CONSTANTS
    alice = alice
    bob = bob
    admin = admin
    writer = writer
    other = other
    private = private
    shared = shared
    Owner = {alice}
    Grant = {admin}
    Scope = {private, shared}
    Key = {k1, k2}
    Memory = {m1}
    Content = {c1}
    Generation = {1}
    FirstGeneration = 1
    GrantOwner <- GrantOwnerOf
    GrantRow <- GrantRowOf
    MaxRevision = 2
    None = None
SPECIFICATION Spec
SYMMETRY Symmetry
CHECK_DEADLOCK FALSE
INVARIANTS
    RetryReplays
