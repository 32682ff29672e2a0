SPECIFICATION FileSpec
CONSTANTS
    i1 = i1
    i2 = i2
    m1 = m1
    o1 = o1
    f1 = f1
    f2 = f2
    c1 = c1
    l1 = l1
    old = old
    None = None
    Founder = Founder
    Command = {i1, i2, m1, o1, f1, f2, c1, l1}
    Kind <- MCKind
    OldRows <- MCOldRows
    MaxStarted = 3
    MaxFiles = 2
CHECK_DEADLOCK FALSE
INVARIANTS
    FileTypeOK
    CleanupTold
    WalUnlessStranded
    MigrationTold
PROPERTIES
    CutOverKept
    AuthorityKept
    InitSparesExisting
