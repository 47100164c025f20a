SPECIFICATION JournalSpec
CONSTANTS
    Operations = {o1, o2}
    Identities = {k1}
    IdentityOf <- OneIdentity
    Handlers = {h1}
    None = None
    MaxEvents = 8
    MaxControl = 2
    ClosureRecords = 2
    Headroom = 2
    RotateAt = 3
    MaxRestarts = 1
    MaxFaults = 1
SYMMETRY Symmetry
PROPERTIES
    NoBlindReplay
CHECK_DEADLOCK FALSE
