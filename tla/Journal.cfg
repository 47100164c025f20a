SPECIFICATION JournalSpec
CONSTANTS
    Operations = {o1, o2}
    Identities = {k1}
    IdentityOf <- OneIdentity
    Handlers = {h1, h2}
    None = None
    MaxEvents = 9
    MaxControl = 2
    ClosureRecords = 2
    Headroom = 1
    RotateAt = 5
    MaxRestarts = 1
    MaxFaults = 1
SYMMETRY Symmetry
INVARIANTS
    JournalTypeOK
    BracketsStayClosable
    OrphansAreHonest
    ClosedSegmentsAreRecorded
PROPERTIES
    KeepsLedger
    RecoveredRefusesReplay
CHECK_DEADLOCK FALSE
