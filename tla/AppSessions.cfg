SPECIFICATION FairSpec
CONSTANTS
    Handlers = {h1, h2}
    Calls = {c1}
    None = None
    LaunchTTL = 3
    SessionTTL = 2
    CallTTL = 1
    BindWindow = 0
    MaxChildren = 2
    MaxAge = 3
INVARIANTS
    AuthTypeOK
    AuthorityMatchesRow
    AuthorityLasts
PROPERTIES
    NothingIsSpentLate
    NothingIsStranded
CHECK_DEADLOCK FALSE
