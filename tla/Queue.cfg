SPECIFICATION OrderSpec
CONSTANTS
    Jobs <- ThreeJobs
    Alone = {1}
    Old = {1}
    MaxBacks = 1
    MaxDeaths = 1
INVARIANTS
    OrderTypeOK
    NeverOvertakes
    QueuesInLine
    StreamFollowsRecord
    NoStreamIsOrphaned
PROPERTIES
    UnavailableMeansGone
CHECK_DEADLOCK FALSE
