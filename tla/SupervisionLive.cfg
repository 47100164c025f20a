SPECIFICATION FairSpec
CONSTANTS
    Jobs = {j1}
    Workers = {w1}
    Requests = {q1}
    NoProcess = NoProcess
    NoJob = NoJob
    NoRequest = NoRequest
    MaxRecoveries = 1
    MaxRestarts = 2
    MaxFaults = 0
    MaxResumes = 2
PROPERTY
    EveryJobEnds
CHECK_DEADLOCK FALSE
