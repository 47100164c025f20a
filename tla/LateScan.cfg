SPECIFICATION Spec
CONSTANTS
    Jobs = {j1}
    Workers = {w1, w2}
    Requests = {q1}
    NoProcess = NoProcess
    NoJob = NoJob
    NoRequest = NoRequest
    MaxRecoveries = 1
    MaxRestarts = 0
    MaxFaults = 0
    MaxResumes = 1
PROPERTY
    ResultStands
CHECK_DEADLOCK FALSE
