SPECIFICATION Spec
CONSTANTS
    Jobs = {j1}
    Workers = {w1, w2}
    Requests = {q1}
    NoProcess = NoProcess
    NoJob = NoJob
    NoRequest = NoRequest
    MaxRecoveries = 1
    MaxRestarts = 1
    MaxFaults = 0
    MaxResumes = 1
PROPERTY
    ConsentHonoured
CHECK_DEADLOCK FALSE
