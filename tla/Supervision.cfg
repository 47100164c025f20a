SPECIFICATION Spec
CONSTANTS
    Jobs = {j1}
    Workers = {w1, w2}
    Requests = {q1}
    NoProcess = NoProcess
    NoJob = NoJob
    NoRequest = NoRequest
    MaxRecoveries = 0
    MaxRestarts = 0
    MaxFaults = 1
    MaxResumes = 1
SYMMETRY Symmetry
INVARIANTS
    SupTypeOK
    ActingJobIsNotReplayable
    RequestsAreAnswerable
CHECK_DEADLOCK FALSE
