SPECIFICATION StoreSpec
CONSTANTS
    Jobs = {j1}
    Workers = {w1}
    Requests = {q1}
    NoProcess = NoProcess
    MaxRecoveries = 1
    MaxRestarts = 1
    MaxFaults = 1
    MaxResumes = 1
INVARIANTS
    StoreTypeOK
    AtMostOneRunPerConsent
    MovesAreSound
    StartsAreBounded
    CancelledNeverSucceeds
PROPERTIES
    DoneAbsorbs
    OnlyConsentReopens
    NoJobLost
    KeepsContract
    RequestsKeepContract
