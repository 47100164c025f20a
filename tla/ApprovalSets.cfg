SPECIFICATION Spec
CONSTANTS
    Requests = {q1, q2}
    Actors = {a1, a2}
    Locals = {l1}
    Workers = {}
    task = t
    session = s
    Sessions = {s}
    TaskOf <- OneTask
    SessionOf <- OneSession
    None = None
    RepeatableUses = 1
    MaxGeneration = 0
    Scanned = {q1, q2}
    MaxReaders = 1
    MaxOutages = 0
    Uncut = {}
SYMMETRY Symmetry
INVARIANTS
    NoConsentIsWasted
    UnknownMeansDecided
CHECK_DEADLOCK FALSE
