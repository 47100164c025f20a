SPECIFICATION Spec
CONSTANTS
    Requests = {q1}
    Actors = {a1, a2}
    Locals = {l1}
    Workers = {w1, w2}
    task = t
    session = s
    Sessions = {s}
    TaskOf <- OneTask
    SessionOf <- OneSession
    None = None
    RepeatableUses = 2
    MaxGeneration = 2
    Scanned = {}
    MaxReaders = 1
    MaxOutages = 1
    Uncut = {}
INVARIANT RevokedStaysDead
CHECK_DEADLOCK FALSE
