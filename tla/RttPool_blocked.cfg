SPECIFICATION Spec
CONSTANTS
    NoThread = NoThread
    w1 = w1
    w2 = w2
    c1 = c1
    c2 = c2
    Workers = {w1, w2}
    Adders = {c1}
    Deleters = {}
    Destroyers = {}
    CounterMod = 256
    MaxTasks = 2
INVARIANT SuspendedHoldsNoLock
CHECK_DEADLOCK FALSE
