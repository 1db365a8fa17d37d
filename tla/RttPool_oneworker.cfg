SPECIFICATION FairSpec
CONSTANTS
    NoThread = NoThread
    w1 = w1
    w2 = w2
    c1 = c1
    c2 = c2
    Workers = {w1}
    Adders = {c1, c2, w1}
    Deleters = {}
    Destroyers = {}
    CounterMod = 256
    MaxTasks = 4
INVARIANT SuspendedHoldsNoLock
PROPERTY PromiseLiveness
\* the worker sleeps once all MaxTasks tasks have run
CHECK_DEADLOCK FALSE
