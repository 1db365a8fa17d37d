SPECIFICATION FairSpec
CONSTANTS
    NoThread = NoThread
    w1 = w1
    w2 = w2
    c1 = c1
    c2 = c2
    Workers = {w1, w2}
    Adders = {c1, c2}
    Deleters = {c2}
    Destroyers = {c1}
    CounterMod = 3
    MaxTasks = 4
INVARIANTS TypeOK MutualExclusion CounterMatchesQueue NoLostWakeup NoTaskTwice
PROPERTIES PromiseSafety DestroyReturns
\* a destroyed pool has stopped; two workers can block for ever, see RttPool_blocked.cfg
CHECK_DEADLOCK FALSE
