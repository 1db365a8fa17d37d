SPECIFICATION FairSpec
CONSTANTS
    NoThread = NoThread
    w1 = w1
    w2 = w2
    c1 = c1
    c2 = c2
    Workers = {w1, w2}
    Adders = {c1, w1, w2}
    Destroyers = {c2}
    CounterMod = 256
    MaxTasks = 4
INVARIANTS TypeOK LockHeldInside CounterMatchesQueue NoLostWakeup NoTaskTwice
PROPERTIES PromiseSafety EveryTaskRuns DestroyReturns
\* a destroyed pool has stopped
CHECK_DEADLOCK FALSE
