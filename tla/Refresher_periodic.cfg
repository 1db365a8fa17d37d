SPECIFICATION FairSpec
CONSTANTS
    NoJob = NoJob
    temp = temp
    pressure = pressure
    flow = flow
    Job = {temp, pressure, flow}
    NewThread = {flow}
    Period = {1, 2}
    Priority = {0, 1}
    KernelTimes <- Forever
    ThreadTimes <- Forever
    LowestPriority = 255
    PeriodMod = 256
    TimesMax = 127
    Continues <- MinusOne
INVARIANTS TypeOK  DueJobsRan
PROPERTY EveryJobRuns
\* a destroyed refresher has stopped
CHECK_DEADLOCK FALSE
