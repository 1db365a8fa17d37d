SPECIFICATION Spec
CONSTANTS
    NoJob = NoJob
    temp = temp
    pressure = pressure
    flow = flow
    Job = {temp, pressure, flow}
    NewThread = {flow}
    Period = {1, 2}
    Priority = {0}
    KernelTimes = {0, 1}
    ThreadTimes = {0, 2}
    LowestPriority = 255
    PeriodMod = 4
    TimesMax = 127
    Continues <- MinusOne
INVARIANTS  DueJobsRan TimesNotOverrun
\* a destroyed refresher has stopped
CHECK_DEADLOCK FALSE
