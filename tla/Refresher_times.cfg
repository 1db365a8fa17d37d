SPECIFICATION Spec
CONSTANTS
    NoJob = NoJob
    temp = temp
    pressure = pressure
    flow = flow
    Job = {temp, pressure}
    NewThread = {}
    Period = {1, 2}
    Priority = {0, 1}
    KernelTimes <- ForeverOrOnce
    ThreadTimes = {}
    LowestPriority = 255
    PeriodMod = 256
    TimesMax = 127
    Continues <- MinusOne
PROPERTY OnlyStoppedLeave
CHECK_DEADLOCK FALSE
