SPECIFICATION FairSpec
CONSTANTS
    NoThread = NoThread
    main = main
    worker = worker
    async = async
    Loggers = {main, worker}
    Controllers = {main}
    Output = async
    Size = 4
    LineSpace = 3
    PollSpace = 2
    Lengths = {3}
    RawLengths = {2}
    RawInException = FALSE
    MaxLogs = 3
INVARIANTS TypeOK OutputLockExcludes NothingLeftLocked PrintedInOrder
PROPERTIES DroppedOnlyWhenFull QueuePromise WaitingIsPrinted
