SPECIFICATION Spec
CONSTANTS
    NoThread = NoThread
    main = main
    worker = worker
    async = async
    Loggers = {main, worker}
    Controllers = {main}
    Output = async
    Size = 4
    LineSpace = 3
    PollSpace = 2
    Lengths = {2}
    RawLengths = {0, 2}
    RawInException = FALSE
    MaxLogs = 2
PROPERTY DroppedOnlyWhenFull
