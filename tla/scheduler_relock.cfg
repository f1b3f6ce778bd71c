SPECIFICATION FairSpec
CONSTANTS
    c1 = c1
    c2 = c2
    t1 = t1
    t2 = t2
    None = None
    Executor = Executor
    Clients <- OneClient
    Tasks <- OneTask
    QueryableTasks <- NoTasks
    MaxTime = 1
    MaxUnits = 1
    KeepsTask = FALSE
    SenderStarts = FALSE
    RelockBlocks = TRUE
PROPERTIES
    ExecutorKeepsChecking
CHECK_DEADLOCK FALSE
