SPECIFICATION FairSpec
CONSTANTS
    c1 = c1
    c2 = c2
    t1 = t1
    t2 = t2
    None = None
    Executor = Executor
    Clients <- TwoClients
    Tasks <- TwoTasks
    QueryableTasks <- TwoTasks
    MaxTime = 1
    MaxUnits = 2
    KeepsTask = TRUE
    SenderStarts = TRUE
    RelockBlocks = FALSE
PROPERTIES
    ClaimReleased
    DisabledComesToRest
    ExecutorKeepsChecking
    DueBackIsTaken
    PoolLiveSpec
