SPECIFICATION Spec
CONSTANTS
    c1 = c1
    c2 = c2
    t1 = t1
    t2 = t2
    None = None
    Executor = Executor
    Clients <- TwoClients
    Tasks <- TwoTasks
    QueryableTasks <- TwoTasks
    MaxTime = 2
    MaxUnits = 3
    KeepsTask = TRUE
    SenderStarts = TRUE
    RelockBlocks = TRUE
INVARIANTS
    TypeOK
    ClaimIsExclusive
    NoLockCycle
    RunNeverAskedToStop
    SortedUpToBack
PROPERTIES
    PoolSpec
