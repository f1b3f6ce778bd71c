---------------------------- MODULE TaskScheduler ----------------------------
(***************************************************************************)
(* Das::Core::TaskScheduler (das/Core/TaskScheduler): one executor thread  *)
(* polls a queue of scheduling units and hands the unit to run to a thread *)
(* pool of one thread, the one the language VM is bound to; threads of the *)
(* HTTP server call the public operations at any time.                     *)
(*                                                                         *)
(* Two mutexes are taken, by two paths in opposite orders: RunTaskQueue    *)
(* holds task_queue_mutex_ and takes the TaskController's mutex, and       *)
(* ForceStart holds the TaskController's mutex and takes                   *)
(* task_queue_mutex_.  A critical section under one mutex is one action;   *)
(* a section that takes a second mutex is split where it takes it.         *)
(*                                                                         *)
(* As the code is written no unit reaches the queue: the interface         *)
(* overload of AddTask refuses every IDasTaskInfo, the other one finds no  *)
(* task in its TaskInfo, and the sender that would run a unit is thrown    *)
(* away.  KeepsTask, QueryableTasks and SenderStarts permit what these     *)
(* three defects prevent.  A permission adds behaviours and takes none     *)
(* away: what holds with it given holds of the code as it is, and goes on  *)
(* holding when the defect is repaired.                                    *)
(***************************************************************************)
EXTENDS Integers, Sequences, FiniteSets, SequencesExt

CONSTANTS
    Tasks,          \* iids of the tasks that callers may register
    Clients,        \* threads that call the public operations
    None,           \* no owner (of a mutex) and no unit (in flight)
    Executor,       \* the executor thread, as an owner of a mutex
    MaxTime,        \* bound on the clock
    MaxUnits,       \* bound on registrations (queued or in flight)
    KeepsTask,      \* may a TaskInfo hold its task?  The code's never does.
    QueryableTasks, \* tasks whose IDasTaskInfo may answer QueryInterface(TaskInfo);
                    \* the code's answers for none
    SenderStarts,   \* may the sender of start_on be started?  The code's is not.
    RelockBlocks    \* does locking a std::mutex one owns block?

(***************************************************************************)
(* SchedulingUnit.  MaxTime + 1 stands for every date the clock of the     *)
(* model does not reach.                                                   *)
(***************************************************************************)
Times == 0 .. (MaxTime + 1)
Unit == [task : Tasks, time : Times]

ASSUME SchedulerAssumption ==
    /\ MaxTime \in Nat
    /\ MaxUnits \in Nat
    /\ KeepsTask \in BOOLEAN
    /\ QueryableTasks \subseteq Tasks
    /\ SenderStarts \in BOOLEAN
    /\ RelockBlocks \in BOOLEAN
    /\ None \notin Tasks \cup Unit
    /\ None \notin Clients
    /\ Executor \notin Clients
    /\ Executor # None

VARIABLES
    ctrlMutex,      \* owner of TaskController::mutex_
    queueMutex,     \* owner of task_queue_mutex_
    working,        \* TaskController::is_task_working_
    stopRequested,  \* TaskController::stop_token_
    enabled,        \* is_profile_enabled_
    envSet,         \* environment_config_ holds a string
    queue,          \* task_queue_, front to back
    now,            \* system_clock::now(), in units of time_t
    pcE,            \* where the executor thread is
    pcV,            \* where the thread of vm_thread_pool_ is
    inFlight,       \* opt_current_task: the unit popped and not yet re-added
    pcC,            \* where each client is inside ForceStart
    crashed         \* the process died on a null pointer

vars == <<ctrlMutex, queueMutex, working, stopRequested, enabled, envSet,
          queue, now, pcE, pcV, inFlight, pcC, crashed>>

locks == <<ctrlMutex, queueMutex>>
controller == <<working, stopRequested>>
settings == <<enabled, envSet>>

TypeOK ==
    /\ ctrlMutex \in Clients \cup {None}
    /\ queueMutex \in Clients \cup {Executor, None}
    /\ working \in BOOLEAN
    /\ stopRequested \in BOOLEAN
    /\ enabled \in BOOLEAN
    /\ envSet \in BOOLEAN
    /\ queue \in Seq(Unit)
    /\ now \in 0 .. MaxTime
    /\ pcE \in {"poll", "claim", "lockQueue", "unclaim", "dispatch"}
    /\ pcV \in {"idle", "queued", "doing", "readd", "finish"}
    /\ inFlight \in Unit \cup {None}
    /\ pcC \in [Clients -> {"idle", "forceQueue", "stuck"}]
    /\ crashed \in BOOLEAN

Init ==
    /\ ctrlMutex = None
    /\ queueMutex = None
    /\ working = FALSE
    /\ stopRequested = FALSE
    /\ enabled = TRUE
    /\ envSet = FALSE
    /\ queue = <<>>
    /\ now = 0
    /\ pcE = "poll"
    /\ pcV = "idle"
    /\ inFlight = None
    /\ pcC = [c \in Clients |-> "idle"]
    /\ crashed = FALSE

-------------------------------------------------------------------------------
(***************************************************************************)
(* Faulty variants of the definitions that follow, one plausible mistake   *)
(* each.  No action uses them: they show which mistake a property catches. *)
(***************************************************************************)
DueOnlyAfter(u) == u.time < now
OffsetsFromNow == {now + t : t \in Times}
Unsorted(s) == {s}
NoneClaimed == FALSE
ClaimKeepingToken == working' = TRUE /\ UNCHANGED stopRequested
KeepClaim == UNCHANGED working
LeftInQueue(s) == s
ForceStartIfEnabled == enabled
AlwaysEnabled == TRUE
LockWaitsForItself == TRUE

(***************************************************************************)
(* The steps of the operations.                                            *)
(***************************************************************************)
Due(u) == u.time <= now

\* What GetNextExecutionTime may answer: any date, a past one included.
NextTimes == Times

IsSortedByTime(s) == \A i, j \in DOMAIN s : i < j => s[i].time <= s[j].time

(***************************************************************************)
(* std::sort of InternalAddTask: some rearrangement in which the times do  *)
(* not decrease.  The comparator is <= and the sort is not stable, so the  *)
(* order of units with equal times is any order.                           *)
(***************************************************************************)
Sorted(s) ==
    {t \in {[i \in DOMAIN s |-> s[p[i]]] : p \in Injection(DOMAIN s, DOMAIN s)} :
        IsSortedByTime(t)}

\* The queues InternalAddTask can leave after it pushed u.
Inserted(u) == Sorted(Append(queue, u))

\* The guards and effects of the sections that use the TaskController.
ClaimTaken == working
Claim == working' = TRUE /\ stopRequested' = FALSE
GiveClaimBack == working' = FALSE
ForceStartAllowed == ~working /\ enabled

\* is_profile_enabled_ as the executor's loop reads it, with no lock.
ProfileEnabled == enabled

\* ExecuteAtomically inside ExecuteAtomically.
NestedLockWaits == RelockBlocks

\* pop_back
Popped(s) == Front(s)

\* Units the process still accounts for.
Registered == Len(queue) + (IF inFlight = None THEN 0 ELSE 1)

\* What std::find_if of RemoveTask stops at: the first unit of task k.
IsFirstOf(i, k) ==
    /\ i \in DOMAIN queue
    /\ queue[i].task = k
    /\ \A j \in DOMAIN queue : queue[j].task = k => i <= j

-------------------------------------------------------------------------------
(***************************************************************************)
(* The executor thread: the loop of the constructor and RunTaskQueue.      *)
(***************************************************************************)

\* One round of the loop; disabled, it sleeps.
ExecPoll ==
    /\ pcE = "poll"
    /\ ProfileEnabled
    /\ pcE' = "claim"
    /\ UNCHANGED <<locks, controller, settings, queue, now, pcV, inFlight, pcC,
                   crashed>>

\* First section: claim the right to run, or leave if it is taken.
ExecClaim ==
    /\ pcE = "claim"
    /\ ctrlMutex = None
    /\ IF ClaimTaken
       THEN /\ pcE' = "poll"
            /\ UNCHANGED controller
       ELSE /\ pcE' = "lockQueue"
            /\ Claim
    /\ UNCHANGED <<locks, settings, queue, now, pcV, inFlight, pcC, crashed>>

\* The unit RunTaskQueue looks at, and the only one.
Candidate == Last(queue)

\* Second section, the unit at the back is due: pop it.
ExecPop ==
    /\ pcE = "lockQueue"
    /\ queueMutex = None
    /\ queue # <<>>
    /\ Due(Candidate)
    /\ inFlight' = Candidate
    /\ queue' = Popped(queue)
    /\ pcE' = "dispatch"
    /\ UNCHANGED <<locks, controller, settings, now, pcV, pcC, crashed>>

\* Second section, nothing to run: keep task_queue_mutex_ and go for the other.
ExecNothingDue ==
    /\ pcE = "lockQueue"
    /\ queueMutex = None
    /\ queue # <<>> => ~Due(Candidate)
    /\ queueMutex' = Executor
    /\ pcE' = "unclaim"
    /\ UNCHANGED <<controller, settings, ctrlMutex, queue, now, pcV, inFlight,
                   pcC, crashed>>

\* The nested section that gives the claim back; both mutexes are released.
ExecUnclaim ==
    /\ pcE = "unclaim"
    /\ ctrlMutex = None
    /\ GiveClaimBack
    /\ queueMutex' = None
    /\ pcE' = "poll"
    /\ UNCHANGED <<settings, ctrlMutex, stopRequested, queue, now, pcV,
                   inFlight, pcC, crashed>>

(***************************************************************************)
(* start_on gives a sender back and nobody connects or starts it: it is    *)
(* destroyed at the end of the statement, and the popped unit with it.     *)
(* The claim stays, with nobody left to give it back.                      *)
(***************************************************************************)
ExecDispatch ==
    /\ pcE = "dispatch"
    /\ pcE' = "poll"
    /\ inFlight' = None
    /\ UNCHANGED <<locks, controller, settings, queue, now, pcV, pcC, crashed>>

\* The same statement with a sender that is started: the VM thread has the unit.
ExecHandOver ==
    /\ pcE = "dispatch"
    /\ SenderStarts
    /\ pcE' = "poll"
    /\ pcV' = "queued"
    /\ UNCHANGED <<locks, controller, settings, queue, now, inFlight, pcC,
                   crashed>>

-------------------------------------------------------------------------------
(***************************************************************************)
(* The thread of vm_thread_pool_: the lambda given to stdexec::then.       *)
(***************************************************************************)

\* DoTask up to the call of Do: the environment config, then the stop token.
VmBegin ==
    /\ pcV = "queued"
    /\ envSet
    /\ ctrlMutex = None
    /\ pcV' = "doing"
    /\ UNCHANGED <<locks, controller, settings, queue, now, pcE, inFlight, pcC,
                   crashed>>

\* GetValue gives out a null config and SetResult calls AddRef on it.
VmBeginWithoutConfig ==
    /\ pcV = "queued"
    /\ ~envSet
    /\ crashed' = TRUE
    /\ UNCHANGED <<locks, controller, settings, queue, now, pcE, pcV, inFlight,
                   pcC>>

\* Faulty variant: a run that failed is run again at once.
VmDoRetries ==
    /\ pcV = "doing"
    /\ pcV' \in {"readd", "queued"}
    /\ UNCHANGED <<locks, controller, settings, queue, now, pcE, inFlight, pcC,
                   crashed>>

\* Do returns, with success, with an error or with an exception DoTask catches.
VmDoReturns ==
    /\ pcV = "doing"
    /\ pcV' = "readd"
    /\ UNCHANGED <<locks, controller, settings, queue, now, pcE, inFlight, pcC,
                   crashed>>

\* Do throws what DoTask does not catch, and the lambda nothing either: nobody
\* receives the error of the sender, and the process is terminated.
VmDoEscapes ==
    /\ pcV = "doing"
    /\ crashed' = TRUE
    /\ UNCHANGED <<locks, controller, settings, queue, now, pcE, pcV, inFlight,
                   pcC>>

\* AddTask after the run, the task names its next execution time.
VmReAdd ==
    /\ pcV = "readd"
    /\ queueMutex = None
    /\ \E t \in NextTimes :
        queue' \in Inserted([task |-> inFlight.task, time |-> t])
    /\ inFlight' = None
    /\ pcV' = "finish"
    /\ UNCHANGED <<locks, controller, settings, now, pcE, pcC, crashed>>

\* AddTask after the run, GetNextExecutionTime fails; the result is ignored.
VmReAddFails ==
    /\ pcV = "readd"
    /\ inFlight' = None
    /\ pcV' = "finish"
    /\ UNCHANGED <<locks, controller, settings, queue, now, pcE, pcC, crashed>>

\* The last section of the lambda gives the claim back.
VmFinish ==
    /\ pcV = "finish"
    /\ ctrlMutex = None
    /\ GiveClaimBack
    /\ pcV' = "idle"
    /\ UNCHANGED <<locks, settings, stopRequested, queue, now, pcE, inFlight,
                   pcC, crashed>>

-------------------------------------------------------------------------------
(***************************************************************************)
(* The public operations, called by any client.                            *)
(***************************************************************************)

(***************************************************************************)
(* AddTask of a TaskInfo: SchedulingUnit asks the task for its next time.  *)
(* No constructor of TaskInfo stores the task, and what it asks is null.   *)
(* AddTask of an IDasTaskInfo refuses all it is given and changes nothing. *)
(***************************************************************************)
AddTaskWithoutTask(c) ==
    /\ pcC[c] = "idle"
    /\ crashed' = TRUE
    /\ UNCHANGED <<locks, controller, settings, queue, now, pcE, pcV, inFlight,
                   pcC>>

\* Either overload, given a TaskInfo that holds its task: the task names its
\* first execution time.
AddTask(c, k) ==
    /\ pcC[c] = "idle"
    /\ KeepsTask
    /\ Registered < MaxUnits
    /\ queueMutex = None
    /\ \E t \in NextTimes : queue' \in Inserted([task |-> k, time |-> t])
    /\ UNCHANGED <<locks, controller, settings, now, pcE, pcV, inFlight, pcC,
                   crashed>>

\* RemoveTask: the first queued unit with the iid of k.
RemoveTask(c, k) ==
    /\ pcC[c] = "idle"
    /\ k \in QueryableTasks
    /\ queueMutex = None
    /\ \E i \in DOMAIN queue :
        /\ IsFirstOf(i, k)
        /\ queue' = RemoveAt(queue, i)
    /\ UNCHANGED <<locks, controller, settings, now, pcE, pcV, inFlight, pcC,
                   crashed>>

SetEnabled(c, b) ==
    /\ pcC[c] = "idle"
    /\ enabled' = b
    /\ UNCHANGED <<locks, controller, envSet, queue, now, pcE, pcV, inFlight,
                   pcC, crashed>>

UpdateEnvironmentConfig(c) ==
    /\ pcC[c] = "idle"
    /\ envSet' = TRUE
    /\ UNCHANGED <<locks, controller, enabled, queue, now, pcE, pcV, inFlight,
                   pcC, crashed>>

\* RequestStop refuses while a task is working.
RequestStop(c) ==
    /\ pcC[c] = "idle"
    /\ ctrlMutex = None
    /\ ~working
    /\ stopRequested' = TRUE
    /\ UNCHANGED <<locks, settings, working, queue, now, pcE, pcV, inFlight,
                   pcC, crashed>>

\* ForceStart, the section of the controller, up to task_queue_mutex_.
ForceStart(c) ==
    /\ pcC[c] = "idle"
    /\ ctrlMutex = None
    /\ ForceStartAllowed
    /\ ctrlMutex' = c
    /\ pcC' = [pcC EXCEPT ![c] = "forceQueue"]
    /\ UNCHANGED <<controller, settings, queueMutex, queue, now, pcE, pcV,
                   inFlight, crashed>>

\* ForceStart, both mutexes held: the unit at the back is due now.
ForceStartBack(c) ==
    /\ pcC[c] = "forceQueue"
    /\ queueMutex = None
    /\ queue # <<>>
    /\ queue' = [queue EXCEPT ![Len(queue)].time = now]
    /\ ctrlMutex' = None
    /\ pcC' = [pcC EXCEPT ![c] = "idle"]
    /\ UNCHANGED <<controller, settings, queueMutex, now, pcE, pcV, inFlight,
                   crashed>>

(***************************************************************************)
(* ForceStart, both mutexes held, nothing queued: ExecuteAtomically locks  *)
(* the mutex its caller already owns.  That is undefined for a std::mutex: *)
(* either the thread waits for itself forever, or the lock succeeds.       *)
(***************************************************************************)
ForceStartEmpty(c) ==
    /\ pcC[c] = "forceQueue"
    /\ queueMutex = None
    /\ queue = <<>>
    /\ IF NestedLockWaits
       THEN /\ queueMutex' = c
            /\ pcC' = [pcC EXCEPT ![c] = "stuck"]
            /\ UNCHANGED <<ctrlMutex, working>>
       ELSE /\ GiveClaimBack
            /\ ctrlMutex' = None
            /\ pcC' = [pcC EXCEPT ![c] = "idle"]
            /\ UNCHANGED queueMutex
    /\ UNCHANGED <<settings, stopRequested, queue, now, pcE, pcV, inFlight,
                   crashed>>

-------------------------------------------------------------------------------
\* Time passes.
Tick ==
    /\ now < MaxTime
    /\ now' = now + 1
    /\ UNCHANGED <<locks, controller, settings, queue, pcE, pcV, inFlight, pcC,
                   crashed>>

ExecutorStep ==
    \/ ExecPoll
    \/ ExecClaim
    \/ ExecPop
    \/ ExecNothingDue
    \/ ExecUnclaim
    \/ ExecDispatch
    \/ ExecHandOver

VmStep ==
    \/ VmBegin
    \/ VmBeginWithoutConfig
    \/ VmDoReturns
    \/ VmDoEscapes
    \/ VmReAdd
    \/ VmReAddFails
    \/ VmFinish

ForceStartRest(c) == ForceStartBack(c) \/ ForceStartEmpty(c)

ClientStep(c) ==
    \/ AddTaskWithoutTask(c)
    \/ \E k \in Tasks : AddTask(c, k) \/ RemoveTask(c, k)
    \/ \E b \in BOOLEAN : SetEnabled(c, b)
    \/ UpdateEnvironmentConfig(c)
    \/ RequestStop(c)
    \/ ForceStart(c)
    \/ ForceStartRest(c)

\* Nothing happens in a process that died.
Dead == crashed /\ UNCHANGED vars

Step == ExecutorStep \/ VmStep \/ (\E c \in Clients : ClientStep(c)) \/ Tick

Next == (~crashed /\ Step) \/ Dead

Spec == Init /\ [][Next]_vars

(***************************************************************************)
(* The threads keep running, a task's Do returns, a client inside          *)
(* ForceStart goes on, and time passes.  No client has to call anything,   *)
(* and no mutex is granted in any order.                                   *)
(***************************************************************************)
Fairness ==
    /\ WF_vars(~crashed /\ ExecutorStep)
    /\ WF_vars(~crashed /\ VmStep)
    /\ \A c \in Clients : WF_vars(~crashed /\ ForceStartRest(c))
    /\ WF_vars(~crashed /\ Tick)

FairSpec == Spec /\ Fairness

-------------------------------------------------------------------------------
(***************************************************************************)
(* Safety.                                                                 *)
(***************************************************************************)

\* The executor is between the section that claims and what ends the claim.
ExecutorHoldsClaim == pcE \in {"lockQueue", "unclaim", "dispatch"}

VmHoldsClaim == pcV # "idle"

(***************************************************************************)
(* is_task_working_ is the only thing that keeps the executor from taking  *)
(* a second unit while one runs: whoever is past the claim has the flag    *)
(* set, and the executor and the VM thread are never both past it.         *)
(***************************************************************************)
ClaimIsExclusive ==
    /\ ExecutorHoldsClaim \/ VmHoldsClaim => working
    /\ ~(ExecutorHoldsClaim /\ VmHoldsClaim)

(***************************************************************************)
(* RunTaskQueue and ForceStart take the two mutexes in opposite orders.    *)
(* They never wait for each other: no client owns the controller's mutex   *)
(* while the executor owns the queue's and waits for the controller's.     *)
(***************************************************************************)
NoLockCycle == pcE = "unclaim" => ctrlMutex = None

(***************************************************************************)
(* RequestStop refuses while a task is working and RunTaskQueue resets the *)
(* token when it claims: the token a task is handed never asks it to stop, *)
(* from the moment its unit is popped until the claim is given back.       *)
(***************************************************************************)
RunNeverAskedToStop == VmHoldsClaim => ~stopRequested

(***************************************************************************)
(* The executor only looks at the back.  ForceStart changes the back in    *)
(* place and sorts nothing, so the whole queue need not be sorted; but all *)
(* of it except the back always is.                                        *)
(***************************************************************************)
SortedUpToBack == IsSortedByTime(SubSeq(queue, 1, Len(queue) - 1))

(***************************************************************************)
(* The scheduler never loses or invents a registration (TaskPool): however *)
(* the threads interleave, a popped unit is in no queue, it comes back at  *)
(* most once, and it is gone only when its task names no next time, its    *)
(* sender is never started, or the process dies.                           *)
(***************************************************************************)
UnitsOf(k) == Cardinality({i \in DOMAIN queue : queue[i].task = k})

Pool == INSTANCE TaskPool WITH
    Tasks <- Tasks,
    NoTask <- None,
    waiting <- [k \in Tasks |-> UnitsOf(k)],
    active <- IF crashed \/ inFlight = None THEN None ELSE inFlight.task

PoolSpec == Pool!Spec

\* Moreover every run that is taken up ends, under FairSpec.
PoolLiveSpec == Pool!LiveSpec

-------------------------------------------------------------------------------
(***************************************************************************)
(* Liveness, under FairSpec.                                               *)
(***************************************************************************)

\* No client is inside ForceStart with the controller's mutex.
Quiet == \A c \in Clients : pcC[c] # "forceQueue"

(***************************************************************************)
(* A claim is given back, whatever clients do meanwhile: by the executor,  *)
(* unless it goes on to start a unit it has popped, and by the VM thread   *)
(* once it has been given one.  Between the two lies start_on, and a claim *)
(* whose sender is thrown away there is given back by nobody.              *)
(***************************************************************************)
ClaimReleased ==
    /\ (pcE = "lockQueue") ~> (~working \/ pcE = "dispatch" \/ crashed)
    /\ VmHoldsClaim ~> (~working \/ crashed)

(***************************************************************************)
(* A disabled profile comes to rest: once SetEnabled(false) is the last    *)
(* word, the round and the run in progress end and no other one begins.    *)
(***************************************************************************)
DisabledComesToRest ==
    <>[](~enabled) => <>[]((pcE = "poll" /\ pcV = "idle") \/ crashed)

(***************************************************************************)
(* The executor goes on checking whether a task has to run, as long as the *)
(* profile is enabled: no client can stop it for good.                     *)
(***************************************************************************)
ExecutorKeepsChecking ==
    <>[](enabled /\ Quiet /\ ~crashed) => []<>(pcE = "poll")

\* A unit is at work or would be taken up by the next poll.
WorkAtBack ==
    inFlight # None \/ (queue # <<>> /\ queue[Len(queue)].time <= now)

\* The flag is set, and whoever was to clear it is gone with its sender.
ClaimAbandoned == working /\ ~ExecutorHoldsClaim /\ ~VmHoldsClaim

(***************************************************************************)
(* While the profile is enabled and there is always a unit in flight or    *)
(* due at the back, the executor takes units up again and again, until it  *)
(* throws the sender of one of them away.                                  *)
(***************************************************************************)
DueBackIsTaken ==
    <>[](enabled /\ Quiet /\ WorkAtBack /\ ~crashed)
        => <>ClaimAbandoned \/ []<>(pcE = "dispatch")
===============================================================================
