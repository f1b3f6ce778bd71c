---------------------------- MODULE ProfileController ----------------------------
(***************************************************************************)
(* What the profile controller and other hosts read of the scheduler: its  *)
(* status, its switches and its queue, while the queue changes.  The queue *)
(* is handed out as a vector copied under the mutex and read by index in   *)
(* later calls (GetAllWorkingTasks), or as one json text.                  *)
(*                                                                         *)
(* The scheduler's own steps are those of module TaskScheduler; here they  *)
(* only make the queue, the claim and the switch change at any time.       *)
(***************************************************************************)
EXTENDS Naturals, Sequences

CONSTANTS
    QueuedTasks, \* task infos in the queue
    RunTimes,    \* their next execution times
    MaxQueue     \* bound on the queue

ASSUME ProfileAssumption == MaxQueue \in Nat

QueuedUnits == QueuedTasks \X RunTimes
Queues == UNION {[1 .. n -> QueuedUnits] : n \in 0 .. MaxQueue}

VARIABLES
    taskQueue,     \* task_queue_
    executing,     \* is_task_working_
    profileOn,     \* is_profile_enabled_
    vector,        \* the copy a host reads ...
    holdsVector,   \* ... while it holds one
    copiedAt,      \* history: the queue when it was copied
    enumerated,    \* what the host has read by index so far
    profileAnswer, \* the last response of the controller
    listDied       \* the process used a null list or memory past the vector

profileVars == <<taskQueue, executing, profileOn, vector, holdsVector, copiedAt,
                 enumerated, profileAnswer, listDied>>

Garbage == <<"what lies there", 0>>
Reply(code) == [code |-> code, run |-> FALSE, enable |-> FALSE]

ProfileTypeOK ==
    /\ taskQueue \in Queues /\ executing \in BOOLEAN /\ profileOn \in BOOLEAN
    /\ vector \in Queues /\ holdsVector \in BOOLEAN /\ copiedAt \in Queues
    /\ enumerated \in Seq(QueuedUnits \cup {Garbage})
    /\ profileAnswer \in
           [code : {"none", "ok", "working", "again", "out_of_range", "thrown"},
            run : BOOLEAN, enable : BOOLEAN]
    /\ listDied \in BOOLEAN

ProfileInit ==
    /\ taskQueue = <<>> /\ executing = FALSE /\ profileOn = TRUE
    /\ vector = <<>> /\ holdsVector = FALSE /\ copiedAt = <<>> /\ enumerated = <<>>
    /\ profileAnswer = Reply("none") /\ listDied = FALSE

hostReads == <<vector, holdsVector, copiedAt, enumerated>>

-------------------------------------------------------------------------------
\* InternalAddTask, RemoveTask, RunTaskQueue and ForceStart.
SchedulerMoves ==
    /\ taskQueue' \in Queues /\ executing' \in BOOLEAN
    /\ UNCHANGED <<profileOn, hostReads, profileAnswer, listDied>>

\* Only the profile "0" exists.
Serve(known, answer) ==
    /\ profileAnswer' = IF known THEN answer ELSE Reply("out_of_range")
    /\ UNCHANGED <<taskQueue, executing, hostReads, listDied>>

SetEnable(known, on) ==
    /\ profileOn' = IF known THEN on ELSE profileOn
    /\ Serve(known, Reply("ok"))

\* ForceStart; what it does to the queue is one of the scheduler's moves.
StartProfile(known) ==
    /\ UNCHANGED profileOn
    /\ Serve(known, Reply(IF executing \/ ~profileOn THEN "working" ELSE "ok"))

\* RequestStop, with the token set before or not.
StopProfile(known) ==
    /\ UNCHANGED profileOn
    /\ \E code \in IF executing THEN {"working"} ELSE {"ok", "again"} :
           Serve(known, Reply(code))

\* get_profile_status: two reads, and the switch may move between them.
GetProfileStatus ==
    /\ profileOn' \in BOOLEAN
    /\ Serve(TRUE, [code |-> "ok", run |-> executing, enable |-> profileOn'])

\* get_profile_list parses the settings again; they may not be an object.
GetProfileList ==
    /\ UNCHANGED profileOn
    /\ \E code \in {"ok", "thrown"} : Serve(TRUE, Reply(code))

-------------------------------------------------------------------------------
\* A faulty variant: the vector refers to the scheduler's; no action uses it.
SharedWithQueue(v) == taskQueue

\* What the host's vector holds: a copy, which keeps the task infos.
Elements(v) == v

GetAllWorkingTasks ==
    /\ vector' = taskQueue /\ holdsVector' = TRUE
    /\ copiedAt' = taskQueue /\ enumerated' = <<>>
    /\ UNCHANGED <<taskQueue, executing, profileOn, profileAnswer, listDied>>

\* index > size(): the check lets one index too many through.
InRange(index) == index <= Len(Elements(vector))

(***************************************************************************)
(* EnumByIndex and EnumNextExecuteTimeByIndex with the next index, as the  *)
(* loop of get_task_list calls them until they answer DAS_E_OUT_OF_RANGE.  *)
(* The element behind the last one is whatever lies there.                 *)
(***************************************************************************)
EnumByIndex ==
    LET index == Len(enumerated) IN
    /\ holdsVector /\ InRange(index)
    /\ IF index < Len(Elements(vector))
       THEN enumerated' = Append(enumerated, Elements(vector)[index + 1])
            /\ UNCHANGED listDied
       ELSE \/ enumerated' = Append(enumerated, Garbage) /\ UNCHANGED listDied
            \/ listDied' = TRUE /\ UNCHANGED enumerated
    /\ UNCHANGED <<taskQueue, executing, profileOn, vector, holdsVector, copiedAt,
                   profileAnswer>>

EnumEnds ==
    /\ holdsVector /\ ~InRange(Len(enumerated))
    /\ holdsVector' = FALSE
    /\ UNCHANGED <<taskQueue, executing, profileOn, vector, copiedAt, enumerated,
                   profileAnswer, listDied>>

(***************************************************************************)
(* get_task_list runs that loop and appends to response->data, which is    *)
(* null until somebody creates it: it ends the process, at the first task  *)
(* or, with an empty queue, at the element that is not there.              *)
(***************************************************************************)
GetTaskList ==
    /\ listDied' = TRUE
    /\ UNCHANGED <<taskQueue, executing, profileOn, hostReads, profileAnswer>>

\* GetAllTaskSchedulerInfo: the whole queue as a text, under the mutex.
GetAllTaskSchedulerInfo ==
    /\ holdsVector' = FALSE /\ copiedAt' = taskQueue /\ enumerated' = taskQueue
    /\ UNCHANGED <<vector, taskQueue, executing, profileOn, profileAnswer, listDied>>

ProfileNext ==
    /\ ~listDied
    /\ \/ SchedulerMoves \/ GetProfileStatus \/ GetProfileList
       \/ \E known, on \in BOOLEAN : SetEnable(known, on)
       \/ \E known \in BOOLEAN : StartProfile(known) \/ StopProfile(known)
       \/ GetAllWorkingTasks \/ EnumByIndex \/ EnumEnds
       \/ GetTaskList \/ GetAllTaskSchedulerInfo

ProfileSpec == ProfileInit /\ [][ProfileNext]_profileVars

-------------------------------------------------------------------------------
(***************************************************************************)
(* What a host reads by index, call by call, is the queue of one moment,   *)
(* in its order and up to its end, however often tasks are added, removed  *)
(* or moved in between; at most one element more is read, and it is none.  *)
(***************************************************************************)
ListedTogether ==
    /\ Len(enumerated) <= Len(copiedAt) + 1
    /\ \A i \in DOMAIN enumerated :
           enumerated[i] = IF i <= Len(copiedAt) THEN copiedAt[i] ELSE Garbage
===============================================================================
