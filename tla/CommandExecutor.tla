---------------------------- MODULE CommandExecutor ----------------------------
(***************************************************************************)
(* Details::CommandExecutorContext of the ADB capture plugin (das/Plugins/ *)
(* DasAdbCapture/src/AdbCaptureImpl.cpp): one adb command, its output read *)
(* by one coroutine, its timeout watched by another, on an io_context the  *)
(* caller runs to the end.  Unlike ProcessExecutor of the touch plugin the *)
(* watcher loops, on conditions of its own.                                *)
(***************************************************************************)
EXTENDS Naturals

CONSTANTS
    CommandTimeout  \* timeout, in seconds

ASSUME CommandAssumption == CommandTimeout \in Nat

VARIABLES
    command,    \* the adb process, or that its launch failed
    exitSeen,   \* OnProcessExited has run
    reader,     \* the coroutine that reads stdout
    watcher,    \* the coroutine WaitProcessTimeout
    untilExpiry, \* timer: seconds until it expires; cancel does not change it
    killed,     \* process.terminate() was called
    ended       \* ioc.run() returned

commandVars == <<command, exitSeen, reader, watcher, untilExpiry, killed, ended>>

CommandTypeOK ==
    /\ command \in {"running", "exited", "unlaunched"}
    /\ exitSeen \in BOOLEAN
    /\ reader \in {"reading", "done"}
    /\ watcher \in {"waiting", "success", "aborted", "done"}
    /\ untilExpiry \in 0 .. CommandTimeout
    /\ killed \in BOOLEAN
    /\ ended \in BOOLEAN

\* A faulty variant, which takes the seconds for milliseconds; no action uses it.
InMilliseconds == 1000 * CommandTimeout

\* What the constructor sets the timer to.
Expiry == CommandTimeout

(***************************************************************************)
(* The constructor launches the process and spawns both coroutines.  A     *)
(* launch that fails throws before there is any: the caller goes on.       *)
(***************************************************************************)
CommandInit ==
    /\ command \in {"running", "unlaunched"}
    /\ exitSeen = FALSE
    /\ reader = IF command = "running" THEN "reading" ELSE "done"
    /\ watcher = IF command = "running" THEN "waiting" ELSE "done"
    /\ untilExpiry = Expiry
    /\ killed = FALSE
    /\ ended = (command = "unlaunched")

-------------------------------------------------------------------------------
\* Outside: the clock and the process.
CommandTick ==
    /\ untilExpiry > 0
    /\ untilExpiry' = untilExpiry - 1
    /\ UNCHANGED <<command, exitSeen, reader, watcher, killed, ended>>

CommandExits ==
    /\ command = "running"
    /\ command' = "exited"
    /\ UNCHANGED <<exitSeen, reader, watcher, untilExpiry, killed, ended>>

\* The timer's wait completes with success.
WaitCompletes ==
    /\ watcher = "waiting"
    /\ untilExpiry = 0
    /\ watcher' = "success"
    /\ UNCHANGED <<command, exitSeen, reader, untilExpiry, killed, ended>>

-------------------------------------------------------------------------------
\* A faulty variant: the loop waits for an expired timer again; no action uses it.
WaitsOnExpiry == "waiting"

\* timer.cancel(): a pending wait completes with operation_aborted.
CancelWait ==
    watcher' = IF watcher = "waiting" THEN "aborted" ELSE watcher

\* OnProcessExited.
OnProcessExited ==
    /\ command = "exited"
    /\ ~exitSeen
    /\ exitSeen' = TRUE
    /\ CancelWait
    /\ UNCHANGED <<command, reader, untilExpiry, killed, ended>>

\* async_read ends when the process has closed its stdout.
ReadEnds ==
    /\ reader = "reading"
    /\ command = "exited"
    /\ reader' = "done"
    /\ UNCHANGED <<command, exitSeen, watcher, untilExpiry, killed, ended>>

\* What the loop does after a wait that was not aborted: it is left.
AfterExpiry == "done"

(***************************************************************************)
(* WaitProcessTimeout after a wait that was not aborted, an expired timer  *)
(* included: the first test leaves the loop, and the branch that would     *)
(* terminate the process is never reached.                                 *)
(***************************************************************************)
WatcherLeaves ==
    /\ watcher = "success"
    /\ watcher' = AfterExpiry
    /\ UNCHANGED <<command, exitSeen, reader, untilExpiry, killed, ended>>

\* After one that was, the loop waits for the same expiry again.
WatcherLoops ==
    /\ watcher = "aborted"
    /\ watcher' = "waiting"
    /\ UNCHANGED <<command, exitSeen, reader, untilExpiry, killed, ended>>

\* ioc.run() returns when both coroutines have ended and the exit was seen.
NothingPending == exitSeen /\ reader = "done" /\ watcher = "done"

IocRun ==
    /\ ~ended
    /\ NothingPending
    /\ ended' = TRUE
    /\ UNCHANGED <<command, exitSeen, reader, watcher, untilExpiry, killed>>

Context == OnProcessExited \/ ReadEnds \/ WatcherLeaves \/ WatcherLoops \/ IocRun

Ended == ended /\ UNCHANGED commandVars

CommandNext == CommandTick \/ CommandExits \/ WaitCompletes \/ Context \/ Ended

\* The context runs, time passes, and a process that was terminated ends.
CommandFairness ==
    /\ WF_commandVars(CommandTick)
    /\ WF_commandVars(WaitCompletes)
    /\ WF_commandVars(Context)
    /\ WF_commandVars(killed /\ CommandExits)

CommandSpec == CommandInit /\ [][CommandNext]_commandVars /\ CommandFairness

\* Moreover every command ends by itself.
EndingFairness == WF_commandVars(CommandExits)

-------------------------------------------------------------------------------
(***************************************************************************)
(* The caller of ioc.run() gets control back where EndingFairness holds;   *)
(* not under CommandFairness alone, where the watcher is the only thing    *)
(* that could end a command that hangs.                                    *)
(***************************************************************************)
CommandReturns == <>ended

(***************************************************************************)
(* ioc.run() waits "for the process to exit" (AdbCaptureImpl.cpp:362), and *)
(* OnProcessExited cancels the timer for it: once the exit was seen and    *)
(* all the output read, nothing is waited for.                             *)
(***************************************************************************)
NothingWaitsAfterExit == exitSeen /\ reader = "done" => watcher # "waiting"
===============================================================================
