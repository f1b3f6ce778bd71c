---------------------------- MODULE ProcessExecutor ----------------------------
(***************************************************************************)
(* Details::ProcessExecutor of the ADB touch plugin (das/Plugins/          *)
(* DasAdbTouch/src/AdbTouch.cpp): run one adb command, ask it to exit when *)
(* it takes too long, terminate it when it does not.  One io_context, run  *)
(* by the caller; a completed operation puts its handler at the end of the *)
(* context's queue and handlers run one at a time, in that order.          *)
(***************************************************************************)
EXTENDS Naturals, Sequences

CONSTANTS
    Timeout     \* timeout_in_ms_, in steps of the clock

ASSUME ExecutorAssumption == Timeout \in Nat

VARIABLES
    process,        \* the adb process, or that its launch failed
    armed,          \* timeout_timer_: the wait that is pending, if any
    remaining,      \* timeout_timer_: time until it expires
    ready,          \* handlers queued in ctx_, with their error codes
    slotConnected,  \* async_execute is pending: sig_ reaches the process
    asked,          \* the process was asked to exit
    terminated,     \* the process was terminated
    result,         \* result_
    returned        \* Run, or the constructor's exception, returned to the caller

touchVars == <<process, armed, remaining, ready, slotConnected, asked, terminated,
          result, returned>>

timer == <<armed, remaining>>
signals == <<slotConnected, asked, terminated>>

Handlers == {"exit", "timeout", "grace"}
Results == {"undefined", "ok", "fatal", "timeout"}

TouchTypeOK ==
    /\ process \in {"running", "exited", "unlaunched"}
    /\ armed \in {"timeout", "grace", "none"}
    /\ remaining \in 0 .. Timeout
    /\ ready \in Seq([handler : Handlers, ec : BOOLEAN])
    /\ slotConnected \in BOOLEAN
    /\ asked \in BOOLEAN
    /\ terminated \in BOOLEAN
    /\ result \in Results
    /\ returned \in BOOLEAN

(***************************************************************************)
(* The constructor launches the process, waits for it and arms the timer.  *)
(* A launch that fails throws: the caller has control back, nothing waits. *)
(***************************************************************************)
TouchInit ==
    /\ process \in {"running", "unlaunched"}
    /\ armed = IF process = "running" THEN "timeout" ELSE "none"
    /\ remaining = Timeout
    /\ ready = <<>>
    /\ slotConnected = (process = "running")
    /\ asked = FALSE
    /\ terminated = FALSE
    /\ result = "undefined"
    /\ returned = (process = "unlaunched")

Completed(handler, ec) == [handler |-> handler, ec |-> ec]

-------------------------------------------------------------------------------
(***************************************************************************)
(* Outside: the clock, the process, and the operations of Boost.Asio.      *)
(***************************************************************************)
Tick ==
    /\ remaining > 0
    /\ remaining' = remaining - 1
    /\ UNCHANGED <<process, armed, ready, signals, result, returned>>

\* The process ends, whether asked or not; the wait for it may report an error.
ProcessExits ==
    /\ process = "running"
    /\ process' = "exited"
    /\ \E ec \in BOOLEAN : ready' = Append(ready, Completed("exit", ec))
    /\ UNCHANGED <<timer, signals, result, returned>>

\* The pending wait of the timer completes once its time has come.
TimerExpires ==
    /\ armed # "none"
    /\ remaining = 0
    /\ armed' = "none"
    /\ ready' = Append(ready, Completed(armed, FALSE))
    /\ UNCHANGED <<process, remaining, signals, result, returned>>

-------------------------------------------------------------------------------
\* Faulty variants, one plausible mistake each; no action uses them.
LeaveTimer == armed' = armed /\ ready' = Tail(ready)
TerminateNobody == terminated' = terminated
DoubledWait == 2 * Timeout

-------------------------------------------------------------------------------
\* Handlers.
Running(handler) == ready # <<>> /\ Head(ready).handler = handler

\* timeout_timer_.cancel(): a pending wait completes with an error code; a
\* wait that already completed is not called back.
CancelTimer ==
    /\ armed' = "none"
    /\ ready' = IF armed = "none" THEN Tail(ready)
                ELSE Append(Tail(ready), Completed(armed, TRUE))

\* emit(partial) and emit(terminal) reach the process while it is waited for.
Ask == asked' = (asked \/ slotConnected)
Terminate == terminated' = (terminated \/ slotConnected)

\* What expires_after gets in the first handler of the timer.
GraceWait == Timeout

\* A timeout that was detected is not reported as another error.
ResultOfError == IF result = "timeout" THEN "timeout" ELSE "fatal"

\* The handler of async_execute, the wait failed: the timer is left alone.
OnExitError ==
    /\ Running("exit")
    /\ Head(ready).ec
    /\ result' = ResultOfError
    /\ ready' = Tail(ready)
    /\ slotConnected' = FALSE
    /\ UNCHANGED <<process, timer, asked, terminated, returned>>

\* The handler of async_execute, the process ended: "we're done earlier".
OnExit ==
    /\ Running("exit")
    /\ ~Head(ready).ec
    /\ result' = "ok"
    /\ CancelTimer
    /\ slotConnected' = FALSE
    /\ UNCHANGED <<process, remaining, asked, terminated, returned>>

\* The first handler of the timer: ask the process to exit and wait once more.
OnTimeout ==
    /\ Running("timeout")
    /\ ~Head(ready).ec
    /\ result' = "timeout"
    /\ Ask
    /\ armed' = "grace"
    /\ remaining' = GraceWait
    /\ ready' = Tail(ready)
    /\ UNCHANGED <<process, slotConnected, terminated, returned>>

\* The second handler of the timer: terminate the process.
OnGraceOver ==
    /\ Running("grace")
    /\ ~Head(ready).ec
    /\ Terminate
    /\ ready' = Tail(ready)
    /\ UNCHANGED <<process, timer, slotConnected, asked, result,
                   returned>>

\* A cancelled wait: "we were cancelled, do nothing".
OnCancelled ==
    /\ Running("timeout") \/ Running("grace")
    /\ Head(ready).ec
    /\ ready' = Tail(ready)
    /\ UNCHANGED <<process, timer, signals, result, returned>>

\* ctx_.run() returns when no handler is queued and no operation pending.
Run ==
    /\ ~returned
    /\ ready = <<>>
    /\ process = "exited"
    /\ armed = "none"
    /\ returned' = TRUE
    /\ UNCHANGED <<process, timer, ready, signals, result>>

Handle == OnExitError \/ OnExit \/ OnTimeout \/ OnGraceOver \/ OnCancelled

Returned == returned /\ UNCHANGED touchVars

TouchNext == Tick \/ ProcessExits \/ TimerExpires \/ Handle \/ Run \/ Returned

(***************************************************************************)
(* The context runs, the clock advances, and a process that was terminated *)
(* ends; one that was only asked to exit need not.                         *)
(***************************************************************************)
TouchFairness ==
    /\ WF_touchVars(Tick)
    /\ WF_touchVars(TimerExpires)
    /\ WF_touchVars(Handle)
    /\ WF_touchVars(Run)
    /\ WF_touchVars(terminated /\ ProcessExits)

TouchSpec == TouchInit /\ [][TouchNext]_touchVars /\ TouchFairness

-------------------------------------------------------------------------------
(***************************************************************************)
(* Run returns: a process that hangs is terminated after the second        *)
(* timeout, also when it ignores the request to exit.                      *)
(***************************************************************************)
RunReturns == <>returned

ExpiryQueued ==
    \E i \in DOMAIN ready : ready[i] = Completed("timeout", FALSE)

(***************************************************************************)
(* The success of a command stands for good once it is recorded, unless    *)
(* the timer had expired already and its handler was waiting in the queue. *)
(***************************************************************************)
SuccessStands == [](result = "ok" /\ ~ExpiryQueued => [](result = "ok"))
===============================================================================
