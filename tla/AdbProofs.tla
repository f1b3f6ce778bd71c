------------------------------- MODULE AdbProofs -------------------------------
(***************************************************************************)
(* Proofs about the two executors of adb commands, for every timeout.      *)
(***************************************************************************)
EXTENDS MCAdb, SequenceTheorems, TLAPS

-------------------------------------------------------------------------------
(***************************************************************************)
(* ProcessExecutor: the wait for the process completes once, and success   *)
(* is recorded with no wait of the timer pending.                          *)
(***************************************************************************)
Entries == [handler : Handlers, ec : BOOLEAN]
ExitQueued == \E i \in DOMAIN ready : ready[i].handler = "exit"

TouchInv ==
    /\ ready \in Seq(Entries)
    /\ armed \in {"timeout", "grace", "none"}
    /\ \A i, j \in DOMAIN ready :
         ready[i].handler = "exit" /\ ready[j].handler = "exit" => i = j
    /\ ExitQueued => slotConnected
    /\ process = "running" => slotConnected /\ ~ExitQueued
    /\ result = "ok" => ~slotConnected /\ armed = "none"

LEMMA TouchInitEstablishes == TouchInit => TouchInv
<1> SUFFICES ASSUME TouchInit PROVE TouchInv
  OBVIOUS
<1>1. process = "running" => slotConnected
  BY DEF TouchInit
<1>2. ready = <<>> /\ armed \in {"timeout", "none"} /\ result = "undefined"
  BY DEF TouchInit
<1>3. QED
  BY <1>1, <1>2 DEF TouchInv, ExitQueued

\* What is left in the queue was there.
LEMMA TailOf ==
    ASSUME NEW s \in Seq(Entries), s # <<>>
    PROVE  /\ Head(s) = s[1] /\ 1 \in DOMAIN s /\ Tail(s) \in Seq(Entries)
           /\ \A i \in DOMAIN Tail(s) : i + 1 \in DOMAIN s /\ Tail(s)[i] = s[i + 1]
           /\ DOMAIN Tail(s) \subseteq Nat \ {0}
<1>1. Len(s) \in Nat /\ Len(s) # 0 /\ DOMAIN s = 1 .. Len(s)
  BY LenProperties, EmptySeq
<1>2. /\ Tail(s) \in Seq(Entries) /\ Len(Tail(s)) = Len(s) - 1
      /\ \A i \in 1 .. Len(Tail(s)) : Tail(s)[i] = s[i + 1]
  BY HeadTailProperties
<1>3. DOMAIN Tail(s) = 1 .. Len(s) - 1
  BY <1>2, LenProperties
<1>4. QED
  BY <1>1, <1>2, <1>3

\* What is appended comes last, the rest stays.
LEMMA AppendOf ==
    ASSUME NEW s \in Seq(Entries), NEW e \in Entries
    PROVE  /\ Append(s, e) \in Seq(Entries)
           /\ DOMAIN Append(s, e) = DOMAIN s \cup {Len(s) + 1}
           /\ Len(s) + 1 \notin DOMAIN s /\ Append(s, e)[Len(s) + 1] = e
           /\ \A i \in DOMAIN s : Append(s, e)[i] = s[i]
<1>1. Len(s) \in Nat /\ DOMAIN s = 1 .. Len(s)
  BY LenProperties
<1>2. /\ Append(s, e) \in Seq(Entries) /\ Len(Append(s, e)) = Len(s) + 1
      /\ \A i \in 1 .. Len(s) : Append(s, e)[i] = s[i]
      /\ Append(s, e)[Len(s) + 1] = e
  BY AppendProperties
<1>3. DOMAIN Append(s, e) = 1 .. Len(s) + 1
  BY <1>2, LenProperties
<1>4. QED
  BY <1>1, <1>2, <1>3

\* A handler that ran leaves at most the exit the queue had, none if it was it.
LEMMA TailKeeps ==
    ASSUME NEW s \in Seq(Entries), s # <<>>,
           \A i, j \in DOMAIN s : s[i].handler = "exit" /\ s[j].handler = "exit" => i = j
    PROVE  /\ \A i, j \in DOMAIN Tail(s) :
                Tail(s)[i].handler = "exit" /\ Tail(s)[j].handler = "exit" => i = j
           /\ \A i \in DOMAIN Tail(s) : Tail(s)[i].handler = "exit" =>
                (\E k \in DOMAIN s : s[k].handler = "exit") /\ Head(s).handler # "exit"
           /\ \A c \in Entries : (\E i \in DOMAIN Tail(s) : Tail(s)[i] = c) =>
                \E k \in DOMAIN s : s[k] = c
  BY TailOf

\* What is appended is the only new entry.
LEMMA AppendKeeps ==
    ASSUME NEW s \in Seq(Entries), NEW e \in Entries
    PROVE  /\ (\A i \in DOMAIN s : s[i].handler # "exit") =>
                \A i, j \in DOMAIN Append(s, e) :
                  Append(s, e)[i].handler = "exit" /\ Append(s, e)[j].handler = "exit"
                    => i = j
           /\ e.handler # "exit" => \A i \in DOMAIN Append(s, e) :
                Append(s, e)[i].handler = "exit" => i \in DOMAIN s /\ s[i].handler = "exit"
  BY AppendOf

LEMMA TouchNextKeeps == TouchInv /\ [TouchNext]_touchVars => TouchInv'
<1> SUFFICES ASSUME TouchInv, [TouchNext]_touchVars PROVE TouchInv'
  OBVIOUS
<1>0. ready \in Seq(Entries)
  BY DEF TouchInv
<1>1. CASE UNCHANGED touchVars \/ Tick \/ Run \/ Returned
  BY <1>1 DEF touchVars, Tick, Run, Returned, timer, signals, TouchInv, ExitQueued
<1>2. CASE ProcessExits
  <2>1. PICK ec \in BOOLEAN : ready' = Append(ready, Completed("exit", ec))
    BY <1>2 DEF ProcessExits
  <2>2. Completed("exit", ec) \in Entries /\ Completed("exit", ec).handler = "exit"
    BY DEF Completed, Entries, Handlers
  <2>3. /\ process = "running" /\ process' = "exited" /\ armed' = armed
        /\ slotConnected' = slotConnected /\ result' = result
    BY <1>2 DEF ProcessExits, timer, signals
  <2>4. ready' \in Seq(Entries)
    BY <1>0, <2>1, <2>2, AppendOf
  <2>5. \A i, j \in DOMAIN ready' :
          ready'[i].handler = "exit" /\ ready'[j].handler = "exit" => i = j
    BY <1>0, <2>1, <2>2, <2>3, AppendKeeps DEF TouchInv, ExitQueued
  <2>6. QED
    BY <2>3, <2>4, <2>5 DEF TouchInv, ExitQueued
<1>3. CASE TimerExpires
  <2>1. /\ ready' = Append(ready, Completed(armed, FALSE)) /\ armed' = "none"
        /\ armed # "none" /\ process' = process /\ result' = result
        /\ slotConnected' = slotConnected
    BY <1>3 DEF TimerExpires, signals
  <2>2. Completed(armed, FALSE) \in Entries /\ Completed(armed, FALSE).handler # "exit"
    BY <2>1 DEF TouchInv, Completed, Entries, Handlers
  <2>3. ready' \in Seq(Entries)
    BY <1>0, <2>1, <2>2, AppendOf
  <2>4. \A i \in DOMAIN ready' : ready'[i].handler = "exit" =>
          i \in DOMAIN ready /\ ready[i].handler = "exit"
    BY <1>0, <2>1, <2>2, AppendKeeps
  <2>5. QED
    BY <2>1, <2>3, <2>4 DEF TouchInv, ExitQueued
<1>4. CASE OnExitError
  <2>1. /\ ready # <<>> /\ Head(ready).handler = "exit" /\ ready' = Tail(ready)
        /\ slotConnected' = FALSE /\ armed' = armed /\ process' = process
        /\ result' # "ok"
    BY <1>4 DEF OnExitError, Running, ResultOfError, timer
  <2>2. process = "exited" \/ process # "running"
    BY <1>0, <2>1, TailOf DEF TouchInv, ExitQueued
  <2>3. QED
    BY <1>0, <2>1, <2>2, TailOf, TailKeeps DEF TouchInv, ExitQueued
<1>5. CASE OnExit
  <2>1. /\ ready # <<>> /\ Head(ready).handler = "exit"
        /\ slotConnected' = FALSE /\ armed' = "none" /\ process' = process
        /\ \/ ready' = Tail(ready)
           \/ armed # "none" /\ ready' = Append(Tail(ready), Completed(armed, TRUE))
    BY <1>5 DEF OnExit, Running, CancelTimer
  <2>2. process # "running"
    BY <1>0, <2>1, TailOf DEF TouchInv, ExitQueued
  <2>3. Tail(ready) \in Seq(Entries)
        /\ \A i \in DOMAIN Tail(ready) : Tail(ready)[i].handler # "exit"
    BY <1>0, <2>1, TailOf, TailKeeps DEF TouchInv
  <2>4. ready' \in Seq(Entries) /\ \A i \in DOMAIN ready' : ready'[i].handler # "exit"
    <3>1. CASE ready' = Tail(ready)
      BY <2>3, <3>1
    <3>2. CASE armed # "none" /\ ready' = Append(Tail(ready), Completed(armed, TRUE))
      <4>1. Completed(armed, TRUE) \in Entries /\ Completed(armed, TRUE).handler # "exit"
        BY <3>2 DEF TouchInv, Completed, Entries, Handlers
      <4>2. ready' \in Seq(Entries)
        BY <2>3, <3>2, <4>1, AppendOf
      <4>3. QED
        BY <2>3, <3>2, <4>1, <4>2, AppendKeeps
    <3>3. QED
      BY <2>1, <3>1, <3>2
  <2>5. QED
    BY <2>1, <2>2, <2>4 DEF TouchInv, ExitQueued
<1>6. CASE OnTimeout
  <2>1. /\ ready # <<>> /\ ready' = Tail(ready) /\ armed' = "grace"
        /\ result' = "timeout" /\ slotConnected' = slotConnected /\ process' = process
    BY <1>6 DEF OnTimeout, Running
  <2>2. QED
    BY <1>0, <2>1, TailOf, TailKeeps DEF TouchInv, ExitQueued
<1>7. CASE OnGraceOver \/ OnCancelled
  <2>1. /\ ready # <<>> /\ ready' = Tail(ready) /\ armed' = armed
        /\ result' = result /\ slotConnected' = slotConnected /\ process' = process
    BY <1>7 DEF OnGraceOver, OnCancelled, Running, timer, signals
  <2>2. QED
    BY <1>0, <2>1, TailOf, TailKeeps DEF TouchInv, ExitQueued
<1>8. QED
  BY <1>1, <1>2, <1>3, <1>4, <1>5, <1>6, <1>7 DEF TouchNext, Handle

\* Success that no queued expiry threatens.
Settled == result = "ok" /\ ~ExpiryQueued

\* No wait is pending then and the process was waited for already, so that
\* neither the timer nor the process can queue a handler that changes it.
LEMMA SettledStays ==
    TouchInv /\ Settled /\ [TouchNext]_touchVars => Settled'
<1> SUFFICES ASSUME TouchInv, Settled, [TouchNext]_touchVars PROVE Settled'
  OBVIOUS
<1>0. /\ ready \in Seq(Entries) /\ armed = "none" /\ ~ExitQueued
      /\ result = "ok" /\ process # "running"
      /\ \A i \in DOMAIN ready : ready[i] # Completed("timeout", FALSE)
  BY DEF TouchInv, Settled, ExpiryQueued
<1>1. CASE UNCHANGED touchVars \/ Tick \/ Run \/ Returned
  BY <1>1 DEF touchVars, Tick, Run, Returned, timer, signals, Settled, ExpiryQueued
<1>2. CASE ProcessExits \/ TimerExpires
  BY <1>0, <1>2 DEF ProcessExits, TimerExpires
<1>3. CASE OnExitError \/ OnExit
  BY <1>0, <1>3, TailOf DEF OnExitError, OnExit, Running, ExitQueued
<1>4. CASE OnTimeout
  <2>1. ready # <<>> /\ Head(ready).handler = "timeout" /\ ~Head(ready).ec
    BY <1>4 DEF OnTimeout, Running
  <2>2. Head(ready) = ready[1] /\ 1 \in DOMAIN ready /\ ready[1] \in Entries
    BY <1>0, <2>1, TailOf, HeadTailProperties
  <2>3. ready[1] = Completed("timeout", FALSE)
    BY <2>1, <2>2 DEF Entries, Completed
  <2>4. QED
    BY <1>0, <2>2, <2>3
<1>5. CASE OnGraceOver \/ OnCancelled
  <2>1. ready # <<>> /\ ready' = Tail(ready) /\ result' = result
    BY <1>5 DEF OnGraceOver, OnCancelled, Running
  <2>2. \A i \in DOMAIN ready' : ready'[i] # Completed("timeout", FALSE)
    BY <1>0, <2>1, TailOf
  <2>3. QED
    BY <1>0, <2>1, <2>2 DEF Settled, ExpiryQueued
<1>6. QED
  BY <1>1, <1>2, <1>3, <1>4, <1>5 DEF TouchNext, Handle

\* Once recorded, the success of a command is not turned into a timeout or an
\* error, unless the expiry was queued before it (ProcessExecutor, AdbTouch.cpp).
THEOREM RecordedSuccessStands == TouchSpec => SuccessStands
<1>1. Settled <=> result = "ok" /\ ~ExpiryQueued
  BY DEF Settled
<1>2. Settled => result = "ok"
  BY DEF Settled
<1>3. QED
  BY <1>1, <1>2, TouchInitEstablishes, TouchNextKeeps, SettledStays, PTL
     DEF TouchSpec, SuccessStands

-------------------------------------------------------------------------------
(***************************************************************************)
(* The types, and both executors in one host.                              *)
(***************************************************************************)
LEMMA TouchTypesInit == TouchInit => TouchTypeOK
<1> SUFFICES ASSUME TouchInit PROVE TouchTypeOK
  OBVIOUS
<1>1. Timeout \in 0 .. Timeout /\ slotConnected \in BOOLEAN /\ returned \in BOOLEAN /\ ready \in Seq([handler : Handlers, ec : BOOLEAN])
  BY ExecutorAssumption DEF TouchInit
<1>2. QED
  BY <1>1 DEF TouchInit, TouchTypeOK, Results

LEMMA TouchTypesStep == TouchTypeOK /\ [TouchNext]_touchVars => TouchTypeOK'
<1> SUFFICES ASSUME TouchTypeOK, [TouchNext]_touchVars PROVE TouchTypeOK'
  OBVIOUS
<1>1. ready \in Seq(Entries)
  BY DEF TouchTypeOK, Entries
<1>2. ASSUME NEW h \in Handlers, NEW ec \in BOOLEAN, NEW s \in Seq(Entries)
      PROVE  Append(s, Completed(h, ec)) \in Seq(Entries)
  BY AppendProperties DEF Completed, Entries
<1>3. ready # <<>> => Tail(ready) \in Seq(Entries)
  BY <1>1, HeadTailProperties
<1>4. CASE UNCHANGED touchVars
  BY <1>4 DEF touchVars, TouchTypeOK
<1>5. CASE Tick
  BY <1>5, ExecutorAssumption DEF Tick, signals, TouchTypeOK
<1>6. CASE ProcessExits
  <2>1. ready' \in Seq(Entries)
    BY <1>1, <1>2, <1>6 DEF ProcessExits, Handlers
  <2>2. QED
    BY <1>6, <2>1 DEF ProcessExits, timer, signals, TouchTypeOK, Entries
<1>7. CASE TimerExpires
  <2>1. ready' \in Seq(Entries)
    BY <1>1, <1>2, <1>7 DEF TimerExpires, Handlers, TouchTypeOK
  <2>2. QED
    BY <1>7, <2>1 DEF TimerExpires, signals, TouchTypeOK, Entries
<1>8. CASE OnExitError
  BY <1>3, <1>8 DEF OnExitError, Running, ResultOfError, timer, TouchTypeOK, Results, Entries
<1>9. CASE OnExit
  <2>1. ready' \in Seq(Entries) /\ armed' = "none"
    BY <1>2, <1>3, <1>9 DEF OnExit, Running, CancelTimer, Handlers, TouchTypeOK
  <2>2. QED
    BY <1>9, <2>1 DEF OnExit, TouchTypeOK, Results, Entries
<1>10. CASE OnTimeout
  <2>1. asked' \in BOOLEAN
    BY <1>10 DEF OnTimeout, Ask
  <2>2. GraceWait \in 0 .. Timeout
    BY ExecutorAssumption DEF GraceWait
  <2>3. QED
    BY <1>3, <1>10, <2>1, <2>2 DEF OnTimeout, Running, TouchTypeOK, Results, Entries
<1>11. CASE OnGraceOver
  <2>1. terminated' \in BOOLEAN
    BY <1>11 DEF OnGraceOver, Terminate
  <2>2. QED
    BY <1>3, <1>11, <2>1 DEF OnGraceOver, Running, timer, TouchTypeOK, Entries
<1>12. CASE OnCancelled
  BY <1>3, <1>12 DEF OnCancelled, Running, timer, signals, TouchTypeOK, Entries
<1>13. CASE Run \/ Returned
  BY <1>13 DEF Run, Returned, touchVars, timer, signals, TouchTypeOK
<1>14. QED
  BY <1>4, <1>5, <1>6, <1>7, <1>8, <1>9, <1>10, <1>11, <1>12, <1>13 DEF TouchNext, Handle

LEMMA CommandTypesStep == CommandTypeOK /\ [CommandNext]_commandVars => CommandTypeOK'
<1> SUFFICES ASSUME CommandTypeOK, [CommandNext]_commandVars PROVE CommandTypeOK'
  OBVIOUS
<1> USE CommandAssumption DEF CommandTypeOK
<1>1. CASE UNCHANGED commandVars
  BY <1>1 DEF commandVars
<1>2. CASE CommandTick \/ CommandExits \/ WaitCompletes
  BY <1>2 DEF CommandTick, CommandExits, WaitCompletes
<1>3. CASE Context
  BY <1>3 DEF Context, OnProcessExited, CancelWait, ReadEnds, WatcherLeaves, WatcherLoops,
              IocRun, AfterExpiry
<1>4. CASE Ended
  BY <1>4 DEF Ended, commandVars
<1>5. QED
  BY <1>1, <1>2, <1>3, <1>4 DEF CommandNext

\* In a host that uses both plugins each executor behaves as it does alone.
LEMMA ExecutorsBehave == AdbSpec => TouchSpec /\ CommandSpec
<1>1. [AdbNext]_<<touchVars, commandVars>> => [TouchNext]_touchVars /\ [CommandNext]_commandVars
  BY DEF AdbNext
<1>2. QED
  BY <1>1, PTL DEF AdbSpec, AdbInit, TouchSpec, CommandSpec

\* Both executors keep their types, the timers within their waits, for all timeouts.
THEOREM AdbTypeCorrect == AdbSpec => []AdbTypeOK
<1>1. CommandInit => CommandTypeOK
  <2>1. CommandTimeout \in 0 .. CommandTimeout /\ (CommandInit => ended \in BOOLEAN)
    <3>1. CommandInit => ended \in BOOLEAN
      BY DEF CommandInit
    <3>2. QED
      BY <3>1, CommandAssumption
  <2>2. QED
    BY <2>1 DEF CommandInit, CommandTypeOK, Expiry
<1>2. TouchTypeOK /\ CommandTypeOK => AdbTypeOK
  BY DEF AdbTypeOK
<1>3. TouchSpec => []TouchTypeOK
  BY TouchTypesInit, TouchTypesStep, PTL DEF TouchSpec
<1>4. CommandSpec => []CommandTypeOK
  BY <1>1, CommandTypesStep, PTL DEF CommandSpec
<1>5. QED
  BY <1>2, <1>3, <1>4, ExecutorsBehave, PTL

\* With both plugins in one host a success the touch plugin recorded stands,
\* whatever the executor of the capture plugin does meanwhile.
THEOREM HostedSuccessStands == AdbSpec => SuccessStands
  BY ExecutorsBehave, RecordedSuccessStands, PTL
===============================================================================
