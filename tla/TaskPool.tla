------------------------------- MODULE TaskPool -------------------------------
(***************************************************************************)
(* What the scheduler promises about the task registrations it is given,   *)
(* with no thread, lock, order or time in it: every registration is either *)
(* waiting or being run, at most one is being run, and a registration      *)
(* leaves only when a caller withdraws a waiting one or when the run of it *)
(* ends without a next execution time.                                     *)
(***************************************************************************)
EXTENDS Naturals

CONSTANTS
    Tasks,      \* the task interface ids (iid_) callers register
    NoTask      \* stands for "nothing is being run"; not a task

VARIABLES
    waiting,    \* [Tasks -> Nat]: registrations of a task that wait
    active      \* the task being run, or NoTask

poolVars == <<waiting, active>>

PoolTypeOK ==
    /\ waiting \in [Tasks -> Nat]
    /\ active \in Tasks \cup {NoTask}

Init ==
    /\ waiting = [k \in Tasks |-> 0]
    /\ active = NoTask

\* A caller registers k once more.
Submit(k) ==
    /\ waiting' = [waiting EXCEPT ![k] = @ + 1]
    /\ UNCHANGED active

\* A caller withdraws one waiting registration of k.
Withdraw(k) ==
    /\ waiting[k] > 0
    /\ waiting' = [waiting EXCEPT ![k] = @ - 1]
    /\ UNCHANGED active

\* One waiting registration of k becomes the active one.
Take(k) ==
    /\ active = NoTask
    /\ waiting[k] > 0
    /\ waiting' = [waiting EXCEPT ![k] = @ - 1]
    /\ active' = k

\* The active run ends and its task waits again.
Return ==
    /\ active # NoTask
    /\ waiting' = [waiting EXCEPT ![active] = @ + 1]
    /\ active' = NoTask

\* The active run ends and its task is not scheduled again.
Drop ==
    /\ active # NoTask
    /\ active' = NoTask
    /\ UNCHANGED waiting

Next ==
    \/ \E k \in Tasks : Submit(k) \/ Withdraw(k) \/ Take(k)
    \/ Return
    \/ Drop

Spec == Init /\ [][Next]_poolVars

(***************************************************************************)
(* Every run that is taken up ends: the registration goes back to waiting  *)
(* or is dropped.                                                          *)
(***************************************************************************)
LiveSpec == Spec /\ WF_poolVars(Return \/ Drop)
===============================================================================
