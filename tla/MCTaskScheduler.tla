--------------------------- MODULE MCTaskScheduler ---------------------------
(***************************************************************************)
(* Instances of TaskScheduler for TLC.                                     *)
(***************************************************************************)
EXTENDS TaskScheduler

CONSTANTS c1, c2, t1, t2

OneClient == {c1}
TwoClients == {c1, c2}
OneTask == {t1}
TwoTasks == {t1, t2}
NoTasks == {}
===============================================================================
