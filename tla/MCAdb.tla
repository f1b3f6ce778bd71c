--------------------------------- MODULE MCAdb ---------------------------------
(***************************************************************************)
(* The two executors of adb commands side by side, as in a host that uses  *)
(* both plugins, for TLC.  They share nothing.                             *)
(***************************************************************************)
EXTENDS ProcessExecutor, CommandExecutor

AdbInit == TouchInit /\ CommandInit

AdbNext ==
    \/ TouchNext /\ UNCHANGED commandVars
    \/ CommandNext /\ UNCHANGED touchVars

AdbSpec ==
    /\ AdbInit
    /\ [][AdbNext]_<<touchVars, commandVars>>
    /\ TouchFairness /\ CommandFairness /\ EndingFairness

\* The types of both.
AdbTypeOK == TouchTypeOK /\ CommandTypeOK
===============================================================================
