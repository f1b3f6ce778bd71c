--------------------------------- MODULE MCHost ---------------------------------
(***************************************************************************)
(* The services of the host beside the scheduler and the plugin manager's  *)
(* start, for TLC: logs over HTTP, settings on disk, the registry with the *)
(* capture manager, error messages, the profile endpoints and the Python   *)
(* runtime.  An initial state chooses the part that moves; they share      *)
(* nothing but what the modules model themselves.                          *)
(***************************************************************************)
EXTENDS LogController, SettingsFile, CaptureManager, ErrorMessages,
        ProfileController, PythonHost

CONSTANTS r1, r2

TwoClients == {r1, r2}
MCDocuments == {<<"n">>, <<"a", "b">>}
MCNull == <<"n">>
MCLangOf == [l \in {"e", "f"} |-> IF l = "f" THEN "fr" ELSE "en"]

O(kind, guid, iids, swig, stored, errs) ==
    [kind |-> kind, guid |-> guid, iids |-> iids, swig |-> swig, stored |-> stored,
     errs |-> errs]

\* An offer of each kind, and those that some action treats differently.
MCOffers ==
    {O("lens", NoGuid, {1, 2}, FALSE, FALSE, FALSE),
     O("lens", NoGuid, {1, 2}, TRUE, FALSE, TRUE),
     O("task", 2, {}, FALSE, TRUE, FALSE),
     O("capture", 1, {}, FALSE, TRUE, FALSE),
     O("capture", NoGuid, {}, FALSE, TRUE, FALSE),
     O("capture", 1, {}, TRUE, TRUE, FALSE),
     O("input", 2, {}, TRUE, TRUE, FALSE),
     O("component", 1, {1}, FALSE, TRUE, FALSE),
     O("component", 2, {2}, FALSE, TRUE, TRUE)}

VARIABLE part

Init ==
    /\ part \in {"log", "settings", "extra", "registry", "messages", "profile",
                "python"}
    /\ ControllerInit /\ SettingsInit /\ CaptureInit /\ MessagesInit
    /\ ProfileInit /\ PythonInit
    /\ part \notin {"settings", "extra"} => directory = "missing"

Next ==
    /\ UNCHANGED part
    /\ \/ part = "log" /\ ControllerNext
       \/ part # "log" /\ UNCHANGED logVars
    /\ \/ part = "settings" /\ SettingsNext
       \/ part = "extra" /\ ExtraNext
       \/ part \notin {"settings", "extra"} /\ UNCHANGED settingsVars
    /\ \/ part = "registry" /\ CaptureNext
       \/ part # "registry" /\ UNCHANGED <<registryVars, captureVars>>
    /\ \/ part = "messages" /\ MessagesNext
       \/ part # "messages" /\ UNCHANGED messageVars
    /\ \/ part = "profile" /\ ProfileNext
       \/ part # "profile" /\ UNCHANGED profileVars
    /\ \/ part = "python" /\ PythonNext
       \/ part # "python" /\ UNCHANGED pythonVars

vars == <<part, logVars, settingsVars, registryVars, captureVars, messageVars,
          profileVars, pythonVars>>

Spec == Init /\ [][Next]_vars

\* The types of all of them.
HostTypeOK ==
    /\ ControllerTypeOK /\ SettingsTypeOK /\ CaptureTypeOK /\ MessagesTypeOK
    /\ ProfileTypeOK /\ PythonTypeOK
===============================================================================
