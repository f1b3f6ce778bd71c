---------------------------- MODULE PluginSettings ----------------------------
(***************************************************************************)
(* The settings of plugins (das/Core/ForeignInterfaceHost): one JSON text  *)
(* per package, read, set and reset through the interface for user         *)
(* interfaces, and a copy in every task, which a signal of the package     *)
(* keeps up to date.                                                       *)
(***************************************************************************)
EXTENDS PluginManager

CONSTANTS
    Values,     \* texts that users set
    Default,    \* the text made of the defaults of the metadata
    Null        \* no text: a package that describes no settings

ASSUME SettingsAssumption ==
    /\ Default \notin Values
    /\ Null \notin Values \cup {Default}

VARIABLES
    described,      \* packages that load and describe settings; never changes
    settings,       \* settings_json_ of the packages in the map
    taskSettings,   \* settings_json_ of the task of each iid
    listening,      \* iids whose task is connected to its package's signal
    crashed         \* the process died on a null pointer

settingsVars == <<described, settings, taskSettings, listening, crashed>>
vars == <<pmVars, settingsVars>>

Texts == Values \cup {Default, Null}

PluginTypeOK ==
    /\ TypeOK
    /\ described \subseteq Packages
    /\ settings \in [Packages -> Texts]
    /\ taskSettings \in [Iids -> Texts]
    /\ listening \subseteq Iids
    /\ crashed \in BOOLEAN

Init ==
    /\ PmInit
    /\ described \in SUBSET {p \in Packages : disk[p].outcome = "loads"}
    /\ settings = [p \in Packages |-> Null]
    /\ taskSettings = [i \in Iids |-> Null]
    /\ listening = {}
    /\ crashed = FALSE

-------------------------------------------------------------------------------
\* A faulty variant: packages without settings have no entry; no action uses it.
DescribedOnly == [p \in described |-> Default]

\* from_json: a package with settings starts with their defaults.
FreshSettings ==
    [p \in Packages |-> IF p \in described THEN Default ELSE Null]

\* The scoped_connection of AddTask ends with AddTask.
StillConnected(i) == {}

\* AddTask connects the task that it registers.
Load(p) ==
    LET i == disk[p].iid IN
    /\ LoadPackage(p)
    /\ listening' = IF tasks[i] = None /\ tasks'[i] = p
                    THEN listening \cup StillConnected(i) ELSE listening
    /\ UNCHANGED <<described, settings, taskSettings, crashed>>

\* The map of a refresh has descriptions of its own, read from the disk.
Publish ==
    /\ RefreshEnd
    /\ settings' = FreshSettings
    /\ UNCHANGED <<described, taskSettings, listening, crashed>>

(***************************************************************************)
(* The loop over the map, in the order of its keys, reads the description  *)
(* of every plugin up to the one it looks for; a failed one has none.      *)
(***************************************************************************)
Loaded(p) == p \in listed /\ disk[p].outcome = "loads"
Passed(p) ==
    {q \in listed : Loaded(p) => Key(q) < Key(p)}
MeetsFailed(p) == \E q \in Passed(p) : HasFailed(q)
Found(p) == Loaded(p) /\ ~MeetsFailed(p)

\* A user interface that has the handle, and the lock_guard of mutex_.
MayCall == handle /\ ~refreshing /\ ~crashed

\* SetPluginSettingsJson: the value, then the signal.
SetPluginSettingsJson(p, v) ==
    /\ MayCall
    /\ Found(p)
    /\ settings' = [settings EXCEPT ![p] = v]
    /\ taskSettings' = [i \in Iids |->
            IF i \in listening /\ tasks[i] = p THEN v ELSE taskSettings[i]]
    /\ UNCHANGED <<pmVars, described, listening, crashed>>

\* ResetPluginSettings: the value, without the signal.
ResetPluginSettings(p) ==
    /\ MayCall
    /\ Found(p)
    /\ settings' = [settings EXCEPT ![p] = Default]
    /\ UNCHANGED <<pmVars, described, taskSettings, listening, crashed>>

\* Any of the three on a map with a failed plugin on the way.
LookupCrashes(p) ==
    /\ MayCall
    /\ MeetsFailed(p)
    /\ crashed' = TRUE
    /\ UNCHANGED <<pmVars, described, settings, taskSettings, listening>>

\* GetPluginSettingsJson calls AddRef on the text; the rest changes nothing.
GetCrashes(p) ==
    /\ MayCall
    /\ Found(p)
    /\ settings[p] = Null
    /\ crashed' = TRUE
    /\ UNCHANGED <<pmVars, described, settings, taskSettings, listening>>

-------------------------------------------------------------------------------
Initialize(c) == ~crashed /\ InInitialize(c) /\ UNCHANGED settingsVars
Vm ==
    /\ ~crashed
    /\ \/ Reading /\ UNCHANGED settingsVars
       \/ \E p \in Packages : Load(p)
       \/ Publish

Next ==
    \/ \E c \in Hosts : ~crashed /\ ReadCounter(c) /\ UNCHANGED settingsVars
    \/ \E c \in Hosts : Initialize(c)
    \/ Vm
    \/ \E p \in Packages, v \in Values : SetPluginSettingsJson(p, v)
    \/ \E p \in Packages : ResetPluginSettings(p)
    \/ \E p \in Packages : LookupCrashes(p) \/ GetCrashes(p)

\* Hosts need never call again.  The VM thread goes on, and so does a host
\* inside its request.
Spec ==
    /\ Init /\ [][Next]_vars
    /\ WF_vars(Vm)
    /\ \A c \in Hosts : WF_vars(Initialize(c))

-------------------------------------------------------------------------------
(***************************************************************************)
(* Every request to initialise is answered, also when Refresh throws.      *)
(***************************************************************************)
InitializeReturns ==
    \A c \in Hosts : pcH[c] = "counting" ~> pcH[c] = "idle" \/ crashed

(***************************************************************************)
(* The comment in SetPluginSettingsJson: after it, the scheduler gets the  *)
(* value directly.  It hands a task the copy in that task.                 *)
(***************************************************************************)
SchedulerGetsSettings ==
    \A i \in Iids :
        tasks[i] # None /\ settings[tasks[i]] \in Values =>
            taskSettings[i] = settings[tasks[i]]
===============================================================================
