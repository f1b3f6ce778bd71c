----------------------------- MODULE PluginManager -----------------------------
(***************************************************************************)
(* PluginManager (das/Core/ForeignInterfaceHost): the one registry of the  *)
(* plugin packages, loaded by the first request to initialise it.          *)
(*                                                                         *)
(* A host thread (the endpoint /api/profile/initialize, one thread for     *)
(* each connection) calls InitializeIDasPluginManager, gets a waiter and   *)
(* waits: Refresh runs on the VM thread, binds the manager to that thread  *)
(* and reads the packages in ./plugins one by one.  Then the host gets the *)
(* interface for user interfaces and asks for the manager itself.          *)
(***************************************************************************)
EXTENDS Naturals, Sequences, FiniteSets

CONSTANTS
    Hosts,      \* threads of the HTTP server
    VmThread,   \* the thread of vm_thread_pool_
    Main,       \* the thread that constructed g_plugin_manager
    None,       \* no package
    Packages,   \* metadata files in ./plugins
    Names,      \* names they may give, in the order of DasStringLess
    Iids,       \* guids of the tasks they offer
    PathOf,     \* path of each file, its name as long as it gives none
    Contents,   \* what a package may be
    MaxCalls    \* bound on initialize_counter

(***************************************************************************)
(* What becomes of a package: its guid is ignored; it fails before or      *)
(* after its name is known; it loads; or an exception nobody catches       *)
(* leaves Refresh (an unknown feature or type of setting).  Of the         *)
(* features, two stand for all: a task, which has a guid that another one  *)
(* may have too, and a factory; offers are those CreateInterface succeeds  *)
(* for, in a package that throws those before the unknown one.             *)
(***************************************************************************)
Outcomes == {"ignored", "unreadable", "broken", "loads", "throws"}
Features == {"task", "factory"}
Content == [name : Names, iid : Iids, outcome : Outcomes,
            offers : SUBSET Features]

ASSUME PluginManagerAssumption ==
    /\ Names \subseteq Nat
    /\ PathOf \in [Packages -> Nat \ Names]
    /\ \A p, q \in Packages : PathOf[p] = PathOf[q] => p = q
    /\ Contents \subseteq Content
    /\ MaxCalls \in Nat
    /\ None \notin Packages
    /\ VmThread # Main
    /\ {VmThread, Main} \cap Hosts = {}

VARIABLES
    disk,       \* the content of every package; never changes
    counter,    \* initialize_counter
    pcH,        \* where each host is inside get_initialize
    seen,       \* what each host read initialize_counter as
    outcome,    \* result of the refresh each host waits for
    answer,     \* the last response of each host
    handle,     \* p_plugin_manager_for_ui_ of the one controller is not null
    jobs,       \* hosts whose refresh is queued for the VM thread
    todo,       \* packages the running refresh has still to read
    building,   \* map of the running refresh
    refreshing, \* a refresh runs; it holds mutex_
    bound,      \* id_ of the ThreadVerifier
    inited,     \* is_inited_
    listed,     \* packages in name_plugin_map_
    tasks,      \* map_ of the task manager: the package each iid is from
    factories,  \* how often each package is in capture_factory_vector_
    refreshes,  \* history: refreshes begun
    overlapped  \* history: what several hosts did at once

hostVars == <<counter, pcH, seen, answer, handle>>
registry == <<inited, listed, tasks, factories>>
refresh == <<jobs, todo, building, refreshing, bound, outcome, refreshes>>
pmVars == <<disk, hostVars, registry, refresh, overlapped>>

Overlaps == {"nothing", "request", "count"}

\* What Refresh is documented to answer (PluginManager.h:226), that nothing was
\* answered yet, and an exception.
Results == {"ok", "partial", "fatal", "none", "thrown"}

TypeOK ==
    /\ disk \in [Packages -> Contents]
    /\ counter \in 0 .. MaxCalls
    /\ pcH \in [Hosts -> {"idle", "counting", "testing", "wait", "waiting",
                          "existing"}]
    /\ seen \in [Hosts -> 0 .. MaxCalls]
    /\ outcome \in [Hosts -> Results]
    /\ answer \in [Hosts -> {"none", "ok", "unexpected", "not_init", "thrown"}]
    /\ handle \in BOOLEAN
    /\ jobs \in Seq(Hosts)
    /\ todo \subseteq Packages
    /\ building \subseteq Packages
    /\ refreshing \in BOOLEAN
    /\ bound \in {Main, VmThread}
    /\ inited \in BOOLEAN
    /\ listed \subseteq Packages
    /\ tasks \in [Iids -> Packages \cup {None}]
    /\ factories \in [Packages -> Nat]
    /\ refreshes \in Nat
    /\ overlapped \in Overlaps

PmInit ==
    /\ disk \in [Packages -> Contents]
    /\ counter = 0
    /\ pcH = [c \in Hosts |-> "idle"]
    /\ seen = [c \in Hosts |-> 0]
    /\ outcome = [c \in Hosts |-> "none"]
    /\ answer = [c \in Hosts |-> "none"]
    /\ handle = FALSE
    /\ jobs = <<>>
    /\ todo = {}
    /\ building = {}
    /\ refreshing = FALSE
    /\ bound = Main
    /\ inited = FALSE
    /\ listed = {}
    /\ tasks = [i \in Iids |-> None]
    /\ factories = [p \in Packages |-> 0]
    /\ refreshes = 0
    /\ overlapped = "nothing"

-------------------------------------------------------------------------------
\* Faulty variants, one plausible mistake each; no action uses them.
FirstOrSecond(n) == n <= 2
WaiterNotTold(c, result) == outcome

-------------------------------------------------------------------------------
(***************************************************************************)
(* InitializeIDasPluginManager, called by get_initialize.  The counter is  *)
(* a plain static: incrementing it is a read and a write, and the test may *)
(* read it again.                                                          *)
(***************************************************************************)
Overlapping ==
    IF \E d \in Hosts : pcH[d] \in {"counting", "testing"} THEN "count"
    ELSE IF overlapped = "nothing" /\ \E d \in Hosts : pcH[d] # "idle"
    THEN "request" ELSE overlapped

\* Put resets the controller's pointer before the call that may set it.
HandleAfterPut == FALSE

ReadCounter(c) ==
    /\ pcH[c] = "idle"
    /\ counter < MaxCalls
    /\ handle' = HandleAfterPut
    /\ seen' = [seen EXCEPT ![c] = counter]
    /\ pcH' = [pcH EXCEPT ![c] = "counting"]
    /\ overlapped' = Overlapping
    /\ UNCHANGED <<disk, counter, answer, registry, refresh>>

WriteCounter(c) ==
    /\ pcH[c] = "counting"
    /\ counter' = seen[c] + 1
    /\ pcH' = [pcH EXCEPT ![c] = "testing"]
    /\ UNCHANGED <<disk, seen, answer, handle, registry, refresh, overlapped>>

\* if (initialize_counter > 1)
IsFirst(n) == n <= 1

IsUnexpectedThread(c) == bound # c

\* The first call: the host gets a waiter.
GetWaiter(c) ==
    /\ pcH[c] = "testing"
    /\ \E n \in {seen[c] + 1, counter} : IsFirst(n)
    /\ pcH' = [pcH EXCEPT ![c] = "wait"]
    /\ UNCHANGED <<disk, counter, seen, answer, handle, registry, refresh,
                   overlapped>>

\* Any later call: an error, as the manager is bound to another thread.
RefuseInitialize(c) ==
    /\ pcH[c] = "testing"
    /\ \E n \in {seen[c] + 1, counter} : ~IsFirst(n)
    /\ pcH' = [pcH EXCEPT ![c] = "idle"]
    /\ answer' = [answer EXCEPT ![c] = "unexpected"]
    /\ UNCHANGED <<disk, counter, seen, handle, registry, refresh, overlapped>>

\* sync_wait starts the refresh on the VM thread.
Wait(c) ==
    /\ pcH[c] = "wait"
    /\ pcH' = [pcH EXCEPT ![c] = "waiting"]
    /\ jobs' = Append(jobs, c)
    /\ outcome' = [outcome EXCEPT ![c] = "none"]
    /\ UNCHANGED <<disk, counter, seen, answer, handle, registry, todo, building,
                   refreshing, bound, refreshes, overlapped>>

-------------------------------------------------------------------------------
(***************************************************************************)
(* Refresh, on the VM thread, under mutex_ from begin to end.              *)
(***************************************************************************)
RefreshBegin ==
    /\ ~refreshing
    /\ jobs # <<>>
    /\ refreshing' = TRUE
    /\ bound' = VmThread
    /\ todo' = Packages
    /\ building' = {}
    /\ refreshes' = refreshes + 1
    /\ UNCHANGED <<disk, hostVars, registry, jobs, outcome, overlapped>>

\* The key of a package in the map.
Key(p) == IF disk[p].outcome = "unreadable" THEN PathOf[p] ELSE disk[p].name

\* map.emplace: a key that is there already keeps its plugin.
Emplaced(p) ==
    IF \E q \in building : Key(q) = Key(p) THEN building ELSE building \cup {p}

\* A faulty variant: the map in use is filled in place; no action uses it.
PublishedInPlace(p) == Emplaced(p)

\* What a refresh that still runs makes of the map in use.
Published(p) == listed

ReadNext(p) == refreshing /\ p \in todo /\ todo' = todo \ {p}

IgnorePackage(p) ==
    /\ ReadNext(p)
    /\ disk[p].outcome = "ignored"
    /\ UNCHANGED <<disk, hostVars, registry, jobs, building, refreshing, bound,
                   outcome, refreshes, overlapped>>

\* FailedPluginProxy::AddPluginTo
ListFailedPackage(p) ==
    /\ ReadNext(p)
    /\ disk[p].outcome \in {"unreadable", "broken"}
    /\ building' = Emplaced(p)
    /\ UNCHANGED <<disk, hostVars, registry, jobs, refreshing, bound, outcome,
                   refreshes, overlapped>>

\* The features AddInterface registers: one that fails does not stop it.
FeaturesAdded(p) == disk[p].offers

\* Details::AddTask: a duplicate is refused.
TaskRegistered(i, p) == IF tasks[i] = None THEN p ELSE tasks[i]

AddInterface(p) ==
    LET i == disk[p].iid IN
    /\ tasks' = IF "task" \in FeaturesAdded(p)
                THEN [tasks EXCEPT ![i] = TaskRegistered(i, p)] ELSE tasks
    /\ factories' = IF "factory" \in FeaturesAdded(p)
                    THEN [factories EXCEPT ![p] = @ + 1] ELSE factories

(***************************************************************************)
(* AddInterface and map.emplace: what a package offers stays registered    *)
(* also when the map already has a plugin of its name.                     *)
(***************************************************************************)
LoadPackage(p) ==
    /\ ReadNext(p)
    /\ disk[p].outcome = "loads"
    /\ AddInterface(p)
    /\ building' = Emplaced(p)
    /\ listed' = Published(p)
    /\ UNCHANGED <<disk, hostVars, inited, jobs, refreshing, bound, outcome,
                   refreshes, overlapped>>

HasFailed(p) == disk[p].outcome \in {"unreadable", "broken"}

\* DAS_S_FALSE or DAS_S_OK: what AddInterface answered is not looked at.
RefreshResult ==
    IF \E p \in Packages : HasFailed(p) THEN "partial" ELSE "ok"

\* What the waiter of host c is told.
Told(c, result) == [outcome EXCEPT ![c] = result]

RefreshEnd ==
    /\ refreshing
    /\ todo = {}
    /\ listed' = building
    /\ inited' = TRUE
    /\ refreshing' = FALSE
    /\ outcome' = Told(Head(jobs), RefreshResult)
    /\ jobs' = Tail(jobs)
    /\ UNCHANGED <<disk, hostVars, tasks, factories, todo, building,
                   bound, refreshes, overlapped>>

(***************************************************************************)
(* The exception unlocks the mutex and is handed to the waiter.  What was  *)
(* registered so far stays; the map of this refresh is lost.               *)
(***************************************************************************)
RefreshThrows(p) ==
    /\ ReadNext(p)
    /\ disk[p].outcome = "throws"
    /\ AddInterface(p)
    /\ refreshing' = FALSE
    /\ outcome' = Told(Head(jobs), "thrown")
    /\ jobs' = Tail(jobs)
    /\ UNCHANGED <<disk, hostVars, inited, listed, building, bound, refreshes,
                   overlapped>>

-------------------------------------------------------------------------------
\* Wait returns; OnFinished hands over the interface for user interfaces.
WaitReturns(c) ==
    /\ pcH[c] = "waiting"
    /\ outcome[c] \in {"ok", "partial"}
    /\ handle' = TRUE
    /\ pcH' = [pcH EXCEPT ![c] = "existing"]
    /\ UNCHANGED <<disk, counter, seen, answer, registry, refresh, overlapped>>

\* Wait rethrows; the server answers the connection with an error.
WaitThrows(c) ==
    /\ pcH[c] = "waiting"
    /\ outcome[c] = "thrown"
    /\ answer' = [answer EXCEPT ![c] = "thrown"]
    /\ pcH' = [pcH EXCEPT ![c] = "idle"]
    /\ UNCHANGED <<disk, counter, seen, handle, registry, refresh, overlapped>>

\* GetExistingIDasPluginManager; IsInited needs the mutex.
Existing(c) ==
    IF IsUnexpectedThread(c) THEN "unexpected"
    ELSE IF inited THEN "ok" ELSE "not_init"

GetExisting(c) ==
    /\ pcH[c] = "existing"
    /\ IsUnexpectedThread(c) \/ ~refreshing
    /\ answer' = [answer EXCEPT ![c] = Existing(c)]
    /\ pcH' = [pcH EXCEPT ![c] = "idle"]
    /\ UNCHANGED <<disk, counter, seen, handle, registry, refresh, overlapped>>

InInitialize(c) ==
    \/ WriteCounter(c) \/ GetWaiter(c) \/ RefuseInitialize(c) \/ Wait(c)
    \/ WaitReturns(c) \/ WaitThrows(c) \/ GetExisting(c)

\* The steps of a refresh before its end, which publishes the map.
Reading ==
    \/ RefreshBegin
    \/ \E p \in Packages :
        IgnorePackage(p) \/ ListFailedPackage(p) \/ RefreshThrows(p)

-------------------------------------------------------------------------------
(***************************************************************************)
(* The packages are loaded at most once, as the message of                 *)
(* InitializeIDasPluginManager demands, however many requests come.  Two   *)
(* that count at the same time may both be the first, or none of them.     *)
(* A second refresh would also reset what users have set.                  *)
(***************************************************************************)
LoadedOnce ==
    overlapped # "count" => refreshes <= 1 /\ \A p \in Packages : factories[p] <= 1

(***************************************************************************)
(* Without that exception: "The plugin should be loaded only once while    *)
(* the program is running." (PluginManager.cpp:1847), and whoever comes    *)
(* second is told that the manager is there (IDasPluginManager.h:257).     *)
(***************************************************************************)
LoadedOnlyOnce == refreshes <= 1

(***************************************************************************)
(* Whoever gets the mutex finds no map or a complete one, also after an    *)
(* exception has left Refresh: every package that is not ignored is        *)
(* listed, or another one of its name is.                                  *)
(***************************************************************************)
MapAllOrNothing ==
    ~refreshing /\ listed # {} =>
        \A p \in Packages : disk[p].outcome # "ignored" =>
            \E q \in listed : Key(q) = Key(p)

\* The plugins whose library is loaded: those in a map, the new one included.
InMemory == listed \cup IF refreshing THEN building ELSE {}

(***************************************************************************)
(* A plugin that is in no map goes, and its library is unloaded with the   *)
(* runtime; what it registered stays registered.  So a factory in use has  *)
(* its code as long as no exception left Refresh and no package of the     *)
(* same name was read before: a later refresh reads a package again before *)
(* it lets the old plugin go.                                              *)
(***************************************************************************)
CodeStaysLoaded ==
    (\A p \in Packages : disk[p].outcome # "throws") =>
        \A p \in Packages : factories[p] > 0 =>
            \E q \in InMemory : q = p \/ Key(q) = Key(p)
===============================================================================
