------------------------------ MODULE PluginProofs ------------------------------
(***************************************************************************)
(* Proofs about the plugin manager, for every set of packages, whatever    *)
(* they are, and every number of hosts and requests.                       *)
(***************************************************************************)
EXTENDS PluginSettings, SequenceTheorems, TLAPS

\* The steps of the manager, whatever becomes of the settings.
Serves(c) == ReadCounter(c) \/ InInitialize(c)
ManagerStep ==
    \/ \E c \in Hosts : Serves(c)
    \/ RefreshBegin
    \/ \E p \in Packages :
        IgnorePackage(p) \/ ListFailedPackage(p) \/ LoadPackage(p) \/ RefreshThrows(p)
    \/ RefreshEnd
    \/ UNCHANGED pmVars

LEMMA NextIsManagerStep == [Next]_vars => ManagerStep
<1> SUFFICES ASSUME [Next]_vars PROVE ManagerStep
  OBVIOUS
<1>1. CASE UNCHANGED vars
  BY <1>1 DEF vars, ManagerStep
<1>2. CASE \E c \in Hosts : ~crashed /\ ReadCounter(c) /\ UNCHANGED settingsVars
  BY <1>2 DEF ManagerStep, Serves
<1>3. CASE \E c \in Hosts : Initialize(c)
  BY <1>3 DEF Initialize, ManagerStep, Serves
<1>4. CASE Vm
  BY <1>4 DEF Vm, Reading, Load, Publish, ManagerStep
<1>5. CASE \E p \in Packages, v \in Values : SetPluginSettingsJson(p, v)
  BY <1>5 DEF SetPluginSettingsJson, ManagerStep
<1>6. CASE \E p \in Packages :
             ResetPluginSettings(p) \/ LookupCrashes(p) \/ GetCrashes(p)
  BY <1>6 DEF ResetPluginSettings, LookupCrashes, GetCrashes, ManagerStep
<1>7. QED
  BY <1>1, <1>2, <1>3, <1>4, <1>5, <1>6 DEF Next

\* A host inside its request leaves the registry and the refresh alone, but for
\* the job that it queues.
LEMMA ServesLeaves ==
    ASSUME NEW c \in Hosts, Serves(c)
    PROVE  UNCHANGED <<disk, registry, todo, building, refreshing, refreshes>>
<1>1. CASE Wait(c)
  BY <1>1 DEF Wait
<1>2. CASE ReadCounter(c) \/ WriteCounter(c) \/ GetWaiter(c) \/ RefuseInitialize(c)
           \/ WaitReturns(c) \/ WaitThrows(c) \/ GetExisting(c)
  BY <1>2 DEF ReadCounter, WriteCounter, GetWaiter, RefuseInitialize, WaitReturns,
     WaitThrows, GetExisting, refresh
<1>3. QED
  BY <1>1, <1>2 DEF Serves, InInitialize

-------------------------------------------------------------------------------
(***************************************************************************)
(* The map: the one in use has every package of the last refresh, the new  *)
(* one every package read so far, and a factory's package is in one of     *)
(* them or was read by the refresh that runs.                              *)
(***************************************************************************)
Has(plugins, p) == \E q \in plugins : Key(q) = Key(p)
NoneThrows == \A p \in Packages : disk[p].outcome # "throws"

MapInv ==
    /\ listed # {} => \A p \in Packages : disk[p].outcome # "ignored" => Has(listed, p)
    /\ refreshing => \A p \in Packages \ todo :
                        disk[p].outcome # "ignored" => Has(building, p)
    /\ factories \in [Packages -> Nat]
    /\ NoneThrows => \A p \in Packages : factories[p] > 0 =>
         /\ disk[p].outcome # "ignored"
         /\ Has(listed, p) \/ (refreshing /\ p \notin todo)

LEMMA MapInit == Init => MapInv
  BY DEF Init, PmInit, MapInv, Has

\* A package that was put into the new map is there, or one of its name is,
\* and none is taken out.
LEMMA EmplacedHas ==
    ASSUME NEW p \in Packages
    PROVE  Has(Emplaced(p), p) /\ building \subseteq Emplaced(p)
  BY DEF Emplaced, Has

LEMMA MapNext == MapInv /\ ManagerStep => MapInv'
<1> SUFFICES ASSUME MapInv, ManagerStep PROVE MapInv'
  OBVIOUS
<1>0. disk' = disk => \A q : (Key(q))' = Key(q)
  BY DEF Key
<1>1. CASE UNCHANGED pmVars
  BY <1>0, <1>1 DEF pmVars, registry, refresh, MapInv, Has, NoneThrows
<1>2. CASE \E c \in Hosts : Serves(c)
  <2>1. UNCHANGED <<disk, registry, todo, building, refreshing, refreshes>>
    BY <1>2, ServesLeaves
  <2>2. QED
    BY <1>0, <2>1 DEF registry, MapInv, Has, NoneThrows
<1>3. CASE RefreshBegin
  <2>1. /\ disk' = disk /\ listed' = listed /\ factories' = factories
        /\ refreshing' = TRUE /\ todo' = Packages /\ ~refreshing
    BY <1>3 DEF RefreshBegin, registry
  <2>2. QED
    BY <1>0, <2>1 DEF MapInv, Has, NoneThrows
<1>4. ASSUME NEW p \in Packages, IgnorePackage(p) PROVE MapInv'
  <2>1. /\ disk' = disk /\ listed' = listed /\ factories' = factories
        /\ refreshing' = refreshing /\ building' = building
        /\ todo' = todo \ {p} /\ disk[p].outcome = "ignored" /\ refreshing
    BY <1>4 DEF IgnorePackage, ReadNext, registry
  <2>2. QED
    BY <1>0, <2>1 DEF MapInv, Has, NoneThrows
<1>5. ASSUME NEW p \in Packages, ListFailedPackage(p) PROVE MapInv'
  <2>1. /\ disk' = disk /\ listed' = listed /\ factories' = factories
        /\ refreshing' = refreshing /\ building' = Emplaced(p)
        /\ todo' = todo \ {p} /\ refreshing
    BY <1>5 DEF ListFailedPackage, ReadNext, registry
  <2>2. QED
    BY <1>0, <2>1, EmplacedHas DEF MapInv, Has, NoneThrows
<1>6. ASSUME NEW p \in Packages, LoadPackage(p) PROVE MapInv'
  <2>1. /\ disk' = disk /\ listed' = listed
        /\ refreshing' = refreshing /\ building' = Emplaced(p)
        /\ todo' = todo \ {p} /\ disk[p].outcome = "loads" /\ refreshing
    BY <1>6 DEF LoadPackage, Published, ReadNext
  <2>2. /\ factories' \in [Packages -> Nat]
        /\ \A q \in Packages : q # p => factories'[q] = factories[q]
    BY <1>6 DEF LoadPackage, AddInterface, MapInv
  <2>3. \A q \in Packages : Has(building, q) => Has(building, q)'
    BY <1>0, <2>1, EmplacedHas DEF Has
  <2>4. Has(building, p)' /\ \A q \in Packages : Has(listed, q)' = Has(listed, q)
    BY <1>0, <2>1, EmplacedHas DEF Has
  <2>5. QED
    BY <2>1, <2>2, <2>3, <2>4 DEF MapInv, NoneThrows
<1>7. ASSUME NEW p \in Packages, RefreshThrows(p) PROVE MapInv'
  <2>1. /\ disk' = disk /\ listed' = listed /\ refreshing' = FALSE
        /\ disk[p].outcome = "throws"
    BY <1>7 DEF RefreshThrows
  <2>2. factories' \in [Packages -> Nat]
    BY <1>7 DEF RefreshThrows, AddInterface, MapInv
  <2>3. ~NoneThrows'
    BY <2>1 DEF NoneThrows
  <2>4. QED
    BY <1>0, <2>1, <2>2, <2>3 DEF MapInv, Has
<1>8. CASE RefreshEnd
  <2>1. /\ disk' = disk /\ listed' = building /\ factories' = factories
        /\ refreshing' = FALSE /\ todo = {} /\ refreshing
    BY <1>8 DEF RefreshEnd
  <2>2. QED
    BY <1>0, <2>1 DEF MapInv, Has, NoneThrows
<1>9. QED
  BY <1>1, <1>2, <1>3, <1>4, <1>5, <1>6, <1>7, <1>8 DEF ManagerStep

LEMMA MapAlways == Spec => []MapInv
  BY MapInit, MapNext, NextIsManagerStep, PTL DEF Spec

\* Who gets the manager's mutex finds no map or a complete one, whatever the
\* packages are and wherever a refresh is left (Refresh, PluginManager.cpp).
THEOREM MapIsComplete == Spec => []MapAllOrNothing
<1>1. MapInv => MapAllOrNothing
  BY DEF MapInv, MapAllOrNothing, Has
<1>2. QED
  BY <1>1, MapAlways, PTL

\* As long as no package makes Refresh throw, a registered factory has a plugin
\* of its name in memory (AddInterface and map.emplace, PluginManager.cpp).
THEOREM FactoriesHaveCode == Spec => []CodeStaysLoaded
<1>1. MapInv => CodeStaysLoaded
  <2> SUFFICES ASSUME MapInv, NoneThrows, NEW p \in Packages, factories[p] > 0
               PROVE  \E q \in InMemory : q = p \/ Key(q) = Key(p)
    BY DEF CodeStaysLoaded, NoneThrows
  <2>1. Has(listed, p) \/ (refreshing /\ Has(building, p))
    BY DEF MapInv
  <2>2. QED
    BY <2>1 DEF InMemory, Has
<1>2. QED
  BY <1>1, MapAlways, PTL

-------------------------------------------------------------------------------
TasksInv == tasks \in [Iids -> Packages \cup {None}]

LEMMA AddTaskKeeps ==
    ASSUME TasksInv, NEW p \in Packages, AddInterface(p)
    PROVE  TasksInv'
<1>1. CASE "task" \notin FeaturesAdded(p)
  BY <1>1 DEF AddInterface, TasksInv
<1>2. CASE "task" \in FeaturesAdded(p)
  <2>1. PICK i : i = disk[p].iid
    OBVIOUS
  <2>2. PICK t : t = TaskRegistered(i, p)
    OBVIOUS
  <2>3. tasks' = [tasks EXCEPT ![i] = t]
    BY <1>2, <2>1, <2>2 DEF AddInterface
  <2>4. i \in Iids => t \in Packages \cup {None}
    BY <2>2 DEF TaskRegistered, TasksInv
  <2>5. QED
    BY <2>3, <2>4 DEF TasksInv
<1>3. QED
  BY <1>1, <1>2

-------------------------------------------------------------------------------
(***************************************************************************)
(* One refresh.  While no two hosts counted at once, only one of them ever *)
(* passes the test of the counter, and its job is the only one.            *)
(***************************************************************************)
Counting == {c \in Hosts : pcH[c] \in {"counting", "testing"}}
Unused == jobs = <<>> /\ ~refreshing /\ refreshes = 0

OnceTypes ==
    /\ counter \in Nat
    /\ DOMAIN pcH = Hosts
    /\ seen \in [Hosts -> Nat]
    /\ refreshes \in Nat
    /\ factories \in [Packages -> Nat]

FactoriesOnce ==
    \A p \in Packages :
        /\ factories[p] <= refreshes
        /\ refreshing /\ p \in todo => factories[p] = 0

Once ==
    /\ \A c, d \in Counting : c = d
    /\ \A c \in Hosts : /\ pcH[c] = "counting" => seen[c] = counter
                        /\ pcH[c] = "testing" => counter = seen[c] + 1
    /\ counter = 0 => Unused /\ \A c \in Hosts : pcH[c] # "wait"
    /\ \A c \in Hosts : pcH[c] = "testing" /\ seen[c] = 0 =>
         Unused /\ \A d \in Hosts : pcH[d] # "wait"
    /\ \A c, d \in Hosts : pcH[c] = "wait" => Unused /\ (pcH[d] = "wait" => c = d)
    /\ refreshes <= 1
    /\ jobs # <<>> => (\E c \in Hosts : jobs = <<c>>) /\ (refreshing \/ refreshes = 0)
    /\ refreshing => jobs # <<>> /\ refreshes = 1
    /\ FactoriesOnce

OnceInv == OnceTypes /\ (overlapped # "count" => Once)

LEMMA OnceInit == Init => OnceInv
  BY DEF Init, PmInit, OnceInv, OnceTypes, Once, Counting, Unused, FactoriesOnce

\* The types, and with them that "count" is remembered.
LEMMA OnceTypesNext ==
    OnceTypes /\ ManagerStep => OnceTypes' /\ (overlapped' # "count" => overlapped # "count")
<1> SUFFICES ASSUME OnceTypes, ManagerStep
             PROVE  OnceTypes' /\ (overlapped' # "count" => overlapped # "count")
  OBVIOUS
<1>1. ASSUME NEW c \in Hosts, Serves(c)
      PROVE  OnceTypes' /\ (overlapped' # "count" => overlapped # "count")
  <2>1. CASE ReadCounter(c)
    BY <2>1 DEF ReadCounter, Overlapping, OnceTypes, registry, refresh
  <2>2. CASE WriteCounter(c)
    BY <2>2 DEF WriteCounter, OnceTypes, registry, refresh
  <2>3. CASE Wait(c)
    BY <2>3 DEF Wait, OnceTypes, registry
  <2>4. CASE GetWaiter(c) \/ RefuseInitialize(c)
             \/ WaitReturns(c) \/ WaitThrows(c) \/ GetExisting(c)
    BY <2>4 DEF GetWaiter, RefuseInitialize, WaitReturns, WaitThrows, GetExisting,
       OnceTypes, registry, refresh
  <2>5. QED
    BY <1>1, <2>1, <2>2, <2>3, <2>4 DEF Serves, InInitialize
<1>2. CASE UNCHANGED pmVars \/ RefreshBegin \/ RefreshEnd
  BY <1>2 DEF pmVars, hostVars, registry, refresh, RefreshBegin, RefreshEnd, OnceTypes
<1>3. CASE \E p \in Packages : IgnorePackage(p) \/ ListFailedPackage(p)
  BY <1>3 DEF IgnorePackage, ListFailedPackage, hostVars, registry, OnceTypes
<1>4. CASE \E p \in Packages : LoadPackage(p) \/ RefreshThrows(p)
  BY <1>4 DEF LoadPackage, RefreshThrows, AddInterface, hostVars, OnceTypes
<1>5. QED
  BY <1>1, <1>2, <1>3, <1>4 DEF ManagerStep

\* A request, up to the job it queues.
LEMMA OnceServes ==
    ASSUME OnceTypes, Once, NEW c \in Hosts, Serves(c), overlapped' # "count"
    PROVE  Once'
<1>1. UNCHANGED <<todo, refreshing, refreshes, factories>>
  BY ServesLeaves DEF registry
<1>2. FactoriesOnce'
  BY <1>1 DEF FactoriesOnce, Once
<1>3. CASE ReadCounter(c)
  <2>1. /\ counter' = counter /\ seen' = [seen EXCEPT ![c] = counter]
        /\ pcH' = [pcH EXCEPT ![c] = "counting"] /\ jobs' = jobs
        /\ \A d \in Hosts : pcH[d] \notin {"counting", "testing"}
    BY <1>3 DEF ReadCounter, Overlapping, refresh
  <2>2. QED
    BY <1>1, <1>2, <2>1 DEF OnceTypes, Once, Counting, Unused
<1>4. CASE WriteCounter(c)
  <2>1. /\ pcH[c] = "counting" /\ counter' = seen[c] + 1 /\ seen' = seen
        /\ pcH' = [pcH EXCEPT ![c] = "testing"] /\ jobs' = jobs
    BY <1>4 DEF WriteCounter, refresh
  <2>2. \A d \in Hosts : pcH[d] \in {"counting", "testing"} => d = c
    BY <2>1 DEF Once, Counting
  <2>3. seen[c] = counter /\ seen[c] \in Nat /\ counter' # 0
    BY <2>1 DEF OnceTypes, Once
  <2>4. QED
    BY <1>1, <1>2, <2>1, <2>2, <2>3 DEF OnceTypes, Once, Counting, Unused
<1>5. CASE GetWaiter(c)
  <2>1. /\ pcH[c] = "testing" /\ counter' = counter /\ seen' = seen
        /\ pcH' = [pcH EXCEPT ![c] = "wait"] /\ jobs' = jobs
        /\ \E n \in {seen[c] + 1, counter} : n <= 1
    BY <1>5 DEF GetWaiter, IsFirst, refresh
  <2>2. seen[c] = 0 /\ counter = 1
    BY <2>1 DEF OnceTypes, Once
  <2>3. /\ Unused /\ \A d \in Hosts : pcH[d] # "wait"
        /\ \A d \in Hosts : pcH[d] \in {"counting", "testing"} => d = c
    BY <2>1, <2>2 DEF Once, Counting
  <2>4. QED
    BY <1>1, <1>2, <2>1, <2>2, <2>3 DEF OnceTypes, Once, Counting, Unused
<1>6. CASE Wait(c)
  <2>1. /\ pcH[c] = "wait" /\ counter' = counter /\ seen' = seen
        /\ pcH' = [pcH EXCEPT ![c] = "waiting"] /\ jobs' = Append(jobs, c)
    BY <1>6 DEF Wait
  <2>2. /\ Unused /\ counter # 0
        /\ \A d \in Hosts : /\ pcH[d] = "wait" => d = c
                            /\ ~(pcH[d] = "testing" /\ seen[d] = 0)
    BY <2>1 DEF Once
  <2>3. jobs' = <<c>> /\ jobs' # <<>>
    BY <2>1, <2>2 DEF Unused
  <2>4. QED
    BY <1>1, <1>2, <2>1, <2>2, <2>3 DEF OnceTypes, Once, Counting, Unused
<1>7. CASE RefuseInitialize(c) \/ WaitReturns(c) \/ WaitThrows(c) \/ GetExisting(c)
  <2>1. PICK to \in {"idle", "existing"} : pcH' = [pcH EXCEPT ![c] = to]
    BY <1>7 DEF RefuseInitialize, WaitReturns, WaitThrows, GetExisting
  <2>2. counter' = counter /\ seen' = seen /\ jobs' = jobs
    BY <1>7 DEF RefuseInitialize, WaitReturns, WaitThrows, GetExisting, refresh
  <2>3. QED
    BY <1>1, <1>2, <2>1, <2>2 DEF OnceTypes, Once, Counting, Unused
<1>8. QED
  BY <1>3, <1>4, <1>5, <1>6, <1>7 DEF Serves, InInitialize

\* The refresh of the one job.
LEMMA OnceBegins ==
    ASSUME OnceTypes, Once, RefreshBegin
    PROVE  Once'
<1>1. /\ UNCHANGED <<counter, pcH, seen, jobs, factories>>
      /\ refreshing' = TRUE /\ refreshes' = refreshes + 1
      /\ ~refreshing /\ jobs # <<>>
  BY DEF RefreshBegin, hostVars, registry
<1>2. refreshes = 0 /\ ~Unused
  BY <1>1 DEF Once, Unused
<1>3. FactoriesOnce'
  BY <1>1, <1>2 DEF OnceTypes, Once, FactoriesOnce
<1>4. QED
  BY <1>1, <1>2, <1>3 DEF OnceTypes, Once, Counting

LEMMA OnceReads ==
    ASSUME OnceTypes, Once, NEW p \in Packages,
           IgnorePackage(p) \/ ListFailedPackage(p) \/ LoadPackage(p)
    PROVE  Once'
<1>1. /\ UNCHANGED <<counter, pcH, seen, jobs, refreshing, refreshes>>
      /\ refreshing /\ p \in todo /\ todo' = todo \ {p}
  BY DEF IgnorePackage, ListFailedPackage, LoadPackage, ReadNext, hostVars
<1>2. /\ factories'[p] \in {factories[p], factories[p] + 1}
      /\ \A q \in Packages \ {p} : factories'[q] = factories[q]
  BY DEF IgnorePackage, ListFailedPackage, LoadPackage, AddInterface, registry, OnceTypes
<1>3. refreshes = 1
  BY <1>1 DEF Once
<1>4. FactoriesOnce'
  BY <1>1, <1>2, <1>3 DEF OnceTypes, Once, FactoriesOnce
<1>5. QED
  BY <1>1, <1>4 DEF Once, Counting, Unused

LEMMA OnceEnds ==
    ASSUME OnceTypes, Once,
           RefreshEnd \/ \E p \in Packages : RefreshThrows(p)
    PROVE  Once'
<1>1. /\ refreshing /\ refreshing' = FALSE /\ jobs' = Tail(jobs)
      /\ UNCHANGED <<counter, pcH, seen, refreshes>>
  BY DEF RefreshEnd, RefreshThrows, ReadNext, hostVars
<1>2. /\ refreshes = 1 /\ ~Unused
      /\ \E c \in Hosts : jobs = <<c>>
  BY <1>1 DEF Once, Unused
<1>3. jobs' = <<>>
  BY <1>1, <1>2
<1>4. \A p \in Packages : factories'[p] <= 1
  <2>1. CASE RefreshEnd
    BY <1>2, <2>1 DEF RefreshEnd, Once, FactoriesOnce
  <2>2. ASSUME NEW p \in Packages, RefreshThrows(p)
        PROVE  \A q \in Packages : factories'[q] <= 1
    <3>1. p \in todo /\ refreshing
      BY <2>2 DEF RefreshThrows, ReadNext
    <3>2. factories[p] = 0 /\ \A q \in Packages : factories[q] <= 1
      BY <1>2, <3>1 DEF Once, FactoriesOnce
    <3>3. QED
      BY <2>2, <3>2 DEF RefreshThrows, AddInterface, OnceTypes
  <2>3. QED
    BY <2>1, <2>2
<1>5. FactoriesOnce'
  BY <1>1, <1>2, <1>4 DEF FactoriesOnce
<1>6. QED
  BY <1>1, <1>2, <1>3, <1>5 DEF Once, Counting, Unused

LEMMA OnceNext == OnceInv /\ ManagerStep => OnceInv'
<1> SUFFICES ASSUME OnceInv, ManagerStep PROVE OnceInv'
  OBVIOUS
<1>1. OnceTypes /\ OnceTypes' /\ (overlapped' # "count" => overlapped # "count")
  BY OnceTypesNext DEF OnceInv
<1>2. ASSUME overlapped' # "count" PROVE Once'
  <2>1. Once
    BY <1>1, <1>2 DEF OnceInv
  <2>2. CASE UNCHANGED pmVars
    BY <2>1, <2>2 DEF pmVars, hostVars, registry, refresh, Once, Counting, Unused,
       FactoriesOnce
  <2>3. QED
    BY <1>1, <1>2, <2>1, <2>2, OnceServes, OnceBegins, OnceReads, OnceEnds
       DEF ManagerStep
<1>3. QED
  BY <1>1, <1>2 DEF OnceInv

\* The packages are loaded at most once, however many requests to initialise
\* come, as long as no two of them increment the counter at the same time
\* (InitializeIDasPluginManager, PluginManager.cpp).
THEOREM PackagesLoadedOnce == Spec => []LoadedOnce
<1>1. OnceInv => LoadedOnce
  <2> SUFFICES ASSUME OnceInv, overlapped # "count"
               PROVE  refreshes <= 1 /\ \A p \in Packages : factories[p] <= 1
    BY DEF LoadedOnce
  <2>1. /\ refreshes \in Nat /\ factories \in [Packages -> Nat]
        /\ refreshes <= 1 /\ \A p \in Packages : factories[p] <= refreshes
    BY DEF OnceInv, OnceTypes, Once, FactoriesOnce
  <2>2. QED
    BY <2>1
<1>2. QED
  BY <1>1, OnceInit, OnceNext, NextIsManagerStep, PTL DEF Spec

-------------------------------------------------------------------------------
(***************************************************************************)
(* Types.  A host that counts read a counter below its bound, and a        *)
(* refresh that runs has its job at the head of the queue.                 *)
(***************************************************************************)
ManagerInv ==
    /\ TypeOK
    /\ \A c \in Hosts : pcH[c] = "counting" => seen[c] < MaxCalls
    /\ refreshing => jobs # <<>>

LEMMA OffersATask ==
    ASSUME TypeOK, NEW p \in Packages
    PROVE  disk[p].iid \in Iids
<1>1. disk[p] \in Content
  BY PluginManagerAssumption DEF TypeOK
<1>2. QED
  BY <1>1 DEF Content

LEMMA ManagerServes ==
    ASSUME ManagerInv, NEW c \in Hosts, Serves(c)
    PROVE  ManagerInv'
<1> USE PluginManagerAssumption
<1>1. CASE ReadCounter(c)
  <2>1. Overlapping \in Overlaps
    BY DEF Overlapping, Overlaps, ManagerInv, TypeOK
  <2>2. QED
    BY <1>1, <2>1 DEF ReadCounter, HandleAfterPut, ManagerInv, TypeOK, registry, refresh
<1>2. CASE WriteCounter(c)
  <2>1. seen[c] + 1 \in 0 .. MaxCalls
    BY <1>2 DEF WriteCounter, ManagerInv, TypeOK
  <2>2. QED
    BY <1>2, <2>1 DEF WriteCounter, ManagerInv, TypeOK, registry, refresh
<1>3. CASE GetWaiter(c) \/ WaitReturns(c)
  <2>1. PICK to \in {"wait", "existing"} : pcH' = [pcH EXCEPT ![c] = to]
    BY <1>3 DEF GetWaiter, WaitReturns
  <2>2. /\ UNCHANGED <<disk, counter, seen, answer, registry, refresh, overlapped>>
        /\ handle' \in BOOLEAN
    BY <1>3 DEF GetWaiter, WaitReturns, ManagerInv, TypeOK
  <2>3. QED
    BY <2>1, <2>2 DEF ManagerInv, TypeOK, registry, refresh
<1>4. CASE RefuseInitialize(c) \/ WaitThrows(c)
  <2>1. /\ pcH' = [pcH EXCEPT ![c] = "idle"]
        /\ UNCHANGED <<disk, counter, seen, handle, registry, refresh, overlapped>>
    BY <1>4 DEF RefuseInitialize, WaitThrows
  <2>2. PICK said \in {"unexpected", "thrown"} : answer' = [answer EXCEPT ![c] = said]
    BY <1>4 DEF RefuseInitialize, WaitThrows
  <2>3. QED
    BY <2>1, <2>2 DEF ManagerInv, TypeOK, registry, refresh
<1>5. CASE GetExisting(c)
  <2>1. Existing(c) \in {"ok", "unexpected", "not_init"}
    BY DEF Existing
  <2>2. QED
    BY <1>5, <2>1 DEF GetExisting, ManagerInv, TypeOK, registry, refresh
<1>6. CASE Wait(c)
  <2>1. Append(jobs, c) \in Seq(Hosts) /\ Append(jobs, c) # <<>>
    <3>1. jobs \in Seq(Hosts)
      BY DEF ManagerInv, TypeOK
    <3>2. QED
      BY <3>1, AppendProperties
  <2>2. outcome' \in [Hosts -> Results]
    BY <1>6 DEF Wait, ManagerInv, TypeOK, Results
  <2>3. QED
    BY <1>6, <2>1, <2>2 DEF Wait, ManagerInv, TypeOK, registry
<1>7. QED
  BY <1>1, <1>2, <1>3, <1>4, <1>5, <1>6 DEF Serves, InInitialize

LEMMA ManagerReads ==
    ASSUME ManagerInv, NEW p \in Packages,
           IgnorePackage(p) \/ ListFailedPackage(p) \/ LoadPackage(p)
    PROVE  ManagerInv'
<1>1. Emplaced(p) \subseteq Packages
  BY DEF Emplaced, ManagerInv, TypeOK
<1>2. CASE IgnorePackage(p) \/ ListFailedPackage(p)
  BY <1>1, <1>2 DEF IgnorePackage, ListFailedPackage, ReadNext, ManagerInv, TypeOK,
     hostVars, registry
<1>3. CASE LoadPackage(p)
  <2>1. tasks' \in [Iids -> Packages \cup {None}]
    BY <1>3, AddTaskKeeps DEF LoadPackage, TasksInv, ManagerInv, TypeOK
  <2>2. factories' \in [Packages -> Nat]
    BY <1>3 DEF LoadPackage, AddInterface, ManagerInv, TypeOK
  <2>3. QED
    BY <1>1, <1>3, <2>1, <2>2
       DEF LoadPackage, ReadNext, Published, ManagerInv, TypeOK, hostVars
<1>4. QED
  BY <1>2, <1>3

\* The host at the head of the queue is told, and its job is gone.
LEMMA JobDone ==
    ASSUME ManagerInv, refreshing, NEW result \in Results
    PROVE  Told(Head(jobs), result) \in [Hosts -> Results] /\ Tail(jobs) \in Seq(Hosts)
  BY DEF ManagerInv, TypeOK, Told

LEMMA ManagerRefreshes ==
    ASSUME ManagerInv,
           RefreshBegin \/ RefreshEnd \/ \E p \in Packages : RefreshThrows(p)
    PROVE  ManagerInv'
<1>1. CASE RefreshBegin
  BY <1>1 DEF RefreshBegin, ManagerInv, TypeOK, hostVars, registry
<1>2. CASE RefreshEnd
  <2>1. RefreshResult \in Results
    BY DEF RefreshResult, Results
  <2>2. outcome' \in [Hosts -> Results] /\ jobs' \in Seq(Hosts)
    BY <1>2, <2>1, JobDone DEF RefreshEnd
  <2>3. QED
    BY <1>2, <2>2 DEF RefreshEnd, ManagerInv, TypeOK, hostVars
<1>3. ASSUME NEW p \in Packages, RefreshThrows(p) PROVE ManagerInv'
  <2>1. outcome' \in [Hosts -> Results] /\ jobs' \in Seq(Hosts)
    BY <1>3, JobDone DEF RefreshThrows, ReadNext, Results
  <2>2. tasks' \in [Iids -> Packages \cup {None}]
    BY <1>3, AddTaskKeeps DEF RefreshThrows, TasksInv, ManagerInv, TypeOK
  <2>3. factories' \in [Packages -> Nat]
    BY <1>3 DEF RefreshThrows, AddInterface, ManagerInv, TypeOK
  <2>4. QED
    BY <1>3, <2>1, <2>2, <2>3 DEF RefreshThrows, ReadNext, ManagerInv, TypeOK, hostVars
<1>4. QED
  BY <1>1, <1>2, <1>3

LEMMA ManagerNext == ManagerInv /\ ManagerStep => ManagerInv'
<1>1. ManagerInv /\ UNCHANGED pmVars => ManagerInv'
  BY DEF pmVars, hostVars, registry, refresh, ManagerInv, TypeOK
<1>2. QED
  BY <1>1, ManagerServes, ManagerReads, ManagerRefreshes DEF ManagerStep

SettingsTypes ==
    /\ described \subseteq Packages
    /\ settings \in [Packages -> Texts]
    /\ taskSettings \in [Iids -> Texts]
    /\ listening \subseteq Iids
    /\ crashed \in BOOLEAN

LEMMA SettingsNext ==
    ASSUME ManagerInv, SettingsTypes, [Next]_vars
    PROVE  SettingsTypes'
<1>1. CASE UNCHANGED settingsVars
  BY <1>1 DEF settingsVars, SettingsTypes
<1>2. CASE Vm
  <2>1. ASSUME NEW p \in Packages, Load(p) PROVE SettingsTypes'
    BY <2>1 DEF Load, StillConnected, SettingsTypes
  <2>2. CASE Publish
    BY <2>2 DEF Publish, FreshSettings, Texts, SettingsTypes
  <2>3. QED
    BY <1>1, <1>2, <2>1, <2>2 DEF Vm
<1>3. ASSUME NEW p \in Packages, NEW v \in Values, SetPluginSettingsJson(p, v)
      PROVE  SettingsTypes'
  BY <1>3 DEF SetPluginSettingsJson, Texts, SettingsTypes
<1>4. ASSUME NEW p \in Packages, ResetPluginSettings(p) PROVE SettingsTypes'
  BY <1>4 DEF ResetPluginSettings, Texts, SettingsTypes
<1>5. ASSUME NEW p \in Packages, LookupCrashes(p) \/ GetCrashes(p) PROVE SettingsTypes'
  BY <1>5 DEF LookupCrashes, GetCrashes, SettingsTypes
<1>6. QED
  BY <1>1, <1>2, <1>3, <1>4, <1>5 DEF Next, Initialize, vars

\* Whatever the packages are, the manager's state and the settings have their
\* types: no refresh ends without a host to tell, no counter passes its bound
\* (Refresh, PluginManager.cpp).
THEOREM PluginTypeCorrect == Spec => []PluginTypeOK
<1>1. Init => ManagerInv /\ SettingsTypes
  <2> SUFFICES ASSUME Init PROVE ManagerInv /\ SettingsTypes
    OBVIOUS
  <2>1. TypeOK
    <3>1. 0 \in 0 .. MaxCalls /\ <<>> \in Seq(Hosts)
      BY PluginManagerAssumption
    <3>2. counter \in 0 .. MaxCalls /\ seen \in [Hosts -> 0 .. MaxCalls]
      BY <3>1 DEF Init, PmInit
    <3>3. jobs \in Seq(Hosts)
      BY <3>1 DEF Init, PmInit
    <3>4. QED
      BY <3>2, <3>3 DEF Init, PmInit, TypeOK, Results, Overlaps
  <2>2. ManagerInv
    BY <2>1 DEF Init, PmInit, ManagerInv
  <2>3. SettingsTypes
    BY DEF Init, SettingsTypes, Texts
  <2>4. QED
    BY <2>2, <2>3
<1>2. ManagerInv /\ SettingsTypes /\ [Next]_vars => (ManagerInv /\ SettingsTypes)'
  BY NextIsManagerStep, ManagerNext, SettingsNext
<1>3. ManagerInv /\ SettingsTypes => PluginTypeOK
  BY DEF ManagerInv, SettingsTypes, PluginTypeOK
<1>4. QED
  BY <1>1, <1>2, <1>3, PTL DEF Spec
===============================================================================
