------------------------------- MODULE Registry -------------------------------
(***************************************************************************)
(* What PluginManager keeps of the interfaces the plugin packages offer:   *)
(* TaskManager, ErrorLensManager, InputFactoryManager,                     *)
(* ComponentFactoryManager, the vector of capture factories and the map    *)
(* from a guid to the package it is from, and the look-ups in them.        *)
(*                                                                         *)
(* An interface is known by the number of its offer.  Of its guid GetGuid  *)
(* may fail, NoGuid; a package that is not a directory has no resources,   *)
(* and its interfaces no storage.  C++ and SWIG registrations differ only  *)
(* where the offer says so: the interop between them is module Interop.    *)
(***************************************************************************)
EXTENDS Naturals, Sequences, FiniteSets

CONSTANTS
    Guids,      \* guids of interfaces
    Official,   \* g_official_iids, generated from the headers
    NoGuid,     \* GetGuid fails
    Offers,     \* interfaces packages may offer
    MaxOffers,  \* bound on the interfaces offered
    MaxViews    \* bound on the vectors of input factories taken

Managers == {"lens", "task", "capture", "input", "component"}

\* iids: what an error lens or a component factory supports.  errs: the
\* factory answers an error, where it does not support, instead of DAS_FALSE;
\* the lens answers an error when it is asked what it supports.
Offer == [kind : Managers, guid : Guids \cup {NoGuid}, iids : SUBSET Guids,
          swig : BOOLEAN, stored : BOOLEAN, errs : BOOLEAN]

ASSUME RegistryAssumption ==
    /\ Official \subseteq Guids
    /\ NoGuid \notin Guids /\ Offers \subseteq Offer
    /\ MaxOffers \in Nat /\ MaxViews \in Nat

VARIABLES
    offered,    \* the interfaces AddInterface got, in order
    storage,    \* guid_storage_map_: the offer that set the entry, or 0
    tasks,      \* map_ of the task manager
    lenses,     \* map_ of the error lens manager
    captures,   \* capture_factory_vector_
    inputs,     \* common_input_factory_vector_
    components, \* common_component_factory_vector_
    views,      \* DasInputFactoryVectorImpl objects: the vectors they copied
    reply,      \* the last look-up: who answered, for which guid, with what
    fallen      \* a look-up dereferenced what there is not

maps == <<storage, tasks, lenses>>
vectors == <<captures, inputs, components>>
registryVars == <<offered, maps, vectors, views, reply, fallen>>

Numbers == 0 .. MaxOffers
NoReply == [from |-> "none", iid |-> NoGuid, what |-> 0]

RegistryTypeOK ==
    /\ offered \in Seq(Offer) /\ Len(offered) <= MaxOffers
    /\ \A m \in {storage, tasks, lenses} : m \in [Guids -> 0 .. Len(offered)]
    /\ \A v \in {captures, inputs, components} \cup {views[i] : i \in 1 .. Len(views)} :
          v \in Seq(1 .. Len(offered))
    /\ reply \in [from : Managers \cup {"none", "refused", "view", "resource"},
                  iid : Guids \cup {NoGuid}, what : Numbers]
    /\ fallen \in BOOLEAN

RegistryInit ==
    /\ offered = <<>>
    /\ storage = [g \in Guids |-> 0] /\ tasks = storage /\ lenses = storage
    /\ captures = <<>> /\ inputs = <<>> /\ components = <<>>
    /\ views = <<>> /\ reply = NoReply /\ fallen = FALSE

-------------------------------------------------------------------------------
(***************************************************************************)
(* RegisterInterfaceStaticStorage, before the interface is registered: a   *)
(* failing GetGuid is only logged, and the entry is made for whatever the  *)
(* local variable held, in the C++ overload an uninitialised DasGuid.      *)
(***************************************************************************)
RegisterInterfaceStaticStorage(o, n) ==
    LET entry == IF o.guid # NoGuid THEN {o.guid}
                 ELSE IF o.swig THEN {NoGuid} ELSE Guids \cup {NoGuid}
    IN  IF o.stored /\ o.kind # "lens"
        THEN \E g \in entry : storage' = [h \in Guids |-> IF h = g THEN n ELSE storage[h]]
        ELSE storage' = storage

\* ErrorLensManager::Register: later lenses replace earlier ones, and only
\* for the official iids.
RegisterErrorLens(o, n) ==
    /\ lenses' = [g \in Guids |-> IF g \in o.iids \cap Official THEN n ELSE lenses[g]]
    /\ UNCHANGED <<tasks, vectors>>

\* A lens that is none, or does not say what it supports, is not registered;
\* what Register answers is not looked at.
RegisterErrorLensFromPlugin(o, n) ==
    IF o.errs THEN UNCHANGED <<tasks, lenses, vectors>> ELSE RegisterErrorLens(o, n)

\* AddTask: the first task of a guid stays.
RegisterTask(o, n) ==
    /\ tasks' = [g \in Guids |-> IF g = o.guid /\ tasks[g] = 0 THEN n ELSE tasks[g]]
    /\ UNCHANGED <<lenses, vectors>>

\* A capture factory must be a C++ object.
RegisterCaptureFactory(o, n) ==
    /\ captures' = IF o.swig THEN captures ELSE Append(captures, n)
    /\ UNCHANGED <<lenses, tasks, inputs, components>>

RegisterInputFactory(o, n) ==
    /\ inputs' = Append(inputs, n)
    /\ UNCHANGED <<lenses, tasks, captures, components>>

RegisterComponentFactory(o, n) ==
    /\ components' = Append(components, n)
    /\ UNCHANGED <<lenses, tasks, captures, inputs>>

\* One round of AddInterface's loop, for a feature CreateInterface succeeds for.
AddInterface(o) ==
    LET n == Len(offered) + 1
    IN  /\ ~fallen /\ n <= MaxOffers
        /\ offered' = Append(offered, o)
        /\ RegisterInterfaceStaticStorage(o, n)
        /\ \/ o.kind = "lens" /\ RegisterErrorLensFromPlugin(o, n)
           \/ o.kind = "task" /\ RegisterTask(o, n)
           \/ o.kind = "capture" /\ RegisterCaptureFactory(o, n)
           \/ o.kind = "input" /\ RegisterInputFactory(o, n)
           \/ o.kind = "component" /\ RegisterComponentFactory(o, n)
        /\ UNCHANGED <<views, reply, fallen>>

-------------------------------------------------------------------------------
\* std::find_if over a vector: the first of it that is among the good ones, or 0.
FirstOf(v, good) ==
    LET found == {i \in DOMAIN v : v[i] \in good}
    IN  IF found = {} THEN 0 ELSE v[CHOOSE i \in found : \A j \in found : i <= j]

Find(v, iid) == FirstOf(v, {n \in DOMAIN offered : offered[n].guid = iid})

\* IsSupported, a DasResult, is the predicate of std::find_if: any answer but
\* DAS_FALSE, which is zero, takes the factory, an error as well.
IsSupported(n, iid) ==
    IF iid \in offered[n].iids THEN "true"
    ELSE IF offered[n].errs THEN "error" ELSE "false"

\* A faulty variant: success taken for support; no action uses it.
FindSupportedIfOk(iid) ==
    FirstOf(components, {n \in DOMAIN offered : IsSupported(n, iid) = "false"})

FindSupportedFactory(iid) ==
    FirstOf(components, {n \in DOMAIN offered : IsSupported(n, iid) # "false"})

Answer(from, iid, what) ==
    reply' = [from |-> IF what = 0 THEN "refused" ELSE from, iid |-> iid, what |-> what]

(***************************************************************************)
(* PluginManager::FindInterface: tasks, capture factories, error lenses,   *)
(* input factories; component factories are not asked.  A TaskInfo keeps   *)
(* no pointer to its task, so that a guid of a task is answered by a null  *)
(* pointer whose AddRef is called.                                         *)
(***************************************************************************)
FindInterface(iid) ==
    /\ ~fallen /\ UNCHANGED <<offered, maps, vectors, views>>
    /\ fallen' = (tasks[iid] # 0)
    /\ IF tasks[iid] # 0 THEN reply' = NoReply
       ELSE IF Find(captures, iid) # 0 THEN Answer("capture", iid, Find(captures, iid))
       ELSE IF lenses[iid] # 0 THEN Answer("lens", iid, lenses[iid])
       ELSE Answer("input", iid, Find(inputs, iid))

\* CreateComponent: what the factory then makes, if anything, is its affair.
CreateComponent(iid) ==
    /\ ~fallen /\ Answer("component", iid, FindSupportedFactory(iid))
    /\ UNCHANGED <<offered, maps, vectors, views, fallen>>

\* Details::GetInterfaceStaticStorage logs that there is no entry, and then
\* dereferences it; FindInterfaceStaticStorage (StorageOf) does not.
NoStorage(iid) == storage[iid] = 0

\* A failing GetGuid, or another thread than the manager's, is refused before that.
GetInterfaceStaticStorage(iid) == fallen' \in {FALSE, NoStorage(iid)}

(***************************************************************************)
(* DasPluginLoadImageFromResource, the storage's only user, never loads an *)
(* image: ReadFromFile copies the file into a vector that it reserved and  *)
(* did not resize, and OpenCV refuses to decode what is empty.             *)
(***************************************************************************)
ReadFromFile == 0
DasPluginLoadImageFromResource(iid) ==
    /\ ~fallen /\ GetInterfaceStaticStorage(iid)
    /\ Answer("resource", iid, ReadFromFile)
    /\ UNCHANGED <<offered, maps, vectors, views>>

StorageOf(iid) == IF iid = NoGuid THEN 0 ELSE storage[iid]

\* The constructor of DasInputFactoryVectorImpl copies the vector.
TakeInputVector ==
    /\ ~fallen /\ Len(views) < MaxViews
    /\ views' = Append(views, inputs)
    /\ UNCHANGED <<offered, maps, vectors, reply, fallen>>

FindInView(i, iid) ==
    /\ ~fallen /\ i <= Len(views) /\ Answer("view", iid, Find(views[i], iid))
    /\ UNCHANGED <<offered, maps, vectors, views, fallen>>

RegistryNext ==
    \/ \E o \in Offers : AddInterface(o)
    \/ \E iid \in Guids :
          \/ FindInterface(iid) \/ CreateComponent(iid)
          \/ DasPluginLoadImageFromResource(iid)
          \/ \E i \in 1 .. MaxViews : FindInView(i, iid)
    \/ TakeInputVector

RegistrySpec == RegistryInit /\ [][RegistryNext]_registryVars

-------------------------------------------------------------------------------
\* CreateComponent passes over a factory that supports the guid only for an
\* earlier one that supports it too or answers an error, and asks no factory
\* that says it does not support it (ComponentFactoryManager.cpp:8).
SupporterIsAsked ==
    reply.from = "component" =>
        LET Supports(n) == offered[n].kind = "component" /\ reply.iid \in offered[n].iids
        IN  /\ Supports(reply.what) \/ offered[reply.what].errs
            /\ \A n \in 1 .. reply.what - 1 : ~Supports(n)
===============================================================================
