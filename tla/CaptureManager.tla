---------------------------- MODULE CaptureManager ----------------------------
(***************************************************************************)
(* CaptureManagerImpl: CreateCaptureManager asks every capture factory of  *)
(* the registry for an instance and keeps what came of it, an instance or  *)
(* a failure with its explanation.  The performance test runs the          *)
(* instances and keeps a result for each; all four are enumerated by       *)
(* index, from any thread.                                                 *)
(*                                                                         *)
(* The explanation of a failure is null where DasGetErrorMessage finds     *)
(* none: no error lens for the guid, or not the VM thread.  Enumerating    *)
(* takes a reference to it without a test for null.                        *)
(***************************************************************************)
EXTENDS Registry

CONSTANTS MaxTests      \* bound on the performance tests

ASSUME CaptureAssumption == MaxTests \in Nat

VARIABLES
    made,       \* whether there is a capture manager
    instances,  \* instances_
    results,    \* performance_results_
    answered,   \* what CreateCaptureManager returned
    tests,      \* performance tests begun
    aborted,    \* the last test left with an exception
    broken      \* a null explanation was dereferenced

captureVars == <<made, instances, results, answered, tests, aborted, broken>>

\* guid is the one of the instance itself, which its factory chooses.
Instance == [factory : 1 .. MaxOffers, loaded : BOOLEAN, named : BOOLEAN,
             guid : Guids \cup {NoGuid}, explained : BOOLEAN]
Result == [capture : Nat, ok : BOOLEAN, explained : BOOLEAN]

CaptureTypeOK ==
    /\ RegistryTypeOK
    /\ instances \in Seq(Instance) /\ results \in Seq(Result)
    /\ answered \in {"none", "S_OK", "S_FALSE", "thread"}
    /\ tests \in 0 .. MaxTests
    /\ {made, aborted, broken} \subseteq BOOLEAN

CaptureInit ==
    /\ RegistryInit
    /\ made = FALSE /\ instances = <<>> /\ results = <<>> /\ answered = "none"
    /\ tests = 0 /\ aborted = FALSE /\ broken = FALSE

-------------------------------------------------------------------------------
\* PluginManager::GetErrorMessage checks the thread, then asks the error lenses.
Explained(guid, vm) == vm /\ guid # NoGuid /\ lenses[guid] # 0

Working(c) == ~broken /\ ~fallen /\ c
Untouched == UNCHANGED registryVars

\* The error state a factory leaves is assigned, not accumulated: DAS_FALSE,
\* which is DAS_S_OK, where it is passed over or the instance has no name.
Outcomes == {"works", "nameless", "fails"}
LastAssigned(o) ==
    LET at == {i \in 1 .. Len(captures) :
                 StorageOf(offered[captures[i]].guid) = 0 \/ o[i] # "works"}
        last == CHOOSE i \in at : \A j \in at : j <= i
    IN  IF at # {} /\ StorageOf(offered[captures[last]].guid) # 0 /\ o[last] = "fails"
        THEN "S_FALSE" ELSE "S_OK"

\* The numbers up to n that are in s, as a loop comes to them.
Ascending(n, s) ==
    LET upTo[k \in 0 .. n] ==
            IF k = 0 THEN <<>> ELSE IF k \in s THEN Append(upTo[k - 1], k) ELSE upTo[k - 1]
    IN  upTo[n]

\* CreateDasCaptureManagerImpl.  A factory without a name or guid, or whose
\* package has no storage, is passed over, and leaves no record.
Record(n, outcome, guid, vm) ==
    [factory |-> n, loaded |-> outcome # "fails", named |-> outcome # "nameless",
     guid |-> guid, explained |-> Explained(offered[n].guid, vm)]

Instances(o, g, vm) ==
    LET at == Ascending(Len(captures),
                        {i \in 1 .. Len(captures) : StorageOf(offered[captures[i]].guid) # 0})
    IN  [k \in 1 .. Len(at) |-> Record(captures[at[k]], o[at[k]], g, vm)]

CreateDasCaptureManagerImpl(vm) ==
    \E o \in [1 .. Len(captures) -> Outcomes], g \in Guids \cup {NoGuid} :
        /\ made' = TRUE /\ instances' = Instances(o, g, vm)
        /\ answered' = LastAssigned(o)
        /\ UNCHANGED <<results, tests, aborted, broken>>

\* The C++ overload checks the thread and takes the lock, the SWIG one neither.
CreateCaptureManager(vm, swig) ==
    /\ Working(~made) /\ Untouched
    /\ IF vm \/ swig THEN CreateDasCaptureManagerImpl(vm)
       ELSE /\ answered' = "thread"
            /\ UNCHANGED <<made, instances, results, tests, aborted, broken>>

-------------------------------------------------------------------------------
Loaded == Ascending(Len(instances), {i \in 1 .. Len(instances) : instances[i].loaded})

\* MakeErrorInfo asks the failed capture for its name, and the exception of one
\* that gives none is not caught: the test stops there.
Aborts(i, ok) == ~ok[i] /\ ~instances[i].named

\* A faulty variant: the results of the last test stay; no action uses it.
KeptResults(upTo, ok, vm) ==
    results \o [k \in 1 .. upTo |->
                   [capture |-> Loaded[k], ok |-> ok[Loaded[k]], explained |-> TRUE]]

\* The vector is cleared, and a success is explained by a null string.
ResultsOf(upTo, ok, vm) ==
    [k \in 1 .. upTo |->
        [capture |-> Loaded[k], ok |-> ok[Loaded[k]],
         explained |-> ok[Loaded[k]] \/ Explained(instances[Loaded[k]].guid, vm)]]

RunCapturePerformanceTest(vm) ==
    /\ Working(made) /\ Untouched /\ tests < MaxTests /\ tests' = tests + 1
    /\ \E ok \in [1 .. Len(instances) -> BOOLEAN] :
          LET bad == {k \in 1 .. Len(Loaded) : Aborts(Loaded[k], ok)}
              upTo == IF bad = {} THEN Len(Loaded)
                      ELSE (CHOOSE k \in bad : \A j \in bad : k <= j) - 1
          IN  results' = ResultsOf(upTo, ok, vm) /\ aborted' = (bad # {})
    /\ UNCHANGED <<made, instances, answered, broken>>

\* EnumLoadErrorState and EnumPerformanceTestResult, with a pointer for the
\* explanation.  The latter tests the index against the number of instances,
\* and relies on at() for the rest; the enumerated capture is that of the result.
EnumCaptureLoadErrorState(index) ==
    /\ Working(made) /\ Untouched /\ index \in 1 .. Len(instances)
    /\ broken' = (~instances[index].loaded /\ ~instances[index].explained)
    /\ UNCHANGED <<made, instances, results, answered, tests, aborted>>

EnumCapturePerformanceTestResult(index) ==
    /\ Working(made) /\ Untouched
    /\ index \in 1 .. Len(results) /\ index # Len(instances) + 1
    /\ broken' = ~results[index].explained
    /\ UNCHANGED <<made, instances, results, answered, tests, aborted>>

\* While the manager is filled, nothing is registered: the plugins are loaded
\* before the manager can be asked for.
CaptureNext ==
    \/ Working(~made) /\ RegistryNext /\ UNCHANGED captureVars
    \/ \E vm, swig \in BOOLEAN : CreateCaptureManager(vm, swig)
    \/ \E vm \in BOOLEAN : RunCapturePerformanceTest(vm)
    \/ \E index \in 1 .. MaxOffers :
          EnumCaptureLoadErrorState(index) \/ EnumCapturePerformanceTestResult(index)

CaptureSpec == CaptureInit /\ [][CaptureNext]_<<registryVars, captureVars>>

-------------------------------------------------------------------------------
\* The results are those of the last test and of captures that were made, one
\* for each and in their order, up to the first exception; an index is not
\* that of the instances once one of these failed (IDasCaptureManagerImpl.cpp:362).
ResultsFollowCaptures ==
    /\ Len(results) <= Len(Loaded)
    /\ tests > 0 /\ ~aborted => Len(results) = Len(Loaded)
    /\ \A k \in 1 .. Len(results) : results[k].capture = Loaded[k]
===============================================================================
