------------------------------- MODULE PythonHost -------------------------------
(***************************************************************************)
(* Plugin packages are loaded by a runtime of their language               *)
(* (IForeignLanguageRuntime.cpp): CppHost opens a library, PythonHost      *)
(* imports a module, calls its initializer and takes the package that the  *)
(* plugin registers meanwhile (TemporaryPluginObjectStorage).  All of it   *)
(* runs on the VM thread, one package after the other.                     *)
(*                                                                         *)
(* The interpreter counts references to its objects; PyObjectPtr is to     *)
(* give back the ones it holds.  ends counts the pointers that will.       *)
(***************************************************************************)
EXTENDS Integers, FiniteSets

CONSTANTS
    Exported,   \* languages this build has a runtime for
    MaxLoads,   \* bound on the packages read
    MaxPackages \* bound on the objects that plugins register

PyObjects == {"text", "module", "initializer", "tuple", "returned"}
Languages == {"Python", "CSharp", "Java", "Lua", "Cpp"}
PackageIds == 1 .. MaxPackages

ASSUME PythonAssumption ==
    Exported \subseteq Languages /\ MaxLoads \in Nat /\ MaxPackages \in Nat

VARIABLES
    pyThread,        \* does the VM thread hold a thread state of the interpreter?
    heap,            \* references to each Python object, and the pointers that end one
    errorSet,        \* the interpreter's error indicator
    pcP,             \* where LoadPlugin is
    mutexHeld,       \* the mutex of g_plugin_object
    packageCounters, \* the plugins' own counters of the objects they registered
    storedPackage,   \* g_plugin_object.p_plugin_
    loadedPackage,   \* what LoadPlugin returns, or the plugin holds
    loadAnswer,      \* result of the last load
    loads,           \* packages read
    processEnded     \* the process ended: no thread state, or no package to ask

packageVars == <<mutexHeld, packageCounters, storedPackage, loadedPackage>>
pythonVars == <<pyThread, heap, errorSet, pcP, packageVars, loadAnswer, loads,
                processEnded>>

NoPackage == 0

PythonTypeOK ==
    /\ pyThread \in {"none", "held", "released"}
    /\ heap \in [refs : [PyObjects -> Int], ends : [PyObjects -> Int]]
    /\ errorSet \in BOOLEAN /\ mutexHeld \in BOOLEAN /\ processEnded \in BOOLEAN
    /\ pcP \in {"idle", "begin", "importing", "imported", "ready", "calling", "return"}
    /\ packageCounters \in [PackageIds -> Int]
    /\ {storedPackage, loadedPackage} \subseteq PackageIds \cup {NoPackage}
    /\ loadAnswer \in {"none", "ok", "no_package", "bad_path", "python_error",
                     "no_implementation", "no_symbol", "plugin_error"}
    /\ loads \in 0 .. MaxLoads

PythonInit ==
    /\ pyThread = "none" /\ errorSet = FALSE /\ pcP = "idle"
    /\ heap = [refs |-> [o \in PyObjects |-> 0], ends |-> [o \in PyObjects |-> 0]]
    /\ mutexHeld = FALSE /\ packageCounters = [i \in PackageIds |-> 0]
    /\ storedPackage = NoPackage /\ loadedPackage = NoPackage
    /\ loadAnswer = "none" /\ loads = 0 /\ processEnded = FALSE

-------------------------------------------------------------------------------
(***************************************************************************)
(* PyObjectPtr.  A copy counts; an assignment counts the new object and    *)
(* forgets the old one, which nobody gives back any more.                  *)
(***************************************************************************)
Attached(h, o) == [h EXCEPT !.refs[o] = @ + 1, !.ends[o] = @ + 1]
Destroyed(h, o) == [h EXCEPT !.refs[o] = @ - 1, !.ends[o] = @ - 1]
Forgotten(h, o) == [h EXCEPT !.ends[o] = @ - 1]

\* A faulty variant: the assignment takes the pointer only; no action uses it.
AssignedUncounted(h, o) == [h EXCEPT !.ends[o] = @ + 1]

Assigned(h, o) == Attached(h, o)

(***************************************************************************)
(* PythonResult::then with a function that returns a PyObjectPtr: the      *)
(* answer is attached, assigned over the old pointer, and destroyed.       *)
(***************************************************************************)
Then(h, old, new) ==
    Destroyed(Assigned(Forgotten(Attached(h, new), old), new), new)

\* The function returned null: the old pointer is forgotten, RaiseIfError throws.
ThenNull(h, old) == Forgotten(h, old)

\* RaiseIfError prints the error, counting what it uses, and restores it.
RaiseIfError == errorSet' = TRUE

\* CheckAndGet copies, and the PythonResult ends.
CheckAndGet(h, o) == Destroyed(Attached(h, o), o)

-------------------------------------------------------------------------------
Finished(result) == pcP' = "return" /\ loadAnswer' = result
RestOfLoad == UNCHANGED <<packageVars, loads, processEnded>>

\* CreateForeignLanguageRuntime; three languages have no case of their own.
RuntimeFor(language) ==
    IF language = "Cpp" THEN "cpp"
    ELSE IF language = "Python" /\ "Python" \in Exported THEN "python"
    ELSE "no_implementation"

BeginLoad(runtime) ==
    /\ pcP = "idle" /\ ~processEnded /\ loads < MaxLoads
    /\ \E language \in Languages : RuntimeFor(language) = runtime
    /\ loads' = loads + 1

NoRuntime ==
    /\ BeginLoad("no_implementation")
    /\ loadAnswer' = "no_implementation"
    /\ UNCHANGED <<pyThread, heap, errorSet, pcP, packageVars, processEnded>>

\* The library may lack, the entry point too, and the plugin may refuse.
LoadCppPlugin ==
    /\ BeginLoad("cpp")
    /\ loadAnswer' \in {"ok", "no_symbol", "plugin_error"}
    /\ UNCHANGED <<pyThread, heap, errorSet, pcP, packageVars, processEnded>>

\* The constructor starts the interpreter if there is none, never takes it again.
CreatePythonRuntime ==
    /\ BeginLoad("python")
    /\ pyThread' = IF pyThread = "none" THEN "held" ELSE pyThread
    /\ pcP' = "begin"
    /\ UNCHANGED <<heap, errorSet, packageVars, loadAnswer, processEnded>>

\* Nothing works without the thread state, and LoadPlugin's own end asks for it.
AbortWithoutThread ==
    /\ pcP # "idle" /\ pyThread # "held" /\ ~processEnded
    /\ processEnded' = TRUE /\ pcP' = "idle"
    /\ UNCHANGED <<pyThread, heap, errorSet, packageVars, loadAnswer, loads>>

At(pc) == pcP = pc /\ pyThread = "held" /\ UNCHANGED pyThread

\* The path is not below the working directory.
RejectPath ==
    /\ At("begin")
    /\ Finished("bad_path")
    /\ UNCHANGED <<heap, errorSet>> /\ RestOfLoad

\* The name of the module; from here on its code runs.
ResolveClassName ==
    /\ At("begin")
    /\ pcP' = "importing"
    /\ UNCHANGED <<heap, errorSet, loadAnswer>> /\ RestOfLoad

\* The module's name as a Python string, and the module it names.
ImportPluginModule ==
    /\ At("importing")
    /\ pcP' = "imported"
    /\ heap' = LET found == Then(Attached(heap, "text"), "text", "module")
               IN Assigned(CheckAndGet(found, "module"), "module")
    /\ UNCHANGED <<errorSet, loadAnswer>> /\ RestOfLoad

ImportFails ==
    /\ At("importing")
    /\ heap' = ThenNull(Attached(heap, "text"), "text")
    /\ RaiseIfError /\ Finished("python_error") /\ RestOfLoad

GetPluginInitializer ==
    /\ At("imported")
    /\ pcP' = "ready"
    /\ heap' = CheckAndGet(Attached(heap, "initializer"), "initializer")
    /\ UNCHANGED <<errorSet, loadAnswer>> /\ RestOfLoad

NoInitializer ==
    /\ At("imported")
    /\ heap' = Destroyed(heap, "module")
    /\ RaiseIfError /\ Finished("python_error") /\ RestOfLoad

\* The call has g_plugin_object to itself.
CallInitializer ==
    /\ At("ready")
    /\ pcP' = "calling" /\ mutexHeld' = TRUE
    /\ heap' = Attached(heap, "tuple")
    /\ UNCHANGED <<errorSet, packageCounters, storedPackage, loadedPackage, loadAnswer,
                   loads, processEnded>>

(***************************************************************************)
(* DasRegisterPluginPackageObject, by any code of the plugin that runs,    *)
(* the module's own included, which runs while nobody has the mutex.  The  *)
(* plugin's AddRef answers 2 if it counts as the core does; one that       *)
(* answers 1 gets a reference as a present, one that answers more keeps it *)
(* too, and an error, but is stored all the same.                          *)
(***************************************************************************)
Dropped(k) ==
    [i \in PackageIds |->
        IF i = k THEN packageCounters[i] - 1 ELSE packageCounters[i]]

CounterAfter(answer) == IF answer = 2 THEN 1 ELSE answer

RegisterPackage(i, answer) ==
    /\ pcP \in {"importing", "calling"} /\ pyThread = "held"
    /\ packageCounters[i] = 0 /\ i # loadedPackage
    /\ packageCounters' = [Dropped(storedPackage) EXCEPT ![i] = CounterAfter(answer)]
    /\ storedPackage' = i
    /\ UNCHANGED <<pyThread, heap, errorSet, pcP, mutexHeld, loadedPackage, loadAnswer,
                   loads, processEnded>>

\* ReleaseOwnership: what was not taken is let go.
ReleaseOwnership(k) ==
    /\ mutexHeld' = FALSE /\ storedPackage' = NoPackage
    /\ packageCounters' = Dropped(k)

\* GetObject moves the package out, if there is one.
InitializerReturns ==
    /\ At("calling")
    /\ loadedPackage' = storedPackage
    /\ ReleaseOwnership(NoPackage)
    /\ heap' = LET called == Then(heap, "tuple", "returned")
                   ended == Destroyed(Destroyed(called, "returned"), "initializer")
               IN Destroyed(Assigned(Forgotten(ended, "module"), "module"), "module")
    /\ Finished(IF storedPackage = NoPackage THEN "no_package" ELSE "ok")
    /\ UNCHANGED <<errorSet, loads, processEnded>>

InitializerThrows ==
    /\ At("calling")
    /\ ReleaseOwnership(storedPackage)
    /\ heap' = Destroyed(Destroyed(ThenNull(heap, "tuple"), "initializer"), "module")
    /\ RaiseIfError /\ Finished("python_error")
    /\ UNCHANGED <<loadedPackage, loads, processEnded>>

\* CommonPluginEnumFeature asks the package, also when nobody registered one.
AsksNoPackage == loadAnswer = "no_package"

\* on_exit gives the thread state away, whatever the result.
LeaveLoadPlugin ==
    /\ pcP = "return" /\ pyThread = "held"
    /\ pyThread' = "released" /\ pcP' = "idle"
    /\ processEnded' = AsksNoPackage
    /\ UNCHANGED <<heap, errorSet, loadAnswer, packageVars, loads>>

PythonNext ==
    \/ NoRuntime \/ LoadCppPlugin \/ CreatePythonRuntime \/ AbortWithoutThread
    \/ RejectPath \/ ResolveClassName \/ ImportPluginModule \/ ImportFails
    \/ GetPluginInitializer \/ NoInitializer \/ CallInitializer
    \/ \E i \in PackageIds, answer \in 1 .. 3 : RegisterPackage(i, answer)
    \/ InitializerReturns \/ InitializerThrows \/ LeaveLoadPlugin

PythonSpec == PythonInit /\ [][PythonNext]_pythonVars

-------------------------------------------------------------------------------
Holders(i) == Cardinality({p \in {"stored"} : storedPackage = i})
              + Cardinality({p \in {"loaded"} : loadedPackage = i})

(***************************************************************************)
(* Every pointer that will give a reference back has one that was counted, *)
(* whether a load succeeds or fails at any point: to Python's objects, of  *)
(* which some are kept for good, and to the package that was registered.   *)
(***************************************************************************)
PointersCounted ==
    /\ \A o \in PyObjects : heap.ends[o] \in 0 .. heap.refs[o]
    /\ \A i \in PackageIds : packageCounters[i] >= Holders(i)
===============================================================================
