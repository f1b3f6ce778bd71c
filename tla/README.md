# Verification of Das (AutoStarRail)

TLA+ models of the parts of Das that keep state between calls or are used from
more than one thread, their TLC runs, and machine-checked proofs of the safety
properties these runs check. Paths are relative to `src/das/` unless they start
with `src/`.

## 1. The system

Das is a host for automation plugins: `DasCore` loads plugin packages (C++,
Python, Java), registers what they offer, runs their tasks on a schedule, and
exposes itself to a user interface through an HTTP server.

| Component | Code | State | Operations | Correct when |
|---|---|---|---|---|
| Task scheduler | `Core/TaskScheduler` | queue of units sorted by time, enabled flag, working flag and stop token, environment config, two mutexes | AddTask, RemoveTask, UpdateEnvironmentConfig, SetEnabled, ForceStart, RequestStop; an executor thread that polls; a VM thread that runs | one run at a time, no deadlock, no registration lost or doubled, due tasks run |
| Task manager, plugin settings | `Core/ForeignInterfaceHost/src/TaskManager.cpp`, `PluginManager.cpp` | settings JSON per plugin, a signal, tasks with a state | AddTask, Set/Get/ResetPluginSettings, GetTaskProperty | what a task reads is what was last set |
| Plugin manager | `PluginManager.cpp` | binding thread, registries by name, guid and type, initialised flag | Initialize, Wait, Refresh, Find/Get static storage, Create... | initialised once, used on one thread, registries agree with each other |
| Capture manager | `IDasCaptureManagerImpl.cpp` | capture instances, performance results | AddInstance, EnumInterface, RunPerformanceTest, EnumPerformanceTestResult | results belong to the instance they are asked for |
| Error messages | `ErrorLensManager.cpp`, `Core/i18n`, `IDasBasicErrorLensImpl.cpp` | lenses by iid, messages by locale | Register, GetErrorMessage, fallbacks | every failure ends in some explanation |
| Factories | `ComponentFactoryManager.cpp`, `InputFactoryManager.cpp` | vectors of factories | Register, Find, CreateObject | a supported object is created by a factory that supports it |
| Settings | `Core/SettingsManager` | JSON of the type, of the user and of the interface, a path, a lock | Load, Save, Set, Get, FromString | what was saved is what is loaded, crash or no crash |
| Strings | `DasStringImpl.cpp` | UTF-16 text, cached encodings with validity flags | SetUtf8/16/W, GetUtf8/16/W, iteration | every getter returns the text last set |
| JSON | `Core/Utils/src/DasJsonImpl.cpp` | a value, or a reference into another object's value | Get, Set, GetObjectRef, GetType | a reference never outlives its object |
| Vectors, memory, images | `DasVariantVectorImpl.cpp`, `IDasGuidVectorImpl.cpp`, `IDasMemory.cpp`, `OcvWrapper` | elements; a block with an offset | At, PushBack, Resize, SetOffset, Clip | an index or an offset accepted is inside |
| Reference counts | `Utils/.../CommonUtils.hpp`, `src/include/das/DasPtr.hpp` | an atomic counter per object | AddRef, Release | an object is deleted once, when nobody holds it |
| Logger | `Core/Logger` | a ring buffer per requester, its mutex, the sink's list | Accept, RequestOne | lines come in order, only old ones get lost |
| HTTP server | `Http` | one controller of each kind for all connections | one endpoint per request, one thread per connection | an answer is made of its own request's data |
| ADB touch | `Plugins/DasAdbTouch` | one process, one timer, a result | Click, Swipe | the call returns, with what happened |
| ADB capture | `Plugins/DasAdbCapture` | one process, its output, a timer | size, raw capture | the call returns, with the whole output |
| Foreign runtimes, interop | `PythonHost.cpp`, `JavaHost.cpp`, `CppSwigInterop.cpp`, `TemporaryPluginObjectStorage.cpp` | interpreters, one object in transfer | LoadPlugin, conversions | the package received is the one asked for |

How they interact:

* The HTTP server runs each connection on a thread of its own; all of them call
  the one scheduler and share the one log controller, its reader and its
  requester.
* The executor thread of the scheduler polls every 100 ms, claims the scheduler,
  takes a unit out of the queue and hands it to the VM thread, which runs the
  plugin's task, puts the unit back and gives the claim back.
* The plugin manager binds itself to the VM thread during initialisation.
* `SetPluginSettingsJson` fires a signal that tasks are meant to listen to.
* Every log line passes the sink, which pushes it into every requester.
* A task uses capture and touch plugins, which run `adb` processes.

What is hard to test: two mutexes taken in both orders; a unit that is in no
queue while it runs; flags read outside of their locks; the counter that is
decremented and tested in two steps; a timer that expires while the process
ends; a ring buffer that is written without its mutex. `PROJECT.json` lists each
of these hazards at its line with the properties that would catch it.

## 2. Modules

| Module | Models | Depends on |
|---|---|---|
| `TaskPool` | abstract: a set of registrations, at most one of them out for a run | |
| `TaskScheduler` | `Core/TaskScheduler/src/TaskScheduler.cpp` in full detail | `TaskPool` (as a property) |
| `TaskSchedulerProofs` | theorems about `TaskScheduler`, and that it implements `TaskPool` | `TaskScheduler` |
| `ProfileController` | the profile endpoints, the copied queue read by index | |
| `PluginManager` | initialisation over HTTP, `Refresh`, the map of plugins and two registries | |
| `PluginSettings` | settings of packages, their signal, the copies in tasks | `PluginManager` (extends) |
| `PluginProofs` | theorems about `PluginManager` under `PluginSettings` | `PluginSettings` |
| `Registry` | every kind of interface a package offers, look-ups, storage, resources | |
| `CaptureManager` | instances of capture factories, performance test, enumerations | `Registry` (extends) |
| `ErrorMessages` | locale, error lenses, the table of codes, exceptions | |
| `PluginInfo` | the information objects on plugins, and who deletes them | |
| `PythonHost` | the load of a package by the runtime of its language | |
| `SettingsFile` | core settings and user interface settings, in memory and on disk | |
| `SettingsProofs` | theorems about `SettingsFile` | `SettingsFile` |
| `RefCounter` | `RefCounter<T>` and the threads that hold references | |
| `Interop` | references that cross between C++ and the SWIG languages | |
| `Vectors` | variant vectors with references of both sides, GUID vectors | `Interop` (extends) |
| `DasString` | one text, four encodings, shared buffers and caches | |
| `DasJson` | a document, and references into it | |
| `Images` | memory blocks, images over them, clips | |
| `ReferenceProofs` | theorems about counts of references | `RefCounter`, `Interop`, `PluginInfo` |
| `ObjectsProofs` | theorems about the objects that are handed around, and about all of them | `MCObjects`, `ReferenceProofs` |
| `ProcessExecutor` | `ProcessExecutor` of the touch plugin | |
| `CommandExecutor` | `CommandExecutorContext` of the capture plugin | |
| `LogRequester` | the requester's ring buffer, its mutex and the sink | |
| `LogController` | `GET /api/logs` on many connections | `LogRequester` (extends) |
| `AdbProofs` | theorems about both executors, alone and in one host | `MCAdb` |
| `EndpointProofs` | theorems about what is read piece by piece while it changes | `LogController`, `ProfileController` |
| `ServiceProofs` | theorems about the services, and about all of them | `MCHost`, `EndpointProofs`, `SettingsProofs` |

`MC...` modules give the model values of an instance. `MCObjects`, `MCAdb` and
`MCHost` put modules that share no state side by side. In `MCObjects` and
`MCHost` an initial state chooses with `part` which of them moves, so that one
run explores the sum of their state spaces, not the product; the ones that do
not move keep one initial state. What they share in the program they share in
the modules: `CaptureManager` works on the registry of its own behaviour,
`Vectors` on the counters of `Interop`.

Beside the operator it varies, a module may have a faulty variant: an operator
that no action uses, a mistake that one property is there to find. They document
what every property is able to notice.

### TaskScheduler

State: `queue` is `task_queue_` (a sequence of units, each a task with its next
time), `enabled` is `is_profile_enabled_`, `working` is `is_task_working_`,
`stopRequested` is the stop token of the current run, `envSet` says that
`environment_config_` was set; `queueMutex` and `ctrlMutex` are the owners of
`task_queue_mutex_` and `task_controller_.mutex_`; `inFlight` is the unit on its
way from the queue to its run; `pcE`, `pcV` and `pcC` are the program counters
of the executor, the VM thread and the clients; `crashed` is the null config of
`VmBeginWithoutConfig`. A section of code that runs under a mutex and takes no
other is one action. Where the code takes the second mutex inside the first one
(`RunTaskQueue`, `ForceStart`), or reads a flag before it locks (`ExecPoll`),
the steps are separate.

As the code is written, no unit reaches the queue and none is ever run, for three
reasons that the model has:

* a `TaskInfoImpl` never keeps its task (`TaskManager.cpp:75-110`), so that the
  `SchedulingUnit` made of it dereferences null (`AddTaskWithoutTask`, which ends
  the process);
* the overload for an `IDasTaskInfo` asks it for an interface that no
  implementation answers to (`TaskManager.cpp:178-191`), and fails;
* `start_on` (`TaskScheduler.cpp:496`) returns a lazy sender that is thrown away
  with the unit inside it, and the claim with it (`ExecDispatch`).

Three constants permit what these prevent: `KeepsTask` that a `TaskInfo` holds
its task, `QueryableTasks` which tasks' infos answer `QueryInterface`, and
`SenderStarts` that the VM thread is handed the unit (`ExecHandOver`). Each of
them only adds an action; none takes one away. With all of them given, the
passing runs and the theorems speak of the code as it is and of every repair of
the three, and no property may lean on a repair: `ClaimReleased` does not say
that a claim is given back from `start_on` on, and `DueBackIsTaken` ends where a
sender was thrown away (`ClaimAbandoned`). The violated run, on the other hand,
gives none of the permissions, so that its trace is one of the code.

`RelockBlocks` says what the build does where the code leaves it open:
`ForceStart` on an empty queue locks a `std::mutex` its thread already owns,
which is undefined. `TRUE` blocks, `FALSE` lets it pass (the library may report
the deadlock or not).

`DoTask` catches two kinds of exceptions; any other one leaves it, the unit is
not put back and the claim is not given back (`VmDoEscapes`). Nothing in the
repository calls `AddTask` or `UpdateEnvironmentConfig` yet; both are public
operations and the model lets clients call them.

### RefCounter

`count` is `ref_count_`, `held` how many references each thread holds, and the
program counter of a thread walks through `Release`: decrement, test, read back
or set to 1 and delete. The destructor may make and drop one reference of its
own, the case the comment in `Release` is about. An object is modelled from its
first reference on (`MakeDasPtr` makes it).

### ProcessExecutor and CommandExecutor

Both run one process on an `io_context` of their own. In `ProcessExecutor`, the
context's queue of completed handlers is explicit (`ready`), since what may go
wrong is the order of two handlers completed in the same round; `armed` and
`remaining` are the timer. In `CommandExecutor` the two coroutines are `reader`
and `watcher`, and the watcher's loop is modelled by what its conditions do:
leave after any wait that was not aborted, wait again after one that was. Where
the launch of the process fails the constructors throw: such an executor starts
`unlaunched`, with the caller gone on and nothing to wait for.
Boost.Asio, Boost.Process and the clock are external.

### LogRequester and LogController

Lines are numbered in the order they are logged. `Accept` does not take the
requester's mutex and so may happen between the two halves of `RequestOne`; the
two accesses of the buffer are taken as one step each, although the C++ memory
model promises nothing for them. A push that overwrites the line being read
frees its text: the callback then gets the text or that of no line (`TextRead`,
0). `LogController` adds the endpoint: `message` is
the shared reader's buffer, and a connection copies it after the mutex is
released.

### PluginManager and PluginSettings

`disk` is what the files of `./plugins` hold: a package is ignored, fails before
or after its name is known, loads, or makes `Refresh` throw. A refresh reads
them in any order into `building`, which becomes `listed` (`name_plugin_map_`)
at its end; `tasks` and `factories` are filled on the way. The feature kinds a
package can have are represented by one whose guid may collide (a task) and one
that has none (a capture factory). A host is a thread of the HTTP server inside
`get_initialize`; `bound` is the `ThreadVerifier`; `handle` says that the one
controller holds the interface for user interfaces. `OnFinished` of the callback
has no return statement; its value is only logged, and the model lets it return.
What hosts are told (`outcome`) are the values `PluginManager.h:226-231` documents
for `Refresh`, and besides that nothing was told yet and that `Refresh` was left
by an exception. The fatal error is never among what happens: what the
documentation has in mind there leaves `Refresh` as an exception. And the result
of `AddInterface` is dropped, so a package whose feature was refused, as a task
is whose guid is taken, counts as loaded: `DAS_S_OK` does not say that all of its
features are registered, whatever the comment says.

No endpoint uses the handle yet; the model lets a user interface call what it
offers for settings. A package's text is `settings`, a task's copy
`taskSettings`, and `listening` the tasks that are connected to the signal,
which `StillConnected` keeps empty: the connection is a local of `AddTask`.

Neither module has a specification that runs without the other: `PluginSettings`
states the composition, and an action that ends the process (`crashed`) ends
both.

### ProfileController

`taskQueue`, `executing` and `profileOn` are the scheduler's, and change at any
time in ways the module leaves open (`SchedulerMoves`): their own rules are
`TaskScheduler`'s. `vector` is the `IDasTaskInfoVectorImpl` a host got,
`enumerated` what it has read of it call by call, `copiedAt` the queue when the
vector was made. `EnumByIndex` lets `index == size()` through, so the last call
reads what lies behind the elements (`Garbage`) or ends the process.
`get_task_list` always ends it: it appends to a list nobody created.

### Registry and CaptureManager

An interface is known by the number of its offer. Each manager is a sequence or
a function of these numbers: `tasks` keeps the first of a guid, `lenses` the
last and only official ones, `storage` the last of any kind. `AddInterface` is
one round of the loop over a package's features, with the storage set before the
registration is tried. `reply` is the last look-up. `FindSupportedFactory` takes
the `DasResult` of `IsSupported` for a truth value, so that an error takes a
factory too. A `TaskInfo` drops its task, so looking one up by its guid
dereferences null (`fallen`), and so does the storage of a guid without an
entry.

`CaptureManager` adds `instances` and `results`. `CreateDasCaptureManagerImpl`
asks all factories in one step and answers the state that was assigned last. A
performance test clears the results and fills them in the instances' order,
skipping the failed ones, up to the first exception (`aborted`). `broken` is a
null explanation that was dereferenced.

### ErrorMessages

A locale is a string object: the lens's map hashes its characters and compares
pointers, while the table compares characters, so `Locales` are objects and
`LangOf` their text. `LensMessages` is the set of outcomes of
`IDasBasicErrorLensImpl::GetErrorMessage`; where none of its entries knows the
code, it answers success without a string, which
`PluginManager::GetErrorMessage` dereferences (`down`). A null default locale
and null explanations are accepted (`Nothing`) and dereferenced when the next
question meets them, which ends the process too; a null name of a locale in the
lens is left out.
`GetErrorMessageAndAutoFallBack` has its test the wrong way round, and the model
does what it does.

### PythonHost

`pcP` walks through `LoadPlugin`; every error path is an action. `heap` counts,
for each Python object, its references and the `PyObjectPtr`s that will give one
back; `RaiseIfError`, `CheckAndGet` and the operators of `PyObjectPtr` are
operators on it. `pyThread` says whether the VM thread holds a thread state: it
gives it up after a load and never takes it again, so the second Python package
ends the process (`AbortWithoutThread`). The package a plugin registers while
its initialiser runs goes through `storedPackage` under `mutexHeld`. `CppHost`
is one action, `LoadCppPlugin`.

### SettingsFile

`disk` is what the three files hold, and survives `Crash`. `step` is where a
user's call is: between the test for an object and its creation, between the
opening of a file, which truncates it before the mutex is taken, and the write.
`directory` and `full` say what the file system does; `Environment` changes
them. `torn` are the files whose last saves overlapped, failed or crashed.
`LoadSettings` goes on to read the file only where the directory could not be
made, which is what the code's condition does. The two parts `settings` and
`extra` of `MCHost` share nothing but the disk.

### PluginInfo

A vector of `GetAllPluginInfo` owns its objects and all are counted. `counter`
is the `RefCounter`, `holds` what users will release. `Release` of every
projection calls `AddRef`, so the counter only grows (`LetGo`) and nothing is
ever deleted: the module has no property of its own beside its type, since that
everything leaks is what the code does and nothing promises the opposite. A
plugin that failed to load has no descriptor to read (`nullRead`).

### Interop and Vectors

For every object `counted` is its counter and `owned` the references that users
hold and will release once each; `wrapped` counts its wrappers, each with a
reference of its own and never deleted. Every way to copy, convert, ask, wrap or
return an object is an action that moves the two by what the code counts.
`Vectors` adds the elements of a variant vector, whose references are among the
owned ones, and the read-only copies of a GUID vector.

### DasString

`impl` is ICU's text unless it lives in `u16` itself (`aliased`), which `SetW`
and `SetSwigW` bring about; `u8`, `u32` and `wchars` are the caches and
`expired` the ones that are not valid. `Discard` and `Filled` do what the
buffers' reuse does: a larger one is new and zeroed, a smaller one gets a
terminator, and one of the same size a write behind its end (`stringFault`).
Characters are model values, the ones in `Astral` two units of UTF-16; `wide16`
is the build's `wchar_t`. `setter` is `split` after `SetSwigW` cut an overlong
text between the two units of a character (`SplitsPair`).

### DasJson and Images

A document is a function from paths to kinds (`tree`); what `operator[]` adds
while it reads is part of each action. A reference is a path and whether what it
points to still is there (`Losing`): an array that grows moves its elements, a
value that is replaced ends what is below it, and the signal that should expire
references is never raised.

`Images` keeps the blocks a memory object had, the recorded size, the offset
with the block it was computed in, and for every image the block it shows.
`Resize` allocates the old size and records the new one. The size of a picture
is a product of ints that wraps around (`AsInt`) and whose absolute value is
compared, of sides that may be negative. What passes the test by that, or after
a `Resize` or with an offset, and does not lie within its block, is not `sound`.

## 3. Runs

| Run | Instance | Shows |
|---|---|---|
| `scheduler_safety` | 2 tasks, 2 clients, times to 2, 3 registrations | exclusive claim, no cycle between the mutexes, a run never asked to stop, order of the queue, refinement of `TaskPool` |
| `scheduler_live` | 2 tasks, 2 clients, times to 1, 2 registrations | claims given back by whoever holds them, the executor keeps checking, a disabled profile comes to rest, a due back of the queue is taken up, liveness of `TaskPool` |
| `scheduler_relock` | second lock blocks | **violated**: `ForceStart` on an empty queue stops the executor for good |
| `objects` | `MCObjects`, one of 8 parts at a time | references counted across threads and languages, readers of strings find the text last set, members of a json object stay referenced, images whose size is no overflow show allocated memory |
| `host_services` | `MCHost`, one of 7 parts at a time | log lines in order and answered once, whole settings files, factories that support what is asked, results of captures that were made, crashes only over codes nobody explained, queues listed as of one moment, pointers into Python counted |
| `settings_saved` | the same | **violated**: on a full disk a save answers `DAS_S_OK` over a file it has emptied |
| `adb_commands` | both executors, timeouts of 6 steps, commands that end | calls return, a success stands |
| `command_executor_hang` | a command that may hang | **violated**: never returns |
| `command_executor_lingers` | a command that ends | **violated**: after its end the timer is waited for again, whole |
| `plugin_manager` | 2 hosts, 2 packages, 2 names, 2 guids, counter to 2 | loaded once, map complete or empty, code of what is registered stays loaded, requests are answered |
| `plugin_settings` | the same | **violated**: a setting does not reach the task |
| `plugin_loaded_twice` | the same | **violated**: two hosts that meet at the counter load the plugins twice |

The six violated runs state what a comment or a doc of the repository says and
show what the code does instead; `PROJECT.json` quotes the lines.

Facts that hold and may surprise:

* `RequestStop` never reaches a run (`RunNeverAskedToStop`): it refuses exactly
  while there is one, and the next claim resets what an accepted call set. A
  registration whose `GetNextExecutionTime` fails after a run is dropped without
  a trace (`Drop` of `TaskPool`).
* A disabled profile comes to rest (`DisabledComesToRest`) also where a sender
  was thrown away: nothing runs then, and the claim stays set for good.
* Two releases that both read a 0 both delete the object: `objects` reaches such
  states (`deletes = 2`), and its properties say what holds all the same.
* `DeletedUnowned` excepts the foreign objects that have both sides' interfaces:
  the wrapper's `QueryInterface` copies their pointer out of a result that then
  releases it (`PassOn`), and a user's reference is one too few. For all others
  the counter is at least the number of references in use, and where it is
  higher the object leaks.
* A push to a full buffer of lines overwrites the one a callback reads, since
  `Accept` does not lock: `OnlyOldLinesLost` allows for it. `ServedAsDelivered`
  holds until two connections overlap (the history variable `overlapped`) and
  not after: one of them may replace the shared reader's line before the other
  has copied its own. No text of the repository promises otherwise, so this is a
  hazard of `PROJECT.json` and not a finding.
* `CodeStaysLoaded` holds as long as no exception leaves `Refresh`: after one,
  what was registered stays while its library is unloaded.
* A property that excepts a case says so in its comment, and where the case is a
  hazard of the code `PROJECT.json` says beside the hazard what the property
  shows of it and what it leaves out: most of these cases go wrong in the code,
  and in the model, without any text of the repository that promises better.
* `ReadersFindText` says what readers of UTF-8 find: the text last set, but
  after what the cache held before. A text that fills its buffer exactly writes
  behind it, and nothing is promised from there on. Nor is it of a text without
  terminator in its first 4096 units that `GetStringSize`
  (`DasStringImpl.cpp:300`) cuts short: it looks at the last unit to avoid half
  a pair, but cuts one to three units before it, where another pair may stand.
  The proof showed this: the texts of the run were too short to.
* `ImagesShowMemory` says that an image shows allocated memory unless its memory
  was resized since, or it passed the size test of `IDasImageImpl.cpp:245` after
  a resize, with an offset, by overflow or with a negative side and did not fit;
  for all other sizes the test is enough. `MemberRefsStay` is about members of
  objects, since elements of arrays move.
* `GET /api/profile/initialize` always ends with
  `DAS_E_UNEXPECTED_THREAD_DETECTED`, since the first refresh binds the manager
  to the VM thread.

### Bounds

* Two clients and two tasks give every pair of operations of different clients
  on the same and on different registrations; a third client only repeats a
  pair, as no operation involves more than two threads and two mutexes. Two
  registrations are needed for order; the queue's length is bounded.
* The clock ends at a small time; tasks may ask for any offset of a small set,
  so a unit can be overdue, due now or due later. In the liveness runs the bound
  is reached only after all of these have happened.
* The counter's modulus is 64 instead of 2^64. What matters is only that a
  decrement below 0 wraps, which happens after two threads destroyed the object.
* A timeout of 6 steps lets the process end before, at and after either expiry,
  and the capture plugin's command at each moment of its timeout.
* A buffer of 2 or 1 lines fills, overwrites and drains within 5 lines.
* Objects: one of each kind of side and of interfaces (`Native`, `Foreign`,
  `Dual`); the bound on counters, references and wrappers in all lets an object
  that has gone through any two conversions be released to the end. Texts of one
  character and of two that have two units each, against a limit of 3 units,
  give shorter, equal and longer ones, and one that is cut in a pair. Paths of length 2 give a reference above,
  at and below a value that is set; two images and one resize give a clip of a
  clip of a block that is replaced. Sides of -3 to 3 against ints from -4 to 3
  give products that fit, that exceed the block, and that wrap around to a size
  that fits.
* Services: a long document and a short one, one crash, two users; three offers
  of nine different kinds, which is two factories that compete and one more;
  two locales, one that has a table and one that has none; two loads of
  packages, the second of which meets what the first left.
* Two packages may agree or not in name and guid, and come in both orders; a
  third one adds no relation. The contents leave out records that no action
  tells apart from another one. Two hosts may race for the counter; its bound 2
  gives one refused request besides the first, and both may be first when they
  race.

### Fairness

* Scheduler: the executor's and the VM thread's steps are weakly fair, since
  both are threads of their own that never wait for anything but the mutexes and
  the timer; a client is fair inside a call and never has to make one; a task's
  run ends because a plugin that never returns stops every other one by design
  (the VM thread is the only one), so no property speaks of it. The properties
  except the crash of a run without a config and of an `AddTask` without a task.
* RefCounter: a thread inside `Release` goes on; nobody has to drop a reference.
* Executors: the context, the clock and the expiry are weakly fair; a process
  ends only if it was terminated. `EndingFairness` adds that the capture
  plugin's commands end by themselves, and the two runs of `CommandReturns`
  differ in exactly that.
* The properties of the services and of the other objects are safety properties.
  The runs whose processes may be dead do not check for deadlock.
* Plugin manager: the VM thread and a host inside its request go on; nobody has
  to begin a request. The process may be dead, so the runs do not check for
  deadlock; `InitializeReturns` says that a request never gets stuck in one.

## 4. Proofs

Every invariant and every action property of every passing run is a theorem of
the specification the run checks, most of them of the component's own before,
and so is the refinement of `TaskPool` without its fairness. All theorems hold for every value
of the constants that the named assumptions allow; those say that bounds are
numbers, that values that stand for nothing are none of the others, and what is
named below. The bounds of the runs are constants of the modules: a theorem
holds for each of them.

### The scheduler

`TaskSchedulerProofs` proves, for all sets of tasks and clients, all offsets and
all bounds:

| Theorem | Property |
|---|---|
| `TypeCorrect` | `TypeOK` |
| `ClaimExclusive` | `ClaimIsExclusive`: between claim and hand-back the executor and the VM thread never both act on a claim |
| `LocksAcyclic` | `NoLockCycle`: no two threads wait for each other's mutex |
| `StopNeverReachesRun` | `RunNeverAskedToStop` |
| `QueueOrder` | `SortedUpToBack` |

The invariant is `IndInv == TypeOK /\ MutexInv /\ ClaimInv /\ FlightInv`.
`MutexInv` ties the owner of each mutex to the program counters, `ClaimInv` ties
`is_task_working_` to who is between claim and hand-back, and `FlightInv` says
what is carried in between. None of the five properties is inductive alone: that
`ForceStart` and `RunTaskQueue` do not meet between the mutexes follows from the
claim, and that the claim is exclusive from where the program counters are.
`QueueOrder` needs two facts about sequences besides: a prefix of a sequence
sorted up to its back is sorted, and sorting leaves it so. The only assumption
is `SchedulerAssumption`, on the types of the constants.

### The scheduler is a pool

`TaskSchedulerProofs` also proves `Spec => PoolSpec` (`SchedulerIsPool`), the safety half
of the refinement, from `IndInv`. The mapping counts the places of each task in
`queue`, so most of the work is in lemmas about the cardinality of
`{i \in DOMAIN s : s[i].task = k}`: what an append, a sort, the removal of an
index and a `pop_back` do to it, each by a one-to-one correspondence
between index sets. `PoolStep` says in the scheduler's terms what a step of the
pool is; every action of the executor, the VM thread and a client is one of its
cases or changes neither a count nor the unit in flight, and `PoolStepIsPools`
restates it as `[Pool!Next]_(Pool!poolVars)`.

### Counted references

`ReferenceProofs` proves of `CounterSpec` that the types are kept
(`CounterTypeCorrect`), `ReferencedNotDestroyed` (`ReferencedStays`) and
`DtorDoesNotDelete` (`DestructorDeletesOnce`), for any set of threads. What
threads hold is a set of pairs (`References`), so that the sum of `held` is a
cardinality, and a reference more or less is one element. `CounterInv` says:

* before the first delete the counter is the number of references, and who has
  read a 0 has read it for good (`Balanced`);
* after it nobody holds one (`Abandoned`), since the reference a thread drops is
  counted until then;
* with one delete so far one thread is inside it, and the counter is 1 but for
  the reference that the destructor makes (`OneDelete`): the store of 1.

It assumes that the counter's width holds all references (`RefCounterAssumption`).

`InfoTypeCorrect` proves the types of `PluginInfo`.

### References across the border

`ReferenceProofs` proves, for all sets of objects on either side and every bound,
`InteropSpec => []InteropTypeOK` (`InteropTypeCorrect`) and `InteropSpec =>
[]DeletedUnowned` (`NothingDeletedInUse`). `InteropSpec` is what the part
`interop` of the run `objects` explores. `DeletedUnowned` speaks of deleted
objects only and is not inductive. The invariant `CountInv` adds what holds
before: an object that lives is counted, at least as often as it is owned unless
it is a foreign one with both sides' interfaces, and a deleted one is not owned.
Three lemmas say that a reference handed out with a count, a result forwarded,
and a drop keep it; each action is one of the three, or `WrapResult`, which
moves neither. `PassOn` is the reason for the exception: it hands out a
reference with no count. No assumption is used.

### Vectors, json and images

`ObjectsProofs` proves of `VectorSpec` the types, with the agreement of
`GetType` and the getters, and `DeletedUnowned` (`VectorKeepsObjects`). Here all
objects count, and `VectorCounts` says more than `CountInv`: what is counted is
at least what is owned, and that at least the number of elements that refer to
the object. The lemmas say what a place more, less or replaced does to that
number.

`MemberRefsStay` (`MembersStay`) of `JsonSpec` follows from `JsonInv`, whose
`Shape` says that every value but the root belongs to a container that is
there, of the kind its name asks for. It is the copy of a value into itself
(`CopiedShape`) that takes the work. `Losing` ends references below a value that
is replaced and into an array that grows, and never one of a member of the root.

`ImagesShowMemory` (`ImagesShowAllocated`) of `ImagesSpec` needs that a sound
image of the current block lies within it and keeps it. That the comparison of
absolute values is enough for a picture whose size is no overflow is arithmetic
about the product of two sides, which `AsInt` leaves alone below the limit; a
clip stays inside because it is one of a sound image. The theorem holds for
every width of int.

### Strings

`StringTypeCorrect` and `ReadersAreServed` prove `StringTypeOK` and
`ReadersFindText` of `StringSpec`, for all texts, any characters outside the
basic plane and every `MaxSize` above 2. The invariant is `StringInv`: every
block holds units; the text is a beginning of one that was set; and each cache
that is not expired shows the text: it begins with it and has the terminator
behind it (`Shows`), but the one for UTF-8, which ends in it. After `SetW` ICU's
text is the whole buffer, which only shows the text, and a conversion of it
shows the converted text (`ConvertedShows`).

`Units` and `Characters` are computed by a recursive function (`Joined`). Its
existence for each length, that it appends (`JoinedConcat`) and that conversion
there and back is the identity (`RoundTrip`) are proved by induction on the
length, in the form `EveryNumber`: a set of numbers with 0 and with each
number's successor has them all. The induction theorems of the library take
an operator and cannot be used, but the set of counterexamples has a least
element by `WFMin` of the same library.

### All objects

The invariant of `MCObjects` is the conjunction of those above (`ObjectsInv`);
in the part `interop` it is `InteropInv` with an empty vector. From it
`ObjectsTypeCorrect` proves `ObjectsTypeOK`, `ObjectsAreSafe` the five safety
invariants and `ObjectsDeleteOnce` the action property of the run's own
specification.

### The log and what is enumerated

`EndpointProofs` proves `OnlyOldLinesLost` (`LostLinesAreOld`) and
`ServedAsDelivered` (`NothingServedTwice`) of `ControllerSpec`. `BufferInv` says
that the buffer holds the youngest lines in order, and that the line being read
is its front or has been run over by a full buffer, which is the only case in
which the callback may have read something else. `ServedInv` says that before
two requests overlap only one connection is past the start, and `served` lacks
at most the line it carries.

`ListedTogether` (`EnumeratedTogether`) of `ProfileSpec`: a host's vector is the
queue of the moment it was copied (`VectorIsCopy`); the step that matters is the
last index, which `InRange` lets through. The types of both are theorems as well.

### The settings files

`SettingsProofs` proves `SettingsSpec => []QuietFileIsADocument`
(`QuietFilesAreWhole`). The invariant `FilesInv` says that a file that is not
torn has one writer at most and that this writer found it empty; without the
second half the document written could be the front of a longer one. Crashes,
full disks and the environment's changes are steps like others. It takes from
`SettingsAssumption` that a document has a length and that `Null` is one.

`SettingsTypeCorrect` adds the types; what is not a matter of one step is that
there are no more objects than users, since a user makes one only after it found
none, and that is why the set of users is assumed to be finite.

### The services

`ServiceProofs` proves, for all packages, codes, locales and loads:

| Theorem | Property | Invariant |
|---|---|---|
| `SupportersAreAsked` | `SupporterIsAsked` | the component factories stand in the order of their offers and all are there; the one a look-up stops at is the least that supports the guid or errs |
| `CrashIsUnexplained` | `CrashNeedsUnexplained` | the types: what a step answers follows from the locale and the entries there are |
| `ResultsAreOfCaptures` | `ResultsFollowCaptures` | nothing is there before the manager is; the results are those of the captures that were made, in order |
| `PointersAreCounted` | `PointersCounted` | `ThreadInv`, `HeapInv`, `PackageInv`: at each point of `LoadPlugin` the pointers that will give a reference back are known, and each has one |
| `HostTypeCorrect`, `HostIsSafe`, `HostCrashIsUnexplained` | `HostTypeOK`, the seven safety invariants and the action property of `host_services` | every behaviour of `MCHost` is one of each of its modules (`PartsBehave`) |

The loops over the instances are `Ascending`, a recursive function; that it
exists and what it returns is proved by induction like `Joined`.

### The plugin manager

`PluginProofs` proves three properties of `PluginSettings!Spec` for all packages,
hosts and requests. `ManagerStep` first strips the settings from a step.

| Theorem | Property | Invariant |
|---|---|---|
| `MapIsComplete`, `FactoriesHaveCode` | `MapAllOrNothing`, `CodeStaysLoaded` | `MapInv`: the map in use has every package of the last refresh, the new one every package read so far, and the package of a factory is in one of them |
| `PackagesLoadedOnce` | `LoadedOnce` | `OnceInv`: until two requests overlap at the counter, one host at most counts and one at most waits, its job is the only one, and no package has more factories than there were refreshes |

`PluginTypeCorrect` proves `PluginTypeOK`. The types are not inductive: a job
that is taken from the queue while none is there, and a counter moved past its
bound, must be excluded. `ManagerInv` adds that a refresh that runs has its job
queued and that a host that counts has seen less than the bound.

### Commands of adb

`AdbProofs` proves `SuccessStands` of `TouchSpec` (`RecordedSuccessStands`), the
types of both executors in one host (`AdbTypeCorrect`) and that there, too, a
success stands (`HostedSuccessStands`). `TouchInv` says that the process's end is
queued once and that an `ok` is recorded with the signal disconnected and no
wait pending: no handler is left that could change it.

### Model-checked only

* Liveness, which the prover cannot express with fairness: `LastReleaseFrees`,
  `RunReturns`, `CommandReturns`, `InitializeReturns`, and for the scheduler
  `ClaimReleased`, `DisabledComesToRest`, `ExecutorKeepsChecking`,
  `DueBackIsTaken` and the fairness of `TaskPool`.
* The six disagreements: TLC's counterexample is the proof.

## 5. Not modelled

* The end of the scheduler: `NotifyExit` is private and has no caller; the
  `last_task_` and its message, which nothing reads; the start of its thread
  before its constructor ends, which is undefined only where a mutex needs one.
* `FindInterfaceStaticStorage` during a refresh, whose map it reads without the
  mutex: `Registry` takes each call as one step.
* Memory-level effects of data races: an unsynchronised access is one step.
* What plugins do inside a task, besides returning and asking for a next time.
* Exceptions for lack of memory, and null pointers as arguments but for the ones
  named above.
* The values in json documents and variants, texts of messages and of responses,
  pixels: no property tells them apart. What the capture plugin makes of adb's
  output is left out because every path of it ends in an exception or in
  `DAS_E_NO_IMPLEMENTATION`.
* Hashing, comparison and iteration of strings, which change no state.
* The template matching and OCR wrappers, the SWIG interface files and the
  generator.

## 6. Plan

1. The composition of the plugin manager with the VM thread of `TaskScheduler`,
   and an abstract specification of the map that is published once.
2. An abstract specification of `SettingsFile`: a register that survives
   crashes.
3. `GetProperty` of a task, which compares string pointers, and the settings'
   types.
4. Proofs: the step simulation of the abstract specifications above, once they
   are there; the step-wise facts that the liveness properties rest on (that a
   claim is handed back by a step that nothing else disables, that a timer's
   expiry stays queued) as invariants and action properties of their own.
