------------------------- MODULE TaskSchedulerProofs -------------------------
(***************************************************************************)
(* Proofs about TaskScheduler, for every set of tasks and of clients, every*)
(* bound, and whatever is permitted: tasks kept or not, senders started or *)
(* not, nested locks that block or succeed.                                *)
(***************************************************************************)
EXTENDS TaskScheduler, SequenceTheorems, FiniteSetTheorems, TLAPS

\* Who owns the mutexes: a client only inside ForceStart, the executor only
\* on its way to give an unused claim back.
MutexInv ==
    /\ \A c \in Clients : ctrlMutex = c <=> pcC[c] \in {"forceQueue", "stuck"}
    /\ \A c \in Clients : queueMutex = c <=> pcC[c] = "stuck"
    /\ queueMutex = Executor <=> pcE = "unclaim"

\* A client owns the controller's mutex only while nothing is claimed.
ClaimInv ==
    /\ ClaimIsExclusive
    /\ ctrlMutex # None => ~working
    /\ working => ~stopRequested

\* There is a unit in flight exactly between its pop and its re-add.
FlightInv ==
    inFlight # None <=> pcE = "dispatch" \/ pcV \in {"queued", "doing", "readd"}

IndInv == TypeOK /\ MutexInv /\ ClaimInv /\ FlightInv

-------------------------------------------------------------------------------
\* A sort of a queue is a queue of the same length, in order.
LEMMA SortedIsQueue ==
    ASSUME NEW s \in Seq(Unit), NEW t \in Sorted(s)
    PROVE  t \in Seq(Unit) /\ Len(t) = Len(s) /\ IsSortedByTime(t)
<1>1. PICK p \in Injection(DOMAIN s, DOMAIN s) :
            t = [i \in DOMAIN s |-> s[p[i]]] /\ IsSortedByTime(t)
  BY DEF Sorted
<1>2. p \in [1 .. Len(s) -> 1 .. Len(s)]
  BY <1>1, LenProperties DEF Injection
<1>3. t \in [1 .. Len(s) -> Unit]
  BY <1>1, <1>2
<1>4. QED
  BY <1>1, <1>3, LenProperties

\* What InternalAddTask leaves is a queue in order.
LEMMA InsertedIsQueue ==
    ASSUME queue \in Seq(Unit), NEW u \in Unit, NEW t \in Inserted(u)
    PROVE  t \in Seq(Unit) /\ IsSortedByTime(t)
<1>1. Append(queue, u) \in Seq(Unit)
  OBVIOUS
<1>2. QED
  BY <1>1, SortedIsQueue DEF Inserted

\* A queue without one of its units is a queue.
LEMMA RemoveAtIsQueue ==
    ASSUME NEW s \in Seq(Unit), NEW i \in DOMAIN s
    PROVE  RemoveAt(s, i) \in Seq(Unit)
  BY DEF RemoveAt

\* The first n of a sequence.
LEMMA PrefixIndices ==
    ASSUME NEW s, NEW n \in Nat, \A i \in 1 .. n : s[i] \in Unit
    PROVE  /\ Len(SubSeq(s, 1, n)) = n
           /\ \A i \in 1 .. n : SubSeq(s, 1, n)[i] = s[i]
<1>1. /\ Len(SubSeq(s, 1, n)) = IF 1 <= n THEN n - 1 + 1 ELSE 0
      /\ \A i \in 1 .. n - 1 + 1 : SubSeq(s, 1, n)[i] = s[1 + i - 1]
  BY SubSeqProperties
<1>2. QED
  BY <1>1

\* Its units are those before the removed one and, shifted, those after it.
LEMMA RemoveAtIndices ==
    ASSUME NEW s \in Seq(Unit), NEW n \in 1 .. Len(s)
    PROVE  /\ Len(RemoveAt(s, n)) = Len(s) - 1
           /\ \A i \in 1 .. Len(s) - 1 :
                  RemoveAt(s, n)[i] = IF i < n THEN s[i] ELSE s[i + 1]
<1> DEFINE a == SubSeq(s, 1, n - 1)
           b == SubSeq(s, n + 1, Len(s))
<1>1. Len(s) \in Nat /\ \A i \in 1 .. Len(s) : s[i] \in Unit
  BY LenProperties, ElementOfSeq
<1>2. /\ a \in Seq(Unit)
      /\ Len(a) = n - 1
      /\ \A i \in 1 .. n - 1 : a[i] = s[i]
  BY <1>1, SubSeqProperties
<1>3. /\ b \in Seq(Unit)
      /\ Len(b) = Len(s) - n
      /\ \A i \in 1 .. Len(s) - n : b[i] = s[n + i]
  <2>1. \A i \in n + 1 .. Len(s) : s[i] \in Unit
    BY <1>1
  <2>2. QED
    BY <1>1, <2>1, SubSeqProperties
<1>4. RemoveAt(s, n) = a \o b
  BY DEF RemoveAt
<1>5. /\ Len(a \o b) = Len(s) - 1
      /\ \A i \in 1 .. Len(s) - 1 :
            (a \o b)[i] = IF i < n THEN s[i] ELSE s[i + 1]
  <2> HIDE DEF a, b
  <2>1. /\ Len(a \o b) = Len(a) + Len(b)
        /\ \A i \in 1 .. Len(a) + Len(b) :
              (a \o b)[i] = IF i <= Len(a) THEN a[i] ELSE b[i - Len(a)]
    BY <1>2, <1>3, ConcatProperties
  <2>2. SUFFICES ASSUME NEW i \in 1 .. Len(s) - 1
                 PROVE  (a \o b)[i] = IF i < n THEN s[i] ELSE s[i + 1]
    BY <1>1, <1>2, <1>3, <2>1
  <2>3. CASE i < n
    BY <1>1, <1>2, <1>3, <2>1, <2>3
  <2>4. CASE ~(i < n)
    <3>1. (a \o b)[i] = b[i - (n - 1)]
      BY <1>1, <1>2, <1>3, <2>1, <2>4
    <3>2. i - (n - 1) \in 1 .. Len(s) - n /\ n + (i - (n - 1)) = i + 1
      BY <1>1, <2>4
    <3>3. QED
      BY <1>3, <2>4, <3>1, <3>2
  <2>5. QED
    BY <2>3, <2>4
<1>6. QED
  BY <1>4, <1>5

-------------------------------------------------------------------------------
LEMMA InitIndInv == Init => IndInv
<1> SUFFICES ASSUME Init PROVE IndInv
  OBVIOUS
<1> USE SchedulerAssumption DEF Init
<1>1. TypeOK
  <2>1. <<>> \in Seq(Unit)
    BY EmptySeq
  <2>2. 0 \in 0 .. MaxTime
    OBVIOUS
  <2>3. QED
    BY <2>1, <2>2 DEF TypeOK
<1>2. MutexInv
  BY DEF MutexInv
<1>3. ClaimInv
  BY DEF ClaimInv, ClaimIsExclusive, ExecutorHoldsClaim, VmHoldsClaim
<1>4. FlightInv
  BY DEF FlightInv
<1>5. QED
  BY <1>1, <1>2, <1>3, <1>4 DEF IndInv

(***************************************************************************)
(* Every step preserves IndInv.  An action disturbs TypeOK only in the     *)
(* variables it assigns; the interesting part of each case is who owns a   *)
(* mutex and who holds the claim.                                          *)
(***************************************************************************)
LEMMA StepIndInv == IndInv /\ [Next]_vars => IndInv'
<1> SUFFICES ASSUME IndInv, [Next]_vars PROVE IndInv'
  OBVIOUS
<1> USE SchedulerAssumption
<1> USE DEF IndInv, TypeOK, MutexInv, ClaimInv, FlightInv, ClaimIsExclusive,
            ExecutorHoldsClaim, VmHoldsClaim, locks, controller, settings,
            GiveClaimBack
<1>1. CASE ExecPoll
  BY <1>1 DEF ExecPoll
<1>2. CASE ExecClaim
  BY <1>2 DEF ExecClaim, ClaimTaken, Claim
<1>3. CASE ExecPop
  <2>1. Last(queue) \in Unit /\ Front(queue) \in Seq(Unit)
    BY <1>3 DEF ExecPop, Last, Front
  <2>2. QED
    BY <1>3, <2>1 DEF ExecPop, Candidate, Popped
<1>4. CASE ExecNothingDue
  BY <1>4 DEF ExecNothingDue
<1>5. CASE ExecUnclaim
  BY <1>5 DEF ExecUnclaim
<1>6. CASE ExecDispatch \/ ExecHandOver
  <2>1. CASE ExecDispatch
    BY <2>1 DEF ExecDispatch
  <2>2. CASE ExecHandOver
    BY <2>2 DEF ExecHandOver
  <2>3. QED
    BY <1>6, <2>1, <2>2
<1>7. CASE VmBegin \/ VmBeginWithoutConfig \/ VmDoReturns \/ VmDoEscapes
  <2>1. CASE VmBegin
    BY <2>1 DEF VmBegin
  <2>2. CASE VmBeginWithoutConfig
    BY <2>2 DEF VmBeginWithoutConfig
  <2>3. CASE VmDoReturns
    BY <2>3 DEF VmDoReturns
  <2>4. CASE VmDoEscapes
    BY <2>4 DEF VmDoEscapes
  <2>5. QED
    BY <1>7, <2>1, <2>2, <2>3, <2>4
<1>8. CASE VmReAdd
  <2>1. inFlight \in Unit
    BY <1>8 DEF VmReAdd
  <2>2. queue' \in Seq(Unit)
    <3>1. PICK t \in NextTimes :
              queue' \in Inserted([task |-> inFlight.task, time |-> t])
      BY <1>8 DEF VmReAdd
    <3>2. [task |-> inFlight.task, time |-> t] \in Unit
      BY <2>1, <3>1 DEF Unit, NextTimes
    <3>3. QED
      BY <3>1, <3>2, InsertedIsQueue
  <2>3. QED
    BY <1>8, <2>2 DEF VmReAdd
<1>9. CASE VmReAddFails
  BY <1>9 DEF VmReAddFails
<1>10. CASE VmFinish
  BY <1>10 DEF VmFinish
<1>11. ASSUME NEW c \in Clients, ClientStep(c) PROVE IndInv'
  <2>1. ASSUME NEW k \in Tasks, AddTask(c, k) PROVE IndInv'
    <3>1. PICK t \in NextTimes : queue' \in Inserted([task |-> k, time |-> t])
      BY <2>1 DEF AddTask
    <3>2. queue' \in Seq(Unit)
      BY <3>1, InsertedIsQueue DEF Unit, NextTimes
    <3>3. QED
      BY <2>1, <3>2 DEF AddTask
  <2>2. ASSUME NEW k \in Tasks, RemoveTask(c, k) PROVE IndInv'
    <3>1. queue' \in Seq(Unit)
      BY <2>2, RemoveAtIsQueue DEF RemoveTask
    <3>2. QED
      BY <2>2, <3>1 DEF RemoveTask
  <2>3. ASSUME NEW b \in BOOLEAN, SetEnabled(c, b) PROVE IndInv'
    BY <2>3 DEF SetEnabled
  <2>4. CASE UpdateEnvironmentConfig(c) \/ RequestStop(c) \/ AddTaskWithoutTask(c)
    <3>1. CASE UpdateEnvironmentConfig(c)
      BY <3>1 DEF UpdateEnvironmentConfig
    <3>2. CASE RequestStop(c)
      BY <3>2 DEF RequestStop
    <3>3. CASE AddTaskWithoutTask(c)
      BY <3>3 DEF AddTaskWithoutTask
    <3>4. QED
      BY <2>4, <3>1, <3>2, <3>3
  <2>5. CASE ForceStart(c)
    BY <2>5 DEF ForceStart, ForceStartAllowed
  <2>6. CASE ForceStartBack(c)
    <3>1. queue' \in Seq(Unit)
      <4>1. now \in Times /\ Len(queue) \in DOMAIN queue
        BY <2>6 DEF ForceStartBack, Times
      <4>2. [queue[Len(queue)] EXCEPT !.time = now] \in Unit
        <5>1. queue[Len(queue)] \in Unit
          BY <4>1, ElementOfSeq
        <5>2. QED
          BY <4>1, <5>1 DEF Unit
      <4>3. QED
        BY <2>6, <4>1, <4>2, ExceptSeq DEF ForceStartBack
    <3>2. QED
      BY <2>6, <3>1 DEF ForceStartBack
  <2>7. CASE ForceStartEmpty(c)
    <3>1. CASE RelockBlocks
      BY <2>7, <3>1 DEF ForceStartEmpty, NestedLockWaits
    <3>2. CASE ~RelockBlocks
      BY <2>7, <3>2 DEF ForceStartEmpty, NestedLockWaits
    <3>3. QED
      BY <3>1, <3>2
  <2>8. QED
    BY <1>11, <2>1, <2>2, <2>3, <2>4, <2>5, <2>6, <2>7
    DEF ClientStep, ForceStartRest
<1>12. CASE Tick
  BY <1>12 DEF Tick
<1>13. CASE UNCHANGED vars
  BY <1>13 DEF vars
<1>14. QED
  BY <1>1, <1>2, <1>3, <1>4, <1>5, <1>6, <1>7, <1>8, <1>9, <1>10, <1>11,
     <1>12, <1>13
  DEF Next, Step, Dead, ExecutorStep, VmStep
-------------------------------------------------------------------------------
LEMMA Invariance == Spec => []IndInv
  BY InitIndInv, StepIndInv, PTL DEF Spec

(***************************************************************************)
(* The variables keep their types: in particular a unit that is re-added   *)
(* is one that was popped.                                                 *)
(***************************************************************************)
THEOREM TypeCorrect == Spec => []TypeOK
<1>1. IndInv => TypeOK
  BY DEF IndInv
<1>2. QED
  BY <1>1, Invariance, PTL

(***************************************************************************)
(* The claim of RunTaskQueue is exclusive.                                 *)
(***************************************************************************)
THEOREM ClaimExclusive == Spec => []ClaimIsExclusive
<1>1. IndInv => ClaimIsExclusive
  BY DEF IndInv, ClaimInv
<1>2. QED
  BY <1>1, Invariance, PTL

(***************************************************************************)
(* RunTaskQueue and ForceStart never wait for each other.                  *)
(***************************************************************************)
THEOREM LocksAcyclic == Spec => []NoLockCycle
<1>1. IndInv => NoLockCycle
  BY DEF IndInv, ClaimInv, ClaimIsExclusive, ExecutorHoldsClaim, NoLockCycle
<1>2. QED
  BY <1>1, Invariance, PTL

(***************************************************************************)
(* A running task's token never asks it to stop.                           *)
(***************************************************************************)
THEOREM StopNeverReachesRun == Spec => []RunNeverAskedToStop
<1>1. IndInv => RunNeverAskedToStop
  BY DEF IndInv, ClaimInv, ClaimIsExclusive, RunNeverAskedToStop
<1>2. QED
  BY <1>1, Invariance, PTL
-------------------------------------------------------------------------------
(***************************************************************************)
(* The order of the queue.  SortedUpToBack in terms of indices, so that    *)
(* each operation is a statement about indices.                            *)
(***************************************************************************)
OrderedBelow(s, n) ==
    \A i, j \in 1 .. n : i < j => s[i].time <= s[j].time

LEMMA UpToBackByIndex ==
    ASSUME NEW s \in Seq(Unit)
    PROVE  IsSortedByTime(SubSeq(s, 1, Len(s) - 1))
               <=> OrderedBelow(s, Len(s) - 1)
<1> DEFINE r == SubSeq(s, 1, Len(s) - 1)
<1>1. Len(s) \in Nat
  BY LenProperties
<1>2. \A i \in 1 .. Len(s) - 1 : s[i] \in Unit
  BY ElementOfSeq, <1>1
<1>3. r \in Seq(Unit) /\ (\A i \in 1 .. Len(s) - 1 : r[i] = s[i])
      /\ Len(r) = (IF 1 <= Len(s) - 1 THEN Len(s) - 1 ELSE 0)
  BY <1>1, <1>2, SubSeqProperties
<1>4. DOMAIN r = 1 .. Len(s) - 1
  BY <1>1, <1>3, LenProperties
<1>5. IsSortedByTime(r) <=> OrderedBelow(s, Len(s) - 1)
  <2> HIDE DEF r
  <2>1. IsSortedByTime(r) <=>
            \A i, j \in 1 .. Len(s) - 1 : i < j => r[i].time <= r[j].time
    BY <1>4, Zenon DEF IsSortedByTime
  <2>2. \A i \in 1 .. Len(s) - 1 : r[i] = s[i]
    BY <1>3
  <2>3. QED
    BY <2>1, <2>2, Zenon DEF OrderedBelow
<1>6. QED
  BY <1>5

LEMMA StepSorted ==
    IndInv /\ SortedUpToBack /\ [Next]_vars => SortedUpToBack'
<1> SUFFICES ASSUME IndInv, SortedUpToBack, [Next]_vars PROVE SortedUpToBack'
  OBVIOUS
<1>1. queue \in Seq(Unit) /\ queue' \in Seq(Unit) /\ Len(queue) \in Nat
  BY StepIndInv, LenProperties DEF IndInv, TypeOK
<1>2. OrderedBelow(queue, Len(queue) - 1)
  BY <1>1, UpToBackByIndex DEF SortedUpToBack
<1>3. SUFFICES OrderedBelow(queue', Len(queue') - 1)
  BY <1>1, UpToBackByIndex DEF SortedUpToBack
<1>4. ASSUME NEW u \in Unit, queue' \in Inserted(u)
      PROVE  OrderedBelow(queue', Len(queue') - 1)
  <2>1. IsSortedByTime(queue')
    BY <1>1, <1>4, InsertedIsQueue
  <2>2. DOMAIN queue' = 1 .. Len(queue') /\ Len(queue') \in Nat
    BY <1>1, LenProperties
  <2>3. QED
    BY <2>1, <2>2 DEF IsSortedByTime, OrderedBelow
<1>5. CASE UNCHANGED queue
  BY <1>2, <1>5
<1>6. CASE ExecPop
  <2>1. /\ Len(queue) \in 1 .. Len(queue)
        /\ \A i \in 1 .. Len(queue) - 1 : queue[i] \in Unit
    <3>1. queue # <<>>
      BY <1>6 DEF ExecPop
    <3>2. Len(queue) # 0
      BY <1>1, <3>1, EmptySeq
    <3>3. QED
      BY <1>1, <3>2, ElementOfSeq
  <2>2. /\ Len(queue') = Len(queue) - 1
        /\ \A i \in 1 .. Len(queue) - 1 : queue'[i] = queue[i]
    <3>1. queue' = SubSeq(queue, 1, Len(queue) - 1)
      BY <1>6 DEF ExecPop, Popped, Front
    <3>2. Len(queue) - 1 \in Nat
      BY <1>1, <2>1
    <3>3. QED
      BY <2>1, <3>1, <3>2, PrefixIndices
  <2>3. SUFFICES ASSUME NEW i \in 1 .. Len(queue) - 2,
                        NEW j \in 1 .. Len(queue) - 2, i < j
                 PROVE  queue'[i].time <= queue'[j].time
    BY <1>1, <2>2 DEF OrderedBelow
  <2>4. i \in 1 .. Len(queue) - 1 /\ j \in 1 .. Len(queue) - 1
    BY <1>1
  <2>5. queue'[i] = queue[i] /\ queue'[j] = queue[j]
    BY <2>2, <2>4
  <2>6. QED
    BY <1>2, <2>3, <2>4, <2>5 DEF OrderedBelow
<1>7. CASE VmReAdd
  <2>1. inFlight \in Unit
    BY <1>7 DEF VmReAdd, IndInv, FlightInv, TypeOK
  <2>2. PICK t \in NextTimes :
            queue' \in Inserted([task |-> inFlight.task, time |-> t])
    BY <1>7 DEF VmReAdd
  <2>3. [task |-> inFlight.task, time |-> t] \in Unit
    BY <2>1 DEF Unit, NextTimes
  <2>4. QED
    BY <1>4, <2>2, <2>3
<1>8. ASSUME NEW c \in Clients, NEW k \in Tasks, AddTask(c, k)
      PROVE  OrderedBelow(queue', Len(queue') - 1)
  <2>1. PICK t \in NextTimes : queue' \in Inserted([task |-> k, time |-> t])
    BY <1>8 DEF AddTask
  <2>2. [task |-> k, time |-> t] \in Unit
    BY DEF Unit, NextTimes
  <2>3. QED
    BY <1>4, <2>1, <2>2
<1>9. ASSUME NEW c \in Clients, NEW k \in Tasks, RemoveTask(c, k)
      PROVE  OrderedBelow(queue', Len(queue') - 1)
  <2>1. PICK n \in 1 .. Len(queue) : queue' = RemoveAt(queue, n)
    BY <1>1, <1>9, LenProperties DEF RemoveTask
  <2>2. /\ Len(queue') = Len(queue) - 1
        /\ \A i \in 1 .. Len(queue) - 1 :
               queue'[i] = IF i < n THEN queue[i] ELSE queue[i + 1]
    BY <1>1, <2>1, RemoveAtIndices
  <2>3. SUFFICES ASSUME NEW i \in 1 .. Len(queue) - 2,
                        NEW j \in 1 .. Len(queue) - 2, i < j
                 PROVE  queue'[i].time <= queue'[j].time
    BY <1>1, <2>2 DEF OrderedBelow
  <2> DEFINE I == IF i < n THEN i ELSE i + 1
             J == IF j < n THEN j ELSE j + 1
  <2>4. I \in 1 .. Len(queue) - 1 /\ J \in 1 .. Len(queue) - 1 /\ I < J
    BY <1>1, <2>3
  <2>5. queue'[i] = queue[I] /\ queue'[j] = queue[J]
    BY <1>1, <2>2, <2>3
  <2>6. QED
    BY <1>2, <2>4, <2>5 DEF OrderedBelow
<1>10. ASSUME NEW c \in Clients, ForceStartBack(c)
       PROVE  OrderedBelow(queue', Len(queue') - 1)
  <2>1. /\ Len(queue') = Len(queue)
        /\ \A i \in 1 .. Len(queue) - 1 : queue'[i] = queue[i]
    BY <1>1, <1>10, LenProperties DEF ForceStartBack
  <2>2. QED
    BY <1>1, <1>2, <2>1 DEF OrderedBelow
<1>11. QED
  BY <1>5, <1>6, <1>7, <1>8, <1>9, <1>10
  DEF Next, Step, Dead, vars, ExecutorStep, VmStep, ClientStep,
      ForceStartRest, ExecPoll, ExecClaim, ExecNothingDue, ExecUnclaim,
      ExecDispatch, ExecHandOver, VmBegin, VmBeginWithoutConfig,
      VmDoReturns, VmDoEscapes, VmReAddFails, VmFinish, AddTaskWithoutTask,
      SetEnabled, UpdateEnvironmentConfig, RequestStop, ForceStart,
      ForceStartEmpty, Tick

(***************************************************************************)
(* All of the queue except its back is in order of time, whatever sequence *)
(* of AddTask, RemoveTask, ForceStart, pops and re-adds produced it.       *)
(***************************************************************************)
THEOREM QueueOrder == Spec => []SortedUpToBack
<1>1. Init => SortedUpToBack
  <2> SUFFICES ASSUME Init PROVE SortedUpToBack
    OBVIOUS
  <2>1. queue \in Seq(Unit) /\ Len(queue) = 0
    BY EmptySeq DEF Init
  <2>2. OrderedBelow(queue, Len(queue) - 1)
    BY <2>1 DEF OrderedBelow
  <2>3. QED
    BY <2>1, <2>2, UpToBackByIndex DEF SortedUpToBack
<1>2. QED
  BY <1>1, StepSorted, Invariance, PTL DEF Spec

-------------------------------------------------------------------------------
(***************************************************************************)
(* TaskScheduler implements TaskPool: every step of the threads is a step  *)
(* of the pool or changes nothing in it.                                   *)
(***************************************************************************)
\* The places of task k in a queue, and how many they are.
Places(s, k) == {i \in DOMAIN s : s[i].task = k}
Count(s, k) == Cardinality(Places(s, k))

-------------------------------------------------------------------------------
\* A queue has finitely many places.
LEMMA PlacesFinite ==
    ASSUME NEW s \in Seq(Unit), NEW k
    PROVE  /\ IsFiniteSet(Places(s, k)) /\ Count(s, k) \in Nat
           /\ \A i \in Places(s, k) : i \in 1 .. Len(s)
<1>1. Len(s) \in Nat /\ DOMAIN s = 1 .. Len(s)
  BY LenProperties
<1>2. IsFiniteSet(1 .. Len(s))
  BY <1>1, FS_Interval
<1>3. Places(s, k) \in SUBSET (1 .. Len(s))
  BY <1>1 DEF Places
<1>4. IsFiniteSet(Places(s, k))
  BY <1>2, <1>3, FS_Subset
<1>5. Cardinality(Places(s, k)) \in Nat
  BY <1>4, FS_CardinalityType
<1>6. QED
  BY <1>3, <1>4, <1>5 DEF Count

\* Sets in one-to-one correspondence have the same number of elements.
LEMMA SameCount ==
    ASSUME NEW S, NEW T, IsFiniteSet(T), NEW f \in [S -> T],
           \A a, b \in S : f[a] = f[b] => a = b,
           \A y \in T : \E x \in S : f[x] = y
    PROVE  Cardinality(S) = Cardinality(T)
<1>1. f \in Injection(S, T)
  BY DEF Injection, IsInjective
<1>2. f \in Surjection(S, T)
  BY DEF Surjection
<1>3. QED
  BY <1>1, <1>2, FS_Injection

\* One more unit at the back.
LEMMA CountAppend ==
    ASSUME NEW s \in Seq(Unit), NEW u \in Unit, NEW k
    PROVE  Count(Append(s, u), k) = IF u.task = k THEN Count(s, k) + 1 ELSE Count(s, k)
<1>1. PICK t : t = Append(s, u)
  OBVIOUS
<1>2. PICK n \in Nat : n = Len(s)
  BY LenProperties
<1>3. /\ t \in Seq(Unit) /\ Len(t) = n + 1 /\ t[n + 1] = u
      /\ \A i \in 1 .. n : t[i] = s[i]
  BY <1>1, <1>2, AppendProperties
<1>4. DOMAIN s = 1 .. n /\ DOMAIN t = 1 .. n + 1
  BY <1>2, <1>3, LenProperties
<1>5. Places(t, k) = IF u.task = k THEN Places(s, k) \cup {n + 1} ELSE Places(s, k)
  <2>1. \A i : i \in 1 .. n + 1 <=> i \in 1 .. n \/ i = n + 1
    OBVIOUS
  <2>2. \A i : i \in Places(t, k) <=>
              (i \in 1 .. n /\ s[i].task = k) \/ (i = n + 1 /\ u.task = k)
    BY <1>3, <1>4, <2>1 DEF Places
  <2>3. \A i : i \in Places(s, k) <=> i \in 1 .. n /\ s[i].task = k
    BY <1>4 DEF Places
  <2>4. QED
    BY <2>2, <2>3
<1>6. n + 1 \notin Places(s, k)
  BY <1>4 DEF Places
<1>7. IsFiniteSet(Places(s, k))
  BY PlacesFinite
<1>8. QED
  BY <1>1, <1>5, <1>6, <1>7, FS_AddElement DEF Count

\* A sort moves units, it neither loses nor doubles one.
LEMMA CountSorted ==
    ASSUME NEW s \in Seq(Unit), NEW t \in Sorted(s), NEW k
    PROVE  Count(t, k) = Count(s, k)
<1>1. PICK n \in Nat : n = Len(s) /\ DOMAIN s = 1 .. n
  BY LenProperties
<1> DEFINE D == 1 .. n
<1>2. PICK p \in Injection(D, D) : t = [i \in D |-> s[p[i]]]
  BY <1>1 DEF Sorted
<1>3. IsFiniteSet(D)
  BY FS_Interval
<1>4. p \in [D -> D] /\ \A a, b \in D : p[a] = p[b] => a = b
  BY <1>2 DEF Injection, IsInjective
<1>5. \A y \in D : \E x \in D : p[x] = y
  <2> HIDE DEF D
  <2>1. p \in Surjection(D, D)
    BY <1>2, <1>3, FS_Injection
  <2>2. QED
    BY <2>1 DEF Surjection
<1> DEFINE f == [i \in Places(t, k) |-> p[i]]
<1>6. DOMAIN t = D /\ \A i \in D : t[i] = s[p[i]]
  BY <1>2
<1> HIDE DEF D
<1>7. Places(t, k) = {i \in D : s[p[i]].task = k} /\ Places(s, k) = {i \in D : s[i].task = k}
  BY <1>1, <1>6 DEF Places, D
<1>8. f \in [Places(t, k) -> Places(s, k)]
  BY <1>4, <1>7
<1>9. \A a, b \in Places(t, k) : f[a] = f[b] => a = b
  BY <1>4, <1>7
<1>10. \A y \in Places(s, k) : \E x \in Places(t, k) : f[x] = y
  BY <1>4, <1>5, <1>7
<1>11. IsFiniteSet(Places(s, k))
  BY PlacesFinite
<1>12. QED
  <2> HIDE DEF f
  <2>1. QED
    BY <1>8, <1>9, <1>10, <1>11, SameCount DEF Count

\* What InternalAddTask leaves has one more unit of the task added.
LEMMA CountInserted ==
    ASSUME queue \in Seq(Unit), NEW u \in Unit, NEW t \in Inserted(u), NEW k
    PROVE  Count(t, k) = IF u.task = k THEN Count(queue, k) + 1 ELSE Count(queue, k)
<1>1. Append(queue, u) \in Seq(Unit) /\ t \in Sorted(Append(queue, u))
  BY DEF Inserted
<1>2. Count(t, k) = Count(Append(queue, u), k)
  BY <1>1, CountSorted
<1>3. QED
  BY <1>2, CountAppend

\* One unit less, wherever it was.
LEMMA CountRemoveAt ==
    ASSUME NEW s \in Seq(Unit), NEW n \in DOMAIN s, NEW k
    PROVE  Count(RemoveAt(s, n), k) =
               IF s[n].task = k THEN Count(s, k) - 1 ELSE Count(s, k)
<1>1. PICK m \in Nat : m = Len(s) /\ DOMAIN s = 1 .. m
  BY LenProperties
<1>2. PICK t : t = RemoveAt(s, n)
  OBVIOUS
<1>3. n \in 1 .. m
  BY <1>1
<1>4. /\ t \in Seq(Unit) /\ Len(t) = m - 1
      /\ \A i \in 1 .. m - 1 : t[i] = IF i < n THEN s[i] ELSE s[i + 1]
  BY <1>1, <1>2, RemoveAtIsQueue, RemoveAtIndices
<1>5. DOMAIN t = 1 .. m - 1
  BY <1>4, LenProperties
<1> DEFINE S == Places(t, k)
           T == Places(s, k) \ {n}
           f == [i \in S |-> IF i < n THEN i ELSE i + 1]
<1>6. /\ \A i : i \in S <=> i \in 1 .. m - 1
                           /\ (IF i < n THEN s[i] ELSE s[i + 1]).task = k
      /\ \A i : i \in T <=> i \in 1 .. m /\ s[i].task = k /\ i # n
  BY <1>1, <1>4, <1>5 DEF Places
<1> HIDE DEF S, T
<1>7. f \in [S -> T]
  <2>1. ASSUME NEW i \in S PROVE (IF i < n THEN i ELSE i + 1) \in T
    <3>1. i \in 1 .. m - 1 /\ (IF i < n THEN s[i] ELSE s[i + 1]).task = k
      BY <1>6
    <3>2. CASE i < n
      BY <1>3, <1>6, <3>1, <3>2
    <3>3. CASE ~(i < n)
      BY <1>3, <1>6, <3>1, <3>3
    <3>4. QED
      BY <3>2, <3>3
  <2>2. QED
    BY <2>1
<1>8. \A a, b \in S : f[a] = f[b] => a = b
  <2>1. \A a \in S : a \in Nat
    BY <1>6
  <2>2. QED
    BY <1>3, <2>1
<1>9. \A y \in T : \E x \in S : f[x] = y
  <2> SUFFICES ASSUME NEW y \in T PROVE \E x \in S : f[x] = y
    OBVIOUS
  <2>1. y \in 1 .. m /\ s[y].task = k /\ y # n
    BY <1>6
  <2>2. CASE y < n
    <3>1. y \in S
      BY <1>3, <1>6, <2>1, <2>2
    <3>2. QED
      BY <2>2, <3>1
  <2>3. CASE y > n
    <3>1. y - 1 \in 1 .. m - 1 /\ ~(y - 1 < n) /\ (y - 1) + 1 = y
      BY <1>3, <2>1, <2>3
    <3>2. y - 1 \in S
      BY <1>6, <2>1, <3>1
    <3>3. QED
      BY <3>1, <3>2
  <2>4. QED
    BY <1>3, <2>1, <2>2, <2>3
<1>10. IsFiniteSet(Places(s, k)) /\ IsFiniteSet(T)
  BY PlacesFinite, FS_RemoveElement DEF T
<1>11. Cardinality(S) = Cardinality(T)
  <2> HIDE DEF f
  <2>1. QED
    BY <1>7, <1>8, <1>9, <1>10, SameCount
<1>12. n \in Places(s, k) <=> s[n].task = k
  BY DEF Places
<1>13. QED
  BY <1>2, <1>10, <1>11, <1>12, FS_RemoveElement DEF Count, S, T

\* pop_back.
LEMMA CountPopped ==
    ASSUME NEW s \in Seq(Unit), s # <<>>, NEW k
    PROVE  /\ Last(s) \in Unit
           /\ Count(Popped(s), k) =
                IF Last(s).task = k THEN Count(s, k) - 1 ELSE Count(s, k)
<1>1. PICK m \in Nat : m = Len(s) /\ DOMAIN s = 1 .. m /\ m # 0
  BY LenProperties, EmptySeq
<1>2. m \in 1 .. m /\ Last(s) = s[m] /\ s[m] \in Unit
  BY <1>1, ElementOfSeq DEF Last
<1>3. PICK t : t = Popped(s)
  OBVIOUS
<1>4. t \in Seq(Unit) /\ Len(t) = m - 1 /\ \A i \in 1 .. m - 1 : t[i] = s[i]
  <2>1. t = SubSeq(s, 1, m - 1)
    BY <1>1, <1>3 DEF Popped, Front
  <2>2. \A i \in 1 .. m - 1 : s[i] \in Unit
    BY <1>1, ElementOfSeq
  <2>3. m - 1 \in Nat
    BY <1>1
  <2>4. t \in Seq(Unit)
    BY <2>1, <2>2, <2>3, SubSeqProperties
  <2>5. QED
    BY <2>1, <2>2, <2>3, <2>4, PrefixIndices
<1>5. DOMAIN t = 1 .. m - 1
  BY <1>4, LenProperties
<1>6. Places(t, k) = Places(s, k) \ {m}
  BY <1>1, <1>4, <1>5 DEF Places
<1>7. IsFiniteSet(Places(s, k)) /\ (m \in Places(s, k) <=> s[m].task = k)
  BY <1>1, <1>2, PlacesFinite DEF Places
<1>8. QED
  BY <1>2, <1>3, <1>6, <1>7, FS_RemoveElement DEF Count

-------------------------------------------------------------------------------
(***************************************************************************)
(* The mapping to the pool, and what a step does to it.                    *)
(***************************************************************************)
Waiting == [k \in Tasks |-> UnitsOf(k)]
Active == IF crashed \/ inFlight = None THEN None ELSE inFlight.task

LEMMA UnitsAreCounted == \A k : UnitsOf(k) = Count(queue, k)
  BY DEF UnitsOf, Count, Places

LEMMA UnitsAreCountedNext == \A k : UnitsOf(k)' = Count(queue', k)
  BY DEF UnitsOf, Count, Places

\* One more unit of a task, one less, or as many as before.
LEMMA MoreWaiting ==
    ASSUME NEW k \in Tasks,
           \A j \in Tasks : Count(queue', j) = IF k = j THEN Count(queue, j) + 1
                                               ELSE Count(queue, j)
    PROVE  Waiting' = [Waiting EXCEPT ![k] = @ + 1]
  BY UnitsAreCounted, UnitsAreCountedNext DEF Waiting

LEMMA LessWaiting ==
    ASSUME queue \in Seq(Unit), queue' \in Seq(Unit), NEW k \in Tasks,
           \A j \in Tasks : Count(queue', j) = IF k = j THEN Count(queue, j) - 1
                                               ELSE Count(queue, j)
    PROVE  Waiting' = [Waiting EXCEPT ![k] = @ - 1] /\ Waiting[k] > 0
<1>1. Waiting' = [Waiting EXCEPT ![k] = @ - 1]
  BY UnitsAreCounted, UnitsAreCountedNext DEF Waiting
<1>2. Count(queue, k) \in Nat /\ Count(queue', k) \in Nat
  BY PlacesFinite
<1>3. Count(queue, k) > 0
  BY <1>2
<1>4. QED
  BY <1>1, <1>3, UnitsAreCounted DEF Waiting

LEMMA SameWaiting ==
    ASSUME \A j \in Tasks : Count(queue', j) = Count(queue, j)
    PROVE  Waiting' = Waiting
  BY UnitsAreCounted, UnitsAreCountedNext DEF Waiting

\* A step of the pool, in terms of the mapping.
PoolStep ==
    \/ UNCHANGED <<Waiting, Active>>
    \/ \E k \in Tasks :
         \/ Waiting' = [Waiting EXCEPT ![k] = @ + 1] /\ Active' = Active
         \/ /\ Waiting[k] > 0
            /\ Waiting' = [Waiting EXCEPT ![k] = @ - 1] /\ Active' = Active
         \/ /\ Active = None /\ Waiting[k] > 0
            /\ Waiting' = [Waiting EXCEPT ![k] = @ - 1] /\ Active' = k
    \/ /\ Active # None
       /\ Waiting' = [Waiting EXCEPT ![Active] = @ + 1] /\ Active' = None
    \/ Active # None /\ Active' = None /\ Waiting' = Waiting

\* Most steps move neither a unit nor the run.
LEMMA Stutters ==
    ASSUME UNCHANGED <<queue, inFlight, crashed>>
    PROVE  PoolStep
<1>1. Waiting' = Waiting
  BY SameWaiting
<1>2. Active' = Active
  BY DEF Active
<1>3. QED
  BY <1>1, <1>2 DEF PoolStep

LEMMA ExecutorImplements ==
    ASSUME IndInv, ~crashed, ExecutorStep, queue' \in Seq(Unit)
    PROVE  PoolStep
<1>1. CASE ExecPoll \/ ExecClaim \/ ExecNothingDue \/ ExecUnclaim \/ ExecHandOver
  BY <1>1, Stutters DEF ExecPoll, ExecClaim, ExecNothingDue, ExecUnclaim, ExecHandOver
<1>2. CASE ExecPop
  <2>1. /\ pcE = "lockQueue" /\ queue # <<>> /\ queue \in Seq(Unit)
        /\ inFlight' = Last(queue) /\ queue' = Popped(queue) /\ crashed' = crashed
    BY <1>2 DEF ExecPop, Candidate, IndInv, TypeOK
  <2>2. PICK u \in Unit : u = Last(queue)
    BY <2>1, CountPopped
  <2>3. u.task \in Tasks /\ u # None
    BY <2>2, SchedulerAssumption DEF Unit
  <2>4. Active = None /\ Active' = u.task
    BY <2>1, <2>2, <2>3 DEF Active, IndInv, FlightInv, ClaimInv, ClaimIsExclusive,
       ExecutorHoldsClaim, VmHoldsClaim
  <2>5. \A j \in Tasks : Count(queue', j) = IF u.task = j THEN Count(queue, j) - 1
                                            ELSE Count(queue, j)
    BY <2>1, <2>2, CountPopped
  <2>6. Waiting' = [Waiting EXCEPT ![u.task] = @ - 1] /\ Waiting[u.task] > 0
    BY <2>1, <2>3, <2>5, LessWaiting
  <2>7. QED
    BY <2>3, <2>4, <2>6 DEF PoolStep
<1>3. CASE ExecDispatch
  <2>1. /\ pcE = "dispatch" /\ queue' = queue /\ inFlight' = None
        /\ crashed' = crashed
    BY <1>3 DEF ExecDispatch
  <2>2. Active # None /\ Active' = None
    BY <2>1, SchedulerAssumption DEF Active, IndInv, FlightInv, TypeOK, Unit
  <2>3. Waiting' = Waiting
    BY <2>1, SameWaiting
  <2>4. QED
    BY <2>2, <2>3 DEF PoolStep
<1>4. QED
  BY <1>1, <1>2, <1>3 DEF ExecutorStep

LEMMA VmImplements ==
    ASSUME IndInv, ~crashed, VmStep
    PROVE  PoolStep
<1>1. CASE VmBegin \/ VmDoReturns \/ VmFinish
  BY <1>1, Stutters DEF VmBegin, VmDoReturns, VmFinish
<1>2. pcV \in {"queued", "doing", "readd"} =>
        Active \in Tasks /\ Active = inFlight.task /\ Active # None
  BY SchedulerAssumption DEF Active, IndInv, FlightInv, TypeOK, Unit
<1>3. CASE VmBeginWithoutConfig \/ VmDoEscapes \/ VmReAddFails
  <2>1. /\ pcV \in {"queued", "doing", "readd"} /\ queue' = queue
        /\ crashed' = TRUE \/ inFlight' = None
    BY <1>3 DEF VmBeginWithoutConfig, VmDoEscapes, VmReAddFails
  <2>2. Waiting' = Waiting
    BY <2>1, SameWaiting
  <2>3. Active' = None
    BY <2>1 DEF Active
  <2>4. QED
    BY <1>2, <2>1, <2>2, <2>3 DEF PoolStep
<1>4. CASE VmReAdd
  <2>1. PICK t \in NextTimes : queue' \in Inserted([task |-> inFlight.task, time |-> t])
    BY <1>4 DEF VmReAdd
  <2>2. pcV = "readd" /\ inFlight' = None
    BY <1>4 DEF VmReAdd
  <2>3. PICK u \in Unit : u = [task |-> inFlight.task, time |-> t] /\ u.task = Active
    <3>1. t \in Times /\ inFlight.task \in Tasks /\ inFlight.task = Active
      BY <1>2, <2>2 DEF NextTimes
    <3>2. [task |-> inFlight.task, time |-> t] \in Unit
      BY <3>1 DEF Unit
    <3>3. [task |-> inFlight.task, time |-> t].task = Active
      BY <3>1
    <3>4. QED
      BY <3>2, <3>3
  <2>4. \A j \in Tasks : Count(queue', j) = IF Active = j THEN Count(queue, j) + 1
                                            ELSE Count(queue, j)
    BY <2>1, <2>3, CountInserted DEF IndInv, TypeOK
  <2>5. Waiting' = [Waiting EXCEPT ![Active] = @ + 1]
    BY <1>2, <2>2, <2>4, MoreWaiting
  <2>6. Active' = None
    BY <2>2 DEF Active
  <2>7. QED
    BY <1>2, <2>2, <2>5, <2>6 DEF PoolStep
<1>5. QED
  BY <1>1, <1>3, <1>4 DEF VmStep

LEMMA ClientImplements ==
    ASSUME IndInv, ~crashed, NEW c \in Clients, ClientStep(c), queue' \in Seq(Unit)
    PROVE  PoolStep
<1>0. queue \in Seq(Unit)
  BY DEF IndInv, TypeOK
<1>1. CASE (\E b \in BOOLEAN : SetEnabled(c, b)) \/ UpdateEnvironmentConfig(c)
             \/ RequestStop(c) \/ ForceStart(c) \/ ForceStartEmpty(c)
  BY <1>1, Stutters DEF SetEnabled, UpdateEnvironmentConfig, RequestStop, ForceStart,
     ForceStartEmpty
<1>2. ASSUME NEW k \in Tasks, AddTask(c, k) PROVE PoolStep
  <2>1. /\ inFlight' = inFlight /\ crashed' = crashed
        /\ \E t \in NextTimes : queue' \in Inserted([task |-> k, time |-> t])
    BY <1>2 DEF AddTask
  <2>2. PICK t \in NextTimes : queue' \in Inserted([task |-> k, time |-> t])
    BY <2>1
  <2>3. [task |-> k, time |-> t] \in Unit
    BY DEF Unit, NextTimes
  <2>4. \A j \in Tasks : Count(queue', j) = IF k = j THEN Count(queue, j) + 1
                                            ELSE Count(queue, j)
    BY <1>0, <2>2, <2>3, CountInserted
  <2>5. Waiting' = [Waiting EXCEPT ![k] = @ + 1]
    BY <2>4, MoreWaiting
  <2>6. Active' = Active
    BY <2>1 DEF Active
  <2>7. QED
    BY <2>5, <2>6 DEF PoolStep
<1>3. ASSUME NEW k \in Tasks, RemoveTask(c, k) PROVE PoolStep
  <2>1. /\ inFlight' = inFlight /\ crashed' = crashed
        /\ \E i \in DOMAIN queue : IsFirstOf(i, k) /\ queue' = RemoveAt(queue, i)
    BY <1>3 DEF RemoveTask
  <2>2. PICK i \in DOMAIN queue : queue[i].task = k /\ queue' = RemoveAt(queue, i)
    BY <2>1 DEF IsFirstOf
  <2>3. \A j \in Tasks : Count(queue', j) = IF k = j THEN Count(queue, j) - 1
                                            ELSE Count(queue, j)
    BY <1>0, <2>2, CountRemoveAt
  <2>4. Waiting' = [Waiting EXCEPT ![k] = @ - 1] /\ Waiting[k] > 0
    BY <1>0, <2>3, LessWaiting
  <2>5. Active' = Active
    BY <2>1 DEF Active
  <2>6. QED
    BY <2>4, <2>5 DEF PoolStep
<1>4. CASE ForceStartBack(c)
  <2>1. /\ inFlight' = inFlight /\ crashed' = crashed /\ queue # <<>>
        /\ queue' = [queue EXCEPT ![Len(queue)].time = now]
    BY <1>4 DEF ForceStartBack
  <2>2. DOMAIN queue' = DOMAIN queue
        /\ \A i \in DOMAIN queue : queue'[i].task = queue[i].task
    <3>1. PICK n : n = Len(queue)
      OBVIOUS
    <3>2. /\ queue' = [queue EXCEPT ![n].time = now]
          /\ \A i \in DOMAIN queue : queue[i] \in Unit
      BY <1>0, <2>1, <3>1, ElementOfSeq, LenProperties
    <3>3. QED
      BY <3>2 DEF Unit
  <2>3. \A j \in Tasks : Count(queue', j) = Count(queue, j)
    BY <2>2 DEF Count, Places
  <2>4. Waiting' = Waiting
    BY <2>3, SameWaiting
  <2>5. Active' = Active
    BY <2>1 DEF Active
  <2>6. QED
    BY <2>4, <2>5 DEF PoolStep
<1>5. CASE AddTaskWithoutTask(c)
  <2>1. queue' = queue /\ inFlight' = inFlight /\ crashed'
    BY <1>5 DEF AddTaskWithoutTask
  <2>2. Waiting' = Waiting /\ Active' = None
    BY <2>1, SameWaiting DEF Active
  <2>3. QED
    BY <2>2 DEF PoolStep
<1>6. QED
  BY <1>1, <1>2, <1>3, <1>4, <1>5 DEF ClientStep, ForceStartRest

LEMMA NextImplements == IndInv /\ [Next]_vars => PoolStep
<1> SUFFICES ASSUME IndInv, [Next]_vars PROVE PoolStep
  OBVIOUS
<1>1. queue' \in Seq(Unit)
  BY StepIndInv DEF IndInv, TypeOK
<1>2. CASE UNCHANGED vars \/ Dead
  BY <1>2, Stutters DEF vars, Dead
<1>3. CASE ~crashed /\ Tick
  BY <1>3, Stutters DEF Tick
<1>4. QED
  BY <1>1, <1>2, <1>3, ExecutorImplements, VmImplements, ClientImplements
     DEF Next, Step

\* Nothing waits at first.
LEMMA InitImplements == Init => Pool!Init
<1> SUFFICES ASSUME Init PROVE Pool!Init
  OBVIOUS
<1>1. queue = <<>> /\ inFlight = None
  BY DEF Init
<1>2. \A k : Count(queue, k) = 0
  <2>1. \A k : Places(queue, k) = {}
    BY <1>1 DEF Places
  <2>2. QED
    BY <2>1, FS_EmptySet DEF Count
<1>3. Waiting = [k \in Tasks |-> 0]
  BY <1>2, UnitsAreCounted DEF Waiting
<1>4. QED
  BY <1>1, <1>3 DEF Pool!Init, Waiting

\* What PoolStep says is a step of TaskPool under its mapping.
LEMMA PoolStepIsPools == PoolStep => [Pool!Next]_(Pool!poolVars)
  BY DEF PoolStep, Pool!Next, Pool!poolVars, Pool!Submit, Pool!Withdraw, Pool!Take,
     Pool!Return, Pool!Drop, Waiting, Active

\* However its threads interleave, the scheduler neither loses nor invents a
\* registration and runs one at a time: it implements TaskPool (TaskScheduler.cpp).
THEOREM SchedulerIsPool == Spec => PoolSpec
  BY InitImplements, NextImplements, PoolStepIsPools, Invariance, PTL
     DEF Spec, PoolSpec, Pool!Spec
===============================================================================
