---------------------------- MODULE ReferenceProofs ----------------------------
(***************************************************************************)
(* Proofs about the counts of references: the counter itself and its three *)
(* accesses, references that cross the language border, and the objects    *)
(* that tell of the plugins.  All of them for every set of threads and     *)
(* objects and for every bound.                                            *)
(***************************************************************************)
EXTENDS RefCounter, Interop, PluginInfo, FiniteSetTheorems, SequenceTheorems, TLAPS

-------------------------------------------------------------------------------
(***************************************************************************)
(* RefCounter.  The references threads hold as a set: its cardinality is   *)
(* the sum of held, and one reference more or less is one element.         *)
(***************************************************************************)
References == {r \in Threads \X Nat : 1 <= r[2] /\ r[2] <= held[r[1]]}

\* Before the first delete the counter is the number of references, and a
\* thread that has read a 0 has read it for good.
Balanced ==
    deletes = 0 =>
        /\ IsFiniteSet(References) /\ Cardinality(References) = count
        /\ \A t \in Threads : depth[t] = 0 /\ (pc[t] = "revive" => count = 0)

\* After it nobody holds a reference.
Abandoned == deletes > 0 => \A t \in Threads : held[t] = 0

\* While there was one delete, one thread at most is inside of it, and the
\* counter is 1 but for the reference its destructor makes.
OneDelete ==
    deletes = 1 =>
        /\ \A t \in Threads : depth[t] <= 1 /\ (depth[t] = 1 => pc[t] # "revive")
        /\ \A t, u \in Threads : depth[t] = 1 /\ depth[u] = 1 => t = u
        /\ count = IF \E t \in Threads : pc[t] = "dtorRelease" THEN 2 % Modulus ELSE 1

Inside == \A t \in Threads : pc[t] \in {"destroy", "dtorRelease"} => depth[t] > 0

CounterInv == CounterTypeOK /\ Balanced /\ Abandoned /\ OneDelete /\ Inside

\* What the counter's arithmetic comes to where it does not wrap.
LEMMA Arithmetic ==
    /\ 1 \in 0 .. Modulus - 1
    /\ count \in 0 .. Modulus - 1 => /\ Decremented \in 0 .. Modulus - 1
                                     /\ (count + 1) % Modulus \in 0 .. Modulus - 1
    /\ count \in 1 .. Modulus - 1 => Decremented = count - 1
    /\ count \in 0 .. Modulus - 2 => (count + 1) % Modulus = count + 1
    /\ ((2 % Modulus) + Modulus - 1) % Modulus = 1
<1>1. Modulus \in Nat /\ Modulus > 1
  BY RefCounterAssumption
<1>2. \A n \in Int : n % Modulus \in 0 .. Modulus - 1
  BY <1>1
<1>3. \A n \in 0 .. Modulus - 1 : (n + Modulus) % Modulus = n /\ n % Modulus = n
  BY <1>1
<1>4. ASSUME count \in 1 .. Modulus - 1 PROVE Decremented = count - 1
  <2>1. count - 1 \in 0 .. Modulus - 1 /\ count + Modulus - 1 = (count - 1) + Modulus
    BY <1>1, <1>4
  <2>2. QED
    BY <1>3, <2>1 DEF Decremented
<1>5. ((2 % Modulus) + Modulus - 1) % Modulus = 1
  <2>1. CASE Modulus = 2
    BY <2>1
  <2>2. CASE Modulus > 2
    <3>1. 2 % Modulus = 2 /\ 2 + Modulus - 1 = 1 + Modulus
      BY <1>1, <1>3, <2>2
    <3>2. QED
      BY <1>1, <1>3, <3>1
  <2>3. QED
    BY <1>1, <2>1, <2>2
<1>6. QED
  BY <1>1, <1>2, <1>3, <1>4, <1>5 DEF Decremented

LEMMA CounterInitInv == CounterInit => CounterInv
<1> SUFFICES ASSUME CounterInit PROVE CounterInv
  OBVIOUS
<1>1. CounterTypeOK
  BY Arithmetic DEF CounterInit, CounterTypeOK
<1>2. References = {<<Creator, 1>>}
  <2>1. \A r \in References : r = <<Creator, 1>>
    BY DEF References, CounterInit
  <2>2. <<Creator, 1>> \in References
    BY RefCounterAssumption DEF References, CounterInit
  <2>3. QED
    BY <2>1, <2>2
<1>3. IsFiniteSet(References) /\ Cardinality(References) = 1
  BY <1>2, FS_Singleton
<1>4. QED
  BY <1>1, <1>3 DEF CounterInit, CounterInv, Balanced, Abandoned, OneDelete, Inside

\* One reference more is one element more, and one less one less.
LEMMA OneMore ==
    ASSUME held \in [Threads -> Nat], NEW u \in Threads, IsFiniteSet(References),
           held' = [held EXCEPT ![u] = @ + 1]
    PROVE  IsFiniteSet(References') /\ Cardinality(References') = Cardinality(References) + 1
<1>1. PICK n \in Nat : n = held[u]
  OBVIOUS
<1>2. References' = References \cup {<<u, n + 1>>}
  <2>1. \A r \in Threads \X Nat :
          r \in References' <=> r \in References \/ r = <<u, n + 1>>
    BY <1>1 DEF References
  <2>2. <<u, n + 1>> \in Threads \X Nat
    BY <1>1
  <2>3. References \subseteq Threads \X Nat /\ References' \subseteq Threads \X Nat
    BY DEF References
  <2>4. QED
    BY <2>1, <2>2, <2>3
<1>3. <<u, n + 1>> \notin References
  BY <1>1 DEF References
<1>4. QED
  BY <1>2, <1>3, FS_AddElement

LEMMA OneLess ==
    ASSUME held \in [Threads -> Nat], NEW u \in Threads, IsFiniteSet(References),
           held[u] > 0, held' = [held EXCEPT ![u] = @ - 1]
    PROVE  /\ IsFiniteSet(References') /\ Cardinality(References) \in Nat \ {0}
           /\ Cardinality(References') = Cardinality(References) - 1
<1>1. PICK n \in Nat : n = held[u] /\ n > 0
  OBVIOUS
<1>2. <<u, n>> \in References
  BY <1>1 DEF References
<1>3. References' = References \ {<<u, n>>}
  <2>1. \A r \in Threads \X Nat :
          r \in References' <=> r \in References /\ r # <<u, n>>
    BY <1>1 DEF References
  <2>2. References \subseteq Threads \X Nat /\ References' \subseteq Threads \X Nat
    BY DEF References
  <2>3. QED
    BY <2>1, <2>2
<1>4. IsFiniteSet(References') /\ Cardinality(References') = Cardinality(References) - 1
  BY <1>2, <1>3, FS_RemoveElement
<1>5. Cardinality(References) \in Nat /\ Cardinality(References) # 0
  BY <1>2, FS_CardinalityType, FS_EmptySet
<1>6. QED
  BY <1>4, <1>5

\* Who counts no references finds nobody holding one.
LEMMA NobodyHolds ==
    ASSUME held \in [Threads -> Nat], IsFiniteSet(References), Cardinality(References) = 0
    PROVE  \A t \in Threads : held[t] = 0
<1>1. References = {}
  BY FS_EmptySet
<1>2. \A t \in Threads : held[t] > 0 => <<t, 1>> \in References
  BY DEF References
<1>3. QED
  BY <1>1, <1>2

\* Copies and drops of references, which delete nothing themselves.
LEMMA AddRefKeeps ==
    ASSUME CounterInv, NEW t \in Threads, NEW u \in Threads, AddRef(t, u)
    PROVE  CounterInv'
<1>1. /\ held[t] > 0 /\ count < MaxRefs /\ count' = (count + 1) % Modulus
      /\ held' = [held EXCEPT ![u] = @ + 1]
      /\ UNCHANGED <<pc, depth, reentered, deletes, freed>>
  BY DEF AddRef
<1>2. /\ held \in [Threads -> Nat] /\ count \in 0 .. Modulus - 1 /\ deletes \in Nat
  BY DEF CounterInv, CounterTypeOK
<1>3. CounterTypeOK'
  BY <1>1, <1>2, Arithmetic DEF CounterInv, CounterTypeOK
<1>4. deletes = 0
  BY <1>1, <1>2 DEF CounterInv, Abandoned
<1>5. count \in 0 .. Modulus - 2
  BY <1>1, <1>2, RefCounterAssumption
<1>6. IsFiniteSet(References) /\ Cardinality(References) = count
  BY <1>4 DEF CounterInv, Balanced
<1>7. IsFiniteSet(References') /\ Cardinality(References') = count'
  BY <1>1, <1>2, <1>5, <1>6, OneMore, Arithmetic
<1>8. count # 0
  BY <1>1, <1>2, <1>6, NobodyHolds
<1>9. QED
  BY <1>1, <1>3, <1>4, <1>7, <1>8
     DEF CounterInv, Balanced, Abandoned, OneDelete, Inside

LEMMA ReleaseKeeps ==
    ASSUME CounterInv, NEW t \in Threads, Release(t)
    PROVE  CounterInv'
<1>1. /\ pc[t] = "idle" /\ held[t] > 0 /\ count' = Decremented
      /\ held' = [held EXCEPT ![t] = @ - 1] /\ pc' = [pc EXCEPT ![t] = "test"]
      /\ UNCHANGED <<depth, reentered, deletes, freed>>
  BY DEF Release, Goto
<1>2. /\ held \in [Threads -> Nat] /\ count \in 0 .. Modulus - 1 /\ deletes \in Nat
      /\ DOMAIN pc = Threads
  BY DEF CounterInv, CounterTypeOK
<1>3. CounterTypeOK'
  <2>1. held' \in [Threads -> Nat]
    BY <1>1, <1>2
  <2>2. pc' \in [Threads -> {"idle", "test", "answer", "revive", "destroy", "dtorRelease"}]
    BY <1>1 DEF CounterInv, CounterTypeOK
  <2>3. QED
    BY <1>1, <1>2, <2>1, <2>2, Arithmetic DEF CounterInv, CounterTypeOK
<1>4. deletes = 0
  BY <1>1, <1>2 DEF CounterInv, Abandoned
<1>5. IsFiniteSet(References) /\ Cardinality(References) = count
  BY <1>4 DEF CounterInv, Balanced
<1>6. /\ IsFiniteSet(References') /\ Cardinality(References') = count - 1
      /\ count \in 1 .. Modulus - 1
  <2>1. /\ IsFiniteSet(References') /\ Cardinality(References) \in Nat \ {0}
        /\ Cardinality(References') = Cardinality(References) - 1
    BY <1>1, <1>2, <1>5, OneLess
  <2>2. QED
    BY <1>2, <1>5, <2>1, RefCounterAssumption
<1>7. count' = count - 1
  BY <1>1, <1>6, Arithmetic
<1>8. QED
  BY <1>1, <1>2, <1>3, <1>4, <1>6, <1>7
     DEF CounterInv, Balanced, Abandoned, OneDelete, Inside

-------------------------------------------------------------------------------
\* Inside Release nobody's references change.
LEMMA TestKeeps ==
    ASSUME CounterInv, NEW t \in Threads, Test(t) \/ Answer(t)
    PROVE  CounterInv'
<1>1. /\ UNCHANGED <<count, held, depth, reentered, deletes, freed>>
      /\ pc[t] \in {"test", "answer"}
      /\ \/ pc' = [pc EXCEPT ![t] = "revive"] /\ pc[t] = "test" /\ count = 0
         \/ pc' = [pc EXCEPT ![t] = "answer"] /\ pc[t] = "test"
         \/ pc' = [pc EXCEPT ![t] = "destroy"] /\ depth[t] > 0
         \/ pc' = [pc EXCEPT ![t] = "idle"]
  BY DEF Test, Answer, Goto
<1>2. References' = References
  BY <1>1 DEF References
<1>3. CounterTypeOK'
  BY <1>1 DEF CounterInv, CounterTypeOK
<1>4. DOMAIN pc = Threads /\ deletes \in Nat /\ depth \in [Threads -> Nat]
  BY DEF CounterInv, CounterTypeOK
<1>5. Balanced' /\ Abandoned' /\ Inside'
  BY <1>1, <1>2, <1>4 DEF CounterInv, Balanced, Abandoned, Inside
<1>6. OneDelete'
  <2>1. SUFFICES ASSUME deletes = 1 PROVE OneDelete'
    BY <1>1 DEF OneDelete
  <2>2. /\ \A u \in Threads : depth[u] <= 1 /\ (depth[u] = 1 => pc[u] # "revive")
        /\ \A u, v \in Threads : depth[u] = 1 /\ depth[v] = 1 => u = v
        /\ count = IF \E u \in Threads : pc[u] = "dtorRelease" THEN 2 % Modulus ELSE 1
    BY <2>1 DEF CounterInv, OneDelete
  <2>3. \A u \in Threads : pc'[u] = "dtorRelease" <=> pc[u] = "dtorRelease"
    BY <1>1, <1>4
  <2>4. depth[t] = 1 => \A u \in Threads : pc[u] # "dtorRelease"
    BY <1>1, <1>4, <2>2 DEF CounterInv, Inside
  <2>5. depth[t] = 1 => pc'[t] # "revive"
    BY <1>1, <1>4, <2>2, <2>4
  <2>6. QED
    BY <1>1, <1>4, <2>2, <2>3, <2>5 DEF OneDelete
<1>7. QED
  BY <1>3, <1>5, <1>6 DEF CounterInv

LEMMA ReviveKeeps ==
    ASSUME CounterInv, NEW t \in Threads, Revive(t)
    PROVE  CounterInv' /\ (deletes = 1 => depth[t] # 1)
<1>1. /\ pc[t] = "revive" /\ count' = 1 /\ deletes' = deletes + 1
      /\ depth' = [depth EXCEPT ![t] = @ + 1] /\ pc' = [pc EXCEPT ![t] = "destroy"]
      /\ UNCHANGED <<held, reentered, freed>>
  BY DEF Revive, Goto
<1>2. /\ DOMAIN pc = Threads /\ deletes \in Nat /\ depth \in [Threads -> Nat]
      /\ held \in [Threads -> Nat]
  BY DEF CounterInv, CounterTypeOK
<1>3. CounterTypeOK'
  BY <1>1, <1>2, Arithmetic DEF CounterInv, CounterTypeOK
<1>4. Abandoned'
  <2>1. CASE deletes = 0
    BY <1>1, <1>2, <2>1, NobodyHolds DEF CounterInv, Balanced, Abandoned
  <2>2. CASE deletes > 0
    BY <1>1, <2>2 DEF CounterInv, Abandoned
  <2>3. QED
    BY <1>2, <2>1, <2>2
<1>5. OneDelete'
  <2>1. SUFFICES ASSUME deletes = 0 PROVE OneDelete'
    BY <1>1, <1>2 DEF OneDelete
  <2>2. \A u \in Threads : depth[u] = 0
    BY <2>1 DEF CounterInv, Balanced
  <2>3. \A u \in Threads : depth'[u] = IF u = t THEN 1 ELSE 0
    BY <1>1, <1>2, <2>2
  <2>4. \A u \in Threads : pc'[u] # "dtorRelease" /\ (u = t => pc'[u] = "destroy")
    BY <1>1, <1>2, <2>2 DEF CounterInv, Inside
  <2>5. QED
    BY <1>1, <2>3, <2>4 DEF OneDelete
<1>6. Balanced' /\ Inside'
  BY <1>1, <1>2 DEF CounterInv, Balanced, Inside
<1>7. deletes = 1 => depth[t] # 1
  BY <1>1 DEF CounterInv, OneDelete
<1>8. QED
  BY <1>3, <1>4, <1>5, <1>6, <1>7 DEF CounterInv

LEMMA DestructorKeeps ==
    ASSUME CounterInv, NEW t \in Threads, DtorAddRef(t) \/ DtorRelease(t) \/ Free(t)
    PROVE  CounterInv' /\ \A u \in Threads : depth'[u] <= depth[u]
<1>1. /\ DOMAIN pc = Threads /\ deletes \in Nat /\ depth \in [Threads -> Nat]
      /\ count \in 0 .. Modulus - 1 /\ depth[t] > 0
  BY DEF CounterInv, CounterTypeOK, Inside, DtorAddRef, DtorRelease, Free
<1>2. deletes > 0
  BY <1>1 DEF CounterInv, Balanced
<1>3. held' = held /\ deletes' = deletes
  BY DEF DtorAddRef, DtorRelease, Free
<1>4. Balanced' /\ Abandoned'
  BY <1>1, <1>2, <1>3 DEF CounterInv, Balanced, Abandoned
<1>5. deletes = 1 =>
        /\ \A u \in Threads : depth[u] <= 1 /\ (depth[u] = 1 => pc[u] # "revive")
        /\ \A u, v \in Threads : depth[u] = 1 /\ depth[v] = 1 => u = v
        /\ count = IF \E u \in Threads : pc[u] = "dtorRelease" THEN 2 % Modulus ELSE 1
        /\ \A u \in Threads \ {t} : pc[u] # "dtorRelease"
  BY <1>1 DEF CounterInv, OneDelete, Inside
<1>6. CASE DtorAddRef(t)
  <2>1. /\ pc[t] = "destroy" /\ count' = (count + 1) % Modulus
        /\ pc' = [pc EXCEPT ![t] = "dtorRelease"] /\ UNCHANGED <<depth, freed>>
        /\ reentered' = [reentered EXCEPT ![t] = TRUE]
    BY <1>6 DEF DtorAddRef, Goto
  <2>2. CounterTypeOK'
    BY <1>1, <1>3, <2>1, Arithmetic DEF CounterInv, CounterTypeOK
  <2>3. OneDelete'
    BY <1>1, <1>3, <1>5, <2>1 DEF OneDelete
  <2>4. Inside'
    BY <1>1, <2>1 DEF CounterInv, Inside
  <2>5. QED
    BY <1>1, <1>4, <2>1, <2>2, <2>3, <2>4 DEF CounterInv
<1>7. CASE DtorRelease(t)
  <2>1. /\ pc[t] = "dtorRelease" /\ count' = Decremented
        /\ pc' = [pc EXCEPT ![t] = "test"] /\ UNCHANGED <<depth, freed, reentered>>
    BY <1>7 DEF DtorRelease, Goto
  <2>2. CounterTypeOK'
    BY <1>1, <1>3, <2>1, Arithmetic DEF CounterInv, CounterTypeOK
  <2>3. deletes = 1 => count' = 1
    BY <1>5, <2>1, Arithmetic DEF Decremented
  <2>4. OneDelete'
    BY <1>1, <1>3, <1>5, <2>1, <2>3 DEF OneDelete
  <2>5. Inside'
    BY <1>1, <2>1 DEF CounterInv, Inside
  <2>6. QED
    BY <1>1, <1>4, <2>1, <2>2, <2>4, <2>5 DEF CounterInv
<1>8. CASE Free(t)
  <2>1. /\ pc[t] = "destroy" /\ count' = count /\ reentered' = reentered
        /\ freed' = TRUE /\ depth' = [depth EXCEPT ![t] = @ - 1]
        /\ pc' = [pc EXCEPT ![t] = IF depth[t] > 1 THEN "destroy" ELSE "idle"]
    BY <1>8 DEF Free, Goto
  <2>2. depth' \in [Threads -> Nat] /\ \A u \in Threads : depth'[u] <= depth[u]
    BY <1>1, <2>1
  <2>3. CounterTypeOK'
    BY <1>1, <1>3, <2>1, <2>2 DEF CounterInv, CounterTypeOK
  <2>4. OneDelete'
    BY <1>1, <1>3, <1>5, <2>1 DEF OneDelete
  <2>5. Inside'
    BY <1>1, <2>1 DEF CounterInv, Inside
  <2>6. QED
    BY <1>4, <2>2, <2>3, <2>4, <2>5 DEF CounterInv
<1>9. QED
  BY <1>6, <1>7, <1>8

-------------------------------------------------------------------------------
LEMMA CounterStep ==
    CounterInv /\ [CounterNext]_counterVars =>
        /\ CounterInv'
        /\ [\A t \in Threads : depth[t] = 1 /\ deletes = 1 => depth'[t] <= 1]_counterVars
<1> SUFFICES ASSUME CounterInv, [CounterNext]_counterVars
             PROVE  /\ CounterInv'
                    /\ \A t \in Threads :
                         depth[t] = 1 /\ deletes = 1 => depth'[t] <= 1
  OBVIOUS
<1>0. depth \in [Threads -> Nat]
  BY DEF CounterInv, CounterTypeOK
<1>1. CASE UNCHANGED counterVars
  BY <1>0, <1>1 DEF counterVars, CounterInv, CounterTypeOK, Balanced, References,
     Abandoned, OneDelete, Inside
<1>2. ASSUME NEW t \in Threads, NEW u \in Threads, AddRef(t, u)
      PROVE  CounterInv' /\ depth' = depth
  BY <1>2, AddRefKeeps DEF AddRef
<1>3. ASSUME NEW t \in Threads, Release(t) PROVE CounterInv' /\ depth' = depth
  BY <1>3, ReleaseKeeps DEF Release
<1>4. ASSUME NEW t \in Threads, InRelease(t)
      PROVE  /\ CounterInv'
             /\ \A u \in Threads : depth[u] = 1 /\ deletes = 1 => depth'[u] <= 1
  <2>1. CASE Test(t) \/ Answer(t)
    <3>1. CounterInv' /\ depth' = depth
      BY <2>1, TestKeeps DEF Test, Answer
    <3>2. QED
      BY <1>0, <3>1
  <2>2. CASE Revive(t)
    <3>1. CounterInv' /\ (deletes = 1 => depth[t] # 1)
      BY <2>2, ReviveKeeps
    <3>2. depth' = [depth EXCEPT ![t] = @ + 1]
      BY <2>2 DEF Revive
    <3>3. QED
      BY <1>0, <3>1, <3>2
  <2>3. CASE DtorAddRef(t) \/ DtorRelease(t) \/ Free(t)
    <3>1. CounterInv' /\ \A u \in Threads : depth'[u] <= depth[u]
      BY <2>3, DestructorKeeps
    <3>2. depth' \in [Threads -> Nat]
      BY <3>1 DEF CounterInv, CounterTypeOK
    <3>3. QED
      BY <1>0, <3>1, <3>2
  <2>4. QED
    BY <1>4, <2>1, <2>2, <2>3 DEF InRelease
<1>5. CASE Done
  BY <1>1, <1>5 DEF Done
<1>6. QED
  BY <1>0, <1>1, <1>2, <1>3, <1>4, <1>5 DEF CounterNext

LEMMA CounterAlways == CounterSpec => []CounterInv
  BY CounterInitInv, CounterStep, PTL DEF CounterSpec

\* The counter stays a counter of its width and every thread inside of its
\* accesses where it is one (RefCounter, CommonUtils.hpp).
THEOREM CounterTypeCorrect == CounterSpec => []CounterTypeOK
<1>1. CounterInv => CounterTypeOK
  BY DEF CounterInv
<1>2. QED
  BY <1>1, CounterAlways, PTL

LEMMA AbandonedIsKept == CounterInv => ReferencedNotDestroyed
  BY DEF CounterInv, CounterTypeOK, Abandoned, ReferencedNotDestroyed

\* An object that somebody refers to is not being destroyed, for any number of
\* threads whose Releases interleave access by access (RefCounter::Release).
THEOREM ReferencedStays == CounterSpec => []ReferencedNotDestroyed
  BY AbandonedIsKept, CounterAlways, PTL

\* The references a destructor makes and drops do not delete the object again,
\* whoever else is inside of Release (the store of 1 in RefCounter::Release).
THEOREM DestructorDeletesOnce == CounterSpec => DtorDoesNotDelete
  BY CounterInitInv, CounterStep, PTL DEF CounterSpec, DtorDoesNotDelete

-------------------------------------------------------------------------------
(***************************************************************************)
(* PluginInfo.  An object counts at least the references users hold, since *)
(* its counter never goes down: the bound of the one bounds the other.     *)
(***************************************************************************)
Lasting == {c \in Counted : c.holds <= c.counter}
LastingVector == [self : Lasting, infos : [Listed -> Lasting]]

InfoInv ==
    /\ infoVectors \in Seq(LastingVector) /\ Len(infoVectors) <= MaxVectors
    /\ nullRead \in BOOLEAN

LEMMA LastingIsTyped == InfoInv => InfoTypeOK
<1>1. LastingVector \subseteq InfoVector
  BY DEF LastingVector, InfoVector, Lasting
<1>2. QED
  BY <1>1, SeqMonotonic DEF InfoInv, InfoTypeOK

\* What becomes of an object that is counted or let go.
LEMMA StaysLasting ==
    ASSUME NEW c \in Lasting, c.counter < MaxUses
    PROVE  Taken(c) \in Lasting /\ (c.holds > 0 => LetGo(c) \in Lasting)
<1>1. /\ c \in Counted /\ MaxUses \in Nat
      /\ c.counter \in 0 .. MaxUses /\ c.holds \in 0 .. MaxUses /\ c.holds <= c.counter
  BY PluginInfoAssumption DEF Lasting, Counted
<1>2. DEFINE n == c.counter + 1 h == c.holds + 1 l == c.holds - 1
<1>3. /\ n \in 0 .. MaxUses /\ h \in 0 .. MaxUses /\ h <= n
      /\ c.holds > 0 => l \in 0 .. MaxUses /\ l <= n
  BY <1>1
<1> HIDE DEF n, h, l
<1>4. Taken(c) \in Lasting
  <2>1. Taken(c) = [c EXCEPT !.counter = n, !.holds = h]
    BY DEF Taken, n, h
  <2>2. Taken(c) \in Counted /\ Taken(c).counter = n /\ Taken(c).holds = h
    BY <1>1, <1>3, <2>1 DEF Counted
  <2>3. QED
    BY <1>3, <2>2 DEF Lasting
<1>5. ASSUME c.holds > 0 PROVE LetGo(c) \in Lasting
  <2>1. LetGo(c) = [c EXCEPT !.counter = n, !.holds = l]
    BY DEF LetGo, n, l
  <2>2. LetGo(c) \in Counted /\ LetGo(c).counter = n /\ LetGo(c).holds = l
    BY <1>1, <1>3, <1>5, <2>1 DEF Counted
  <2>3. QED
    BY <1>3, <1>5, <2>2 DEF Lasting
<1>6. QED
  BY <1>4, <1>5

\* One vector changed, in itself or in one of its objects.
LEMMA OneVector ==
    ASSUME InfoInv, NEW v \in DOMAIN infoVectors
    PROVE  /\ infoVectors[v] \in LastingVector
           /\ infoVectors[v].self \in Lasting /\ infoVectors[v].infos \in [Listed -> Lasting]
           /\ \A w \in LastingVector :
                /\ [infoVectors EXCEPT ![v] = w] \in Seq(LastingVector)
                /\ Len([infoVectors EXCEPT ![v] = w]) = Len(infoVectors)
<1>1. v \in 1 .. Len(infoVectors)
  BY LenProperties DEF InfoInv
<1>2. infoVectors[v] \in LastingVector
  BY <1>1, ElementOfSeq DEF InfoInv
<1>3. QED
  BY <1>1, <1>2, ExceptSeq DEF InfoInv, LastingVector

LEMMA OneInfo ==
    ASSUME InfoInv, NEW v \in DOMAIN infoVectors, NEW p \in Listed, NEW c \in Lasting,
           infoVectors' = [infoVectors EXCEPT ![v].infos[p] = c], UNCHANGED nullRead
    PROVE  InfoInv'
<1>1. PICK w : w = [infoVectors[v] EXCEPT !.infos[p] = c]
  OBVIOUS
<1>2. /\ infoVectors[v] = [self |-> infoVectors[v].self, infos |-> infoVectors[v].infos]
      /\ infoVectors[v].self \in Lasting /\ infoVectors[v].infos \in [Listed -> Lasting]
  BY OneVector DEF LastingVector
<1>3. w = [self |-> infoVectors[v].self, infos |-> [infoVectors[v].infos EXCEPT ![p] = c]]
  BY <1>1, <1>2
<1>4. w \in LastingVector
  BY <1>2, <1>3 DEF LastingVector
<1>5. infoVectors' = [infoVectors EXCEPT ![v] = w]
  BY <1>1
<1>6. infoVectors' \in Seq(LastingVector) /\ Len(infoVectors') = Len(infoVectors)
  BY <1>4, <1>5, OneVector DEF InfoInv
<1>7. QED
  BY <1>6 DEF InfoInv

LEMMA OneSelf ==
    ASSUME InfoInv, NEW v \in DOMAIN infoVectors, NEW c \in Lasting,
           infoVectors' = [infoVectors EXCEPT ![v].self = c], UNCHANGED nullRead
    PROVE  InfoInv'
<1>1. PICK w : w = [infoVectors[v] EXCEPT !.self = c]
  OBVIOUS
<1>2. /\ infoVectors[v] = [self |-> infoVectors[v].self, infos |-> infoVectors[v].infos]
      /\ infoVectors[v].infos \in [Listed -> Lasting]
  BY OneVector DEF LastingVector
<1>3. w \in LastingVector
  BY <1>1, <1>2 DEF LastingVector
<1>4. infoVectors' = [infoVectors EXCEPT ![v] = w]
  BY <1>1
<1>5. QED
  BY <1>3, <1>4, OneVector DEF InfoInv

LEMMA InfoInitInv == InfoInit => InfoInv
<1> SUFFICES ASSUME InfoInit PROVE InfoInv
  OBVIOUS
<1>1. infoVectors \in Seq(LastingVector) /\ Len(infoVectors) = 0
  BY DEF InfoInit
<1>2. 0 <= MaxVectors
  BY PluginInfoAssumption
<1>3. nullRead \in BOOLEAN
  BY DEF InfoInit
<1>4. QED
  BY <1>1, <1>2, <1>3 DEF InfoInv

LEMMA GetAllKeeps ==
    ASSUME InfoInv, GetAllPluginInfo PROVE InfoInv'
<1> DEFINE self == [counter |-> 1, holds |-> 1]
           infos == [p \in Listed |-> NewInfo(p)]
<1>1. 0 \in 0 .. MaxUses /\ 1 \in 0 .. MaxUses
  BY PluginInfoAssumption DEF GetAllPluginInfo
<1>2. self \in Lasting /\ infos \in [Listed -> Lasting]
  BY <1>1 DEF Lasting, Counted, NewInfo
<1>3. [self |-> self, infos |-> infos] \in LastingVector
  BY <1>2 DEF LastingVector
<1>4. /\ infoVectors' = Append(infoVectors, [self |-> self, infos |-> infos])
      /\ Len(infoVectors) < MaxVectors /\ nullRead' = nullRead
  BY DEF GetAllPluginInfo
<1> HIDE DEF self, infos
<1>5. /\ infoVectors' \in Seq(LastingVector)
      /\ Len(infoVectors') = Len(infoVectors) + 1
  BY <1>3, <1>4, AppendProperties DEF InfoInv
<1>6. QED
  BY <1>4, <1>5, PluginInfoAssumption, LenProperties DEF InfoInv

LEMMA InfoStep == InfoInv /\ [InfoNext]_infoVars => InfoInv'
<1> SUFFICES ASSUME InfoInv, [InfoNext]_infoVars PROVE InfoInv'
  OBVIOUS
<1>1. CASE UNCHANGED infoVars
  BY <1>1 DEF infoVars, InfoInv
<1>2. CASE GetAllPluginInfo
  BY <1>2, GetAllKeeps
<1>3. ASSUME NEW v \in Handed, TakeVector(v) \/ ReleaseVector(v) PROVE InfoInv'
  <2>1. v \in DOMAIN infoVectors /\ infoVectors[v].self \in Lasting
    BY <1>3, OneVector DEF Handed
  <2>2. CASE TakeVector(v)
    <3>1. /\ infoVectors' = [infoVectors EXCEPT ![v].self = Taken(infoVectors[v].self)]
          /\ infoVectors[v].self.counter < MaxUses /\ UNCHANGED nullRead
      BY <2>2 DEF TakeVector, InUse
    <3>2. Taken(infoVectors[v].self) \in Lasting
      BY <2>1, <3>1, StaysLasting
    <3>3. QED
      BY <2>1, <3>1, <3>2, OneSelf
  <2>3. CASE ReleaseVector(v)
    <3>1. /\ infoVectors' = [infoVectors EXCEPT ![v].self = LetGo(infoVectors[v].self)]
          /\ infoVectors[v].self.holds > 0 /\ infoVectors[v].self.counter < MaxUses
          /\ UNCHANGED nullRead
      BY <2>3 DEF ReleaseVector, InUse
    <3>2. LetGo(infoVectors[v].self) \in Lasting
      BY <2>1, <3>1, StaysLasting
    <3>3. QED
      BY <2>1, <3>1, <3>2, OneSelf
  <2>4. QED
    BY <1>3, <2>2, <2>3
<1>4. ASSUME NEW v \in Handed, NEW p \in Listed,
             At(v, p) \/ TakeInfo(v, p) \/ ReleaseInfo(v, p) \/ ReadDescriptor(v, p)
      PROVE  InfoInv'
  <2> DEFINE info == infoVectors[v].infos[p]
  <2>1. v \in DOMAIN infoVectors /\ info \in Lasting
    BY <1>4, OneVector DEF Handed
  <2>2. CASE At(v, p) \/ TakeInfo(v, p)
    <3>1. /\ infoVectors' = [infoVectors EXCEPT ![v].infos[p] = Taken(info)]
          /\ info.counter < MaxUses /\ UNCHANGED nullRead
      BY <2>2 DEF At, TakeInfo, InUse
    <3>2. Taken(info) \in Lasting
      BY <2>1, <3>1, StaysLasting
    <3>3. QED
      BY <2>1, <3>1, <3>2, OneInfo
  <2>3. CASE ReleaseInfo(v, p)
    <3>1. /\ infoVectors' = [infoVectors EXCEPT ![v].infos[p] = LetGo(info)]
          /\ info.counter < MaxUses /\ info.holds > 0 /\ UNCHANGED nullRead
      BY <2>3 DEF ReleaseInfo, InUse
    <3>2. LetGo(info) \in Lasting
      BY <2>1, <3>1, StaysLasting
    <3>3. QED
      BY <2>1, <3>1, <3>2, OneInfo
  <2>4. CASE ReadDescriptor(v, p)
    BY <2>4 DEF ReadDescriptor, InfoInv
  <2>5. QED
    BY <1>4, <2>2, <2>3, <2>4
<1>5. QED
  BY <1>1, <1>2, <1>3, <1>4 DEF InfoNext

LEMMA InfoAlways == InfoSpec => []InfoInv
  BY InfoInitInv, InfoStep, PTL DEF InfoSpec

\* Vectors, their objects, counters and references keep their types.
THEOREM InfoTypeCorrect == InfoSpec => []InfoTypeOK
  BY LastingIsTyped, InfoAlways, PTL

-------------------------------------------------------------------------------
(***************************************************************************)
(* Interop.  No object is deleted under a reference that is in use, but    *)
(* for the foreign ones with the interfaces of both sides.                 *)
(***************************************************************************)
\* The objects for which PassOn does not hand out a reference uncounted.
Sound == Objects \ (Foreign \cap Dual)

\* While an object lives it is counted, and at least once for every user;
\* once it is deleted nobody uses it.
CountInv ==
    /\ \A o \in Objects : Alive(o) => counted[o] >= 1
    /\ \A o \in Sound : IF Alive(o) THEN counted[o] >= owned[o] ELSE owned[o] = 0

InteropInv == InteropTypeOK /\ CountInv

-------------------------------------------------------------------------------
LEMMA InteropInitInv == InteropInit => InteropInv
  BY DEF InteropInit, InteropInv, InteropTypeOK, CountInv, Alive, Sound

\* What the types say of each variable.
LEMMA InteropTypes ==
    InteropTypeOK <=> /\ counted \in [Objects -> Nat] /\ owned \in [Objects -> Nat]
                      /\ wrapped \in [Objects -> Nat] /\ deleted \subseteq Objects
  BY DEF InteropTypeOK

\* A function on objects moved at one of them.
LEMMA AddAt ==
    ASSUME NEW f \in [Objects -> Nat], NEW o \in Objects, NEW n \in Nat
    PROVE  /\ Add(f, o, n) \in [Objects -> Nat]
           /\ Add(f, o, n)[o] = f[o] + n
           /\ \A p \in Objects \ {o} : Add(f, o, n)[p] = f[p]
  BY DEF Add

\* A reference handed out and counted, or handed out of an unsound object.
LEMMA HandOutKeeps ==
    ASSUME InteropInv, NEW o \in Objects, Held(o), NEW n \in Nat, NEW w \in Nat,
           n >= 1 \/ o \notin Sound, HandOut(o, n, w)
    PROVE  InteropInv'
<1>1. /\ counted' = Add(counted, o, n) /\ owned' = Add(owned, o, 1)
      /\ wrapped' = Add(wrapped, o, w) /\ deleted' = deleted
  BY DEF HandOut
<1>2. /\ counted \in [Objects -> Nat] /\ owned \in [Objects -> Nat]
      /\ wrapped \in [Objects -> Nat] /\ deleted \subseteq Objects
  BY InteropTypes DEF InteropInv
<1>3. /\ counted' \in [Objects -> Nat] /\ owned' \in [Objects -> Nat]
      /\ wrapped' \in [Objects -> Nat] /\ deleted' \subseteq Objects
  BY <1>1, <1>2, AddAt
<1>4. /\ counted'[o] = counted[o] + n /\ owned'[o] = owned[o] + 1
      /\ \A p \in Objects \ {o} : counted'[p] = counted[p] /\ owned'[p] = owned[p]
  <2>1. owned'[o] = owned[o] + 1 /\ \A p \in Objects \ {o} : owned'[p] = owned[p]
    <3>1. 1 \in Nat /\ owned \in [Objects -> Nat] /\ owned' = Add(owned, o, 1)
      BY <1>1, <1>2
    <3>2. QED
      BY <3>1 DEF Add
  <2>2. counted'[o] = counted[o] + n /\ \A p \in Objects \ {o} : counted'[p] = counted[p]
    BY <1>1, <1>2, AddAt
  <2>3. QED
    BY <2>1, <2>2
<1>5. CountInv'
  BY <1>1, <1>2, <1>4 DEF InteropInv, CountInv, Alive, Held, Sound
<1>6. InteropTypeOK'
  BY <1>3 DEF InteropTypeOK
<1>7. QED
  BY <1>5, <1>6 DEF InteropInv

\* A result's reference that becomes the caller's: only counters go up.
LEMMA ForwardedKeeps ==
    ASSUME InteropInv, NEW o \in Objects, NEW n \in Nat, NEW w \in Nat,
           Forwarded(o, n, w)
    PROVE  InteropInv'
<1>1. /\ counted' = Add(counted, o, n) /\ owned' = owned
      /\ wrapped' = Add(wrapped, o, w) /\ deleted' = deleted
  BY DEF Forwarded
<1>2. /\ counted \in [Objects -> Nat] /\ owned \in [Objects -> Nat]
      /\ wrapped \in [Objects -> Nat] /\ deleted \subseteq Objects
  BY InteropTypes DEF InteropInv
<1>3. InteropTypeOK'
  <2>1. /\ counted' \in [Objects -> Nat] /\ owned' \in [Objects -> Nat]
        /\ wrapped' \in [Objects -> Nat] /\ deleted' \subseteq Objects
    BY <1>1, <1>2, AddAt
  <2>2. QED
    BY <2>1 DEF InteropTypeOK
<1>4. \A p \in Objects : counted'[p] >= counted[p]
  <2>1. counted'[o] = counted[o] + n /\ \A p \in Objects \ {o} : counted'[p] = counted[p]
    BY <1>1, <1>2, AddAt
  <2>2. QED
    BY <1>2, <2>1
<1>5. CountInv'
  <2>1. \A p \in Objects : counted[p] \in Nat /\ counted'[p] \in Nat /\ owned[p] \in Nat
    <3>1. counted' \in [Objects -> Nat]
      BY <1>1, <1>2, AddAt
    <3>2. QED
      BY <1>2, <3>1
  <2>2. QED
    BY <1>1, <1>4, <2>1 DEF InteropInv, CountInv, Alive, Sound
<1>6. QED
  BY <1>3, <1>5 DEF InteropInv

\* The last count is the last user's, if every user is counted.
LEMMA DropKeeps ==
    ASSUME InteropInv, NEW o \in Objects, Drop(o)
    PROVE  InteropInv'
<1>1. /\ counted \in [Objects -> Nat] /\ owned \in [Objects -> Nat]
      /\ wrapped \in [Objects -> Nat] /\ deleted \subseteq Objects
  BY InteropTypes DEF InteropInv
<1>2. o \notin deleted /\ owned[o] > 0 /\ counted[o] >= 1
  BY DEF InteropInv, CountInv, Drop, Held, Alive
<1>3. /\ counted' = [counted EXCEPT ![o] = @ - 1]
      /\ owned' = [owned EXCEPT ![o] = @ - 1]
      /\ deleted' = IF counted[o] = 1 THEN deleted \cup {o} ELSE deleted
      /\ wrapped' = wrapped
  BY DEF Drop
<1>4. counted[o] - 1 \in Nat /\ owned[o] - 1 \in Nat
  BY <1>1, <1>2
<1>5. InteropTypeOK'
  <2>1. /\ counted' \in [Objects -> Nat] /\ owned' \in [Objects -> Nat]
        /\ wrapped' \in [Objects -> Nat] /\ deleted' \subseteq Objects
    BY <1>1, <1>3, <1>4
  <2>2. QED
    BY <2>1 DEF InteropTypeOK
<1>6. /\ counted'[o] = counted[o] - 1 /\ owned'[o] = owned[o] - 1
      /\ \A p \in Objects \ {o} : counted'[p] = counted[p] /\ owned'[p] = owned[p]
  BY <1>1, <1>3
<1>7. CountInv'
  BY <1>1, <1>2, <1>3, <1>6 DEF InteropInv, CountInv, Alive, Sound
<1>8. QED
  BY <1>5, <1>7 DEF InteropInv

LEMMA WrapResultKeeps ==
    ASSUME InteropInv, NEW o \in Objects, WrapResult(o)
    PROVE  InteropInv'
<1>1. /\ wrapped' = Add(wrapped, o, 1)
      /\ counted' = counted /\ owned' = owned /\ deleted' = deleted
  BY DEF WrapResult
<1>2. InteropTypeOK'
  <2>1. /\ counted \in [Objects -> Nat] /\ owned \in [Objects -> Nat]
        /\ wrapped \in [Objects -> Nat] /\ deleted \subseteq Objects
    BY InteropTypes DEF InteropInv
  <2>2. wrapped' \in [Objects -> Nat]
    BY <1>1, <2>1, AddAt, 1 \in Nat
  <2>3. QED
    BY <1>1, <2>1, <2>2 DEF InteropTypeOK
<1>3. QED
  BY <1>1, <1>2 DEF InteropInv, CountInv, Alive

\* Every step keeps the invariant: one case for each way to cross the border.
LEMMA InteropStep == InteropInv /\ [InteropNext]_interopVars => InteropInv'
<1> SUFFICES ASSUME InteropInv, [InteropNext]_interopVars PROVE InteropInv'
  OBVIOUS
<1>1. CASE UNCHANGED interopVars
  BY <1>1 DEF interopVars, InteropInv, InteropTypeOK, CountInv, Alive
<1>2. CASE InteropNext
  <2>1. PICK o \in Objects :
            \/ Copy(o) \/ Drop(o) \/ As(o) \/ Wrap(o) \/ Unwrap(o)
            \/ AskWrapper(o) \/ PassOn(o) \/ AskSubclass(o) \/ WrapResult(o)
            \/ DispatchForeign(o) \/ DispatchNative(o)
            \/ CallCppMethod(o) \/ CallSwigMethod(o) \/ QueryErrorLensFrom(o)
            \/ ToConstForeign(o) \/ ToConstNative(o)
            \/ CreateForeignInput(o) \/ CreateNativeInput(o)
    BY <1>2 DEF InteropNext
  <2>2. CASE Copy(o)
    BY <2>2, HandOutKeeps DEF Copy
  <2>3. CASE Drop(o)
    BY <2>3, DropKeeps
  <2>4. CASE As(o)
    BY <2>4, HandOutKeeps DEF As
  <2>5. CASE Wrap(o)
    BY <2>5, HandOutKeeps DEF Wrap
  <2>6. CASE Unwrap(o)
    <3>1. Held(o) /\ HandOut(o, IF o \in Native THEN 2 ELSE 1, 0)
      BY <2>6 DEF Unwrap
    <3>2. CASE o \in Native
      BY <3>1, <3>2, HandOutKeeps
    <3>3. CASE o \notin Native
      BY <3>1, <3>3, HandOutKeeps
    <3>4. QED
      BY <3>2, <3>3
  <2>7. CASE AskWrapper(o)
    BY <2>7, HandOutKeeps DEF AskWrapper
  <2>8. CASE PassOn(o)
    <3>1. Held(o) /\ o \in Dual /\ HandOut(o, IF o \in Foreign THEN 0 ELSE 1, 0)
      BY <2>8 DEF PassOn
    <3>2. CASE o \in Foreign
      BY <3>1, <3>2, HandOutKeeps DEF Sound
    <3>3. CASE o \notin Foreign
      BY <3>1, <3>3, HandOutKeeps
    <3>4. QED
      BY <3>2, <3>3
  <2>9. CASE AskSubclass(o)
    BY <2>9, HandOutKeeps DEF AskSubclass, CreateCppToSwigObject
  <2>10. CASE WrapResult(o)
    BY <2>10, WrapResultKeeps
  <2>11. CASE DispatchForeign(o)
    BY <2>11, HandOutKeeps DEF DispatchForeign
  <2>12. CASE DispatchNative(o)
    BY <2>12, HandOutKeeps DEF DispatchNative
  <2>13. CASE CallCppMethod(o) \/ CallSwigMethod(o)
    BY <2>13, HandOutKeeps DEF CallCppMethod, CallSwigMethod
  <2>14. CASE QueryErrorLensFrom(o)
    <3>1. Held(o) /\ HandOut(o, 2, IF o \in Foreign THEN 1 ELSE 0)
      BY <2>14 DEF QueryErrorLensFrom
    <3>2. (IF o \in Foreign THEN 1 ELSE 0) \in Nat
      OBVIOUS
    <3>3. QED
      BY <3>1, <3>2, HandOutKeeps
  <2>15. CASE ToConstForeign(o) \/ ToConstNative(o) \/ CreateForeignInput(o)
    BY <2>15, ForwardedKeeps DEF ToConstForeign, ToConstNative, CreateForeignInput
  <2>16. CASE CreateNativeInput(o)
    <3>1. Forwarded(o, 1, IF o \in Dual THEN 0 ELSE 1)
      BY <2>16 DEF CreateNativeInput
    <3>2. (IF o \in Dual THEN 0 ELSE 1) \in Nat
      OBVIOUS
    <3>3. QED
      BY <3>1, <3>2, ForwardedKeeps
  <2>17. QED
    BY <2>1, <2>2, <2>3, <2>4, <2>5, <2>6, <2>7, <2>8, <2>9, <2>10, <2>11,
       <2>12, <2>13, <2>14, <2>15, <2>16
<1>3. QED
  BY <1>1, <1>2

LEMMA InteropAlways == InteropSpec => []InteropInv
  BY InteropInitInv, InteropStep, PTL DEF InteropSpec

\* Counters, references and wrappers keep their types (CppSwigInterop.h).
THEOREM InteropTypeCorrect == InteropSpec => []InteropTypeOK
<1>1. InteropInv => InteropTypeOK
  BY DEF InteropInv
<1>2. QED
  BY <1>1, InteropAlways, PTL

LEMMA CountedIsKept == InteropInv => DeletedUnowned
  BY DEF InteropInv, InteropTypeOK, CountInv, DeletedUnowned, Sound, Alive

\* However references are copied, wrapped, asked, passed and dropped across the
\* border, an object that users still hold is deleted only if it is a foreign
\* one with the interfaces of both sides (CppSwigInterop.h:199, DasPtr.hpp).
THEOREM NothingDeletedInUse == InteropSpec => []DeletedUnowned
  BY CountedIsKept, InteropAlways, PTL
===============================================================================
