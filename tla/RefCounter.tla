------------------------------ MODULE RefCounter ------------------------------
(***************************************************************************)
(* Das::Utils::RefCounter (das/Utils/CommonUtils.hpp): the reference count *)
(* every interface implementation of the repository is built on.  One      *)
(* counter, one managed object, and threads that copy and drop references  *)
(* (DasPtr) to it.                                                         *)
(*                                                                         *)
(* ref_count_ is atomic, but Release decrements it, tests it and reads it  *)
(* back in three separate accesses: each access is an action.  What a      *)
(* thread does to the counter of an object already freed is undefined; the *)
(* model lets it go on as if the memory were still there.                  *)
(***************************************************************************)
EXTENDS Naturals, FiniteSets

CONSTANTS
    Threads,    \* threads that may hold references
    Creator,    \* the thread that made the object and holds the first one
    MaxRefs,    \* bound on the references held at a time
    Modulus     \* the counter is unsigned: 2^64 in the code

ASSUME RefCounterAssumption ==
    /\ Creator \in Threads
    /\ MaxRefs \in Nat \ {0}
    /\ Modulus \in Nat /\ Modulus > MaxRefs

VARIABLES
    count,      \* ref_count_
    held,       \* references each thread holds
    pc,         \* where each thread is inside Release
    depth,      \* deletes of the object each thread is inside of
    reentered,  \* its destructor has made a reference of its own
    deletes,    \* how often "delete p_managed_object" was reached
    freed       \* the object's memory was given back

counterVars == <<count, held, pc, depth, reentered, deletes, freed>>

CounterTypeOK ==
    /\ count \in 0 .. Modulus - 1
    /\ held \in [Threads -> Nat]
    /\ pc \in [Threads -> {"idle", "test", "answer", "revive", "destroy",
                           "dtorRelease"}]
    /\ depth \in [Threads -> Nat]
    /\ reentered \in [Threads -> BOOLEAN]
    /\ deletes \in Nat
    /\ freed \in BOOLEAN

CounterInit ==
    /\ count = 1
    /\ held = [t \in Threads |-> IF t = Creator THEN 1 ELSE 0]
    /\ pc = [t \in Threads |-> "idle"]
    /\ depth = [t \in Threads |-> 0]
    /\ reentered = [t \in Threads |-> FALSE]
    /\ deletes = 0
    /\ freed = FALSE

\* A faulty variant, as of a counter that does not wrap; no action uses it.
DecrementedSigned == count - 1

\* ref_count_ -= 1 on an unsigned counter.
Decremented == (count + Modulus - 1) % Modulus

Goto(t, label) == pc' = [pc EXCEPT ![t] = label]

-------------------------------------------------------------------------------
\* Faulty variants, one plausible mistake each; no action uses them.
CopyUncounted(t, u) ==
    /\ pc[t] = "idle"
    /\ held[t] > 0
    /\ count < MaxRefs
    /\ held' = [held EXCEPT ![u] = @ + 1]
    /\ UNCHANGED <<count, pc, depth, reentered, deletes, freed>>

TestAboveZero(t) ==
    /\ pc[t] = "test"
    /\ Goto(t, IF count > 0 THEN "revive" ELSE "answer")
    /\ UNCHANGED <<count, held, depth, reentered, deletes, freed>>

-------------------------------------------------------------------------------
(***************************************************************************)
(* A holder t makes one more reference, for itself or for thread u.  The   *)
(* value AddRef reads back is not used by anyone.                          *)
(***************************************************************************)
AddRef(t, u) ==
    /\ pc[t] = "idle"
    /\ held[t] > 0
    /\ count < MaxRefs
    /\ count' = (count + 1) % Modulus
    /\ held' = [held EXCEPT ![u] = @ + 1]
    /\ UNCHANGED <<pc, depth, reentered, deletes, freed>>

\* Release: the decrement.
Release(t) ==
    /\ pc[t] = "idle"
    /\ held[t] > 0
    /\ count' = Decremented
    /\ held' = [held EXCEPT ![t] = @ - 1]
    /\ Goto(t, "test")
    /\ UNCHANGED <<depth, reentered, deletes, freed>>

\* Release: the test, on whatever the counter is now.
Test(t) ==
    /\ pc[t] = "test"
    /\ Goto(t, IF count = 0 THEN "revive" ELSE "answer")
    /\ UNCHANGED <<count, held, depth, reentered, deletes, freed>>

\* Release: the counter is read back for the caller.
Answer(t) ==
    /\ pc[t] = "answer"
    /\ Goto(t, IF depth[t] > 0 THEN "destroy" ELSE "idle")
    /\ UNCHANGED <<count, held, depth, reentered, deletes, freed>>

\* A faulty variant: the counter stays 0; no action uses it.
DeleteAtZero(t) ==
    /\ pc[t] = "revive"
    /\ deletes' = deletes + 1
    /\ depth' = [depth EXCEPT ![t] = @ + 1]
    /\ Goto(t, "destroy")
    /\ UNCHANGED <<count, held, reentered, freed>>

\* Release: the counter is set to 1 and the object deleted.
Revive(t) ==
    /\ pc[t] = "revive"
    /\ count' = 1
    /\ deletes' = deletes + 1
    /\ depth' = [depth EXCEPT ![t] = @ + 1]
    /\ Goto(t, "destroy")
    /\ UNCHANGED <<held, reentered, freed>>

\* The destructor makes a reference to the object it destroys.
DtorAddRef(t) ==
    /\ pc[t] = "destroy"
    /\ ~reentered[t]
    /\ count' = (count + 1) % Modulus
    /\ reentered' = [reentered EXCEPT ![t] = TRUE]
    /\ Goto(t, "dtorRelease")
    /\ UNCHANGED <<held, depth, deletes, freed>>

\* The destructor drops that reference: Release from inside Release.
DtorRelease(t) ==
    /\ pc[t] = "dtorRelease"
    /\ count' = Decremented
    /\ Goto(t, "test")
    /\ UNCHANGED <<held, depth, reentered, deletes, freed>>

\* The destructor is done and the memory given back.
Free(t) ==
    /\ pc[t] = "destroy"
    /\ freed' = TRUE
    /\ depth' = [depth EXCEPT ![t] = @ - 1]
    /\ Goto(t, IF depth[t] > 1 THEN "destroy" ELSE "idle")
    /\ UNCHANGED <<count, held, reentered, deletes>>

InRelease(t) ==
    Test(t) \/ Answer(t) \/ Revive(t) \/ DtorAddRef(t) \/ DtorRelease(t) \/ Free(t)

\* Nothing is left to do once no reference is held.
Done ==
    /\ \A t \in Threads : pc[t] = "idle" /\ held[t] = 0
    /\ UNCHANGED counterVars

CounterNext ==
    \/ \E t, u \in Threads : AddRef(t, u)
    \/ \E t \in Threads : Release(t) \/ InRelease(t)
    \/ Done

\* A thread that entered Release goes on; nobody has to drop a reference.
CounterFairness == \A t \in Threads : WF_counterVars(InRelease(t))

CounterSpec == CounterInit /\ [][CounterNext]_counterVars /\ CounterFairness

-------------------------------------------------------------------------------
(***************************************************************************)
(* An object somebody holds a reference to is not being destroyed, however *)
(* the three accesses of several Releases interleave.                      *)
(***************************************************************************)
ReferencedNotDestroyed == (\E t \in Threads : held[t] > 0) => deletes = 0

(***************************************************************************)
(* No leak: once nobody holds a reference the object is freed.  The thread *)
(* that brought the counter to 0 may read a 1, but only because another    *)
(* one read the 0 and destroys the object.                                 *)
(***************************************************************************)
LastReleaseFrees == (\A t \in Threads : held[t] = 0) ~> freed

(***************************************************************************)
(* References that a destructor makes and drops do not delete the object   *)
(* again: the comment in Release says the store of 1 is there to avoid it. *)
(* The store does so whatever other threads that still are inside Release  *)
(* do to the counter, unless one of them deletes the object as well.       *)
(***************************************************************************)
DtorDoesNotDelete ==
    [][\A t \in Threads : depth[t] = 1 /\ deletes = 1 => depth'[t] <= 1]_counterVars
===============================================================================
