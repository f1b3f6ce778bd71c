-------------------------------- MODULE Interop --------------------------------
(***************************************************************************)
(* References that cross between C++ and the SWIG languages                *)
(* (CppSwigInterop, DasPtr, DasRetSwigBase).  An object of one side is     *)
(* used on the other through a wrapper that passes AddRef, Release and     *)
(* QueryInterface on to it; some objects implement the interfaces of both  *)
(* sides and need none.  A wrapper keeps one reference of its own and,     *)
(* since it counts nothing itself, is never deleted.                       *)
(*                                                                         *)
(* The model keeps every object's counter beside the references that users *)
(* hold and will release: nothing but this code keeps the two in step.     *)
(***************************************************************************)
EXTENDS Naturals, FiniteSets, Sequences, SequencesExt, FiniteSetsExt

CONSTANTS
    Native,     \* objects implemented in C++
    Foreign,    \* objects implemented in a SWIG language
    Dual,       \* those that implement the interfaces of both sides
    MaxCount    \* bound on counters, references and wrappers, in all

Objects == Native \cup Foreign

ASSUME InteropAssumption ==
    Native \cap Foreign = {} /\ Dual \subseteq Objects /\ MaxCount \in Nat

VARIABLES
    counted,    \* the object's own counter
    owned,      \* references its users hold and will release once each
    wrapped,    \* wrappers made around it
    deleted     \* objects whose counter came down to 0

interopVars == <<counted, owned, wrapped, deleted>>

InteropTypeOK ==
    /\ \A f \in {counted, owned, wrapped} : f \in [Objects -> Nat]
    /\ deleted \subseteq Objects

\* Every object starts with one reference, its creator's.
InteropInit ==
    /\ counted = [o \in Objects |-> 1] /\ owned = [o \in Objects |-> 1]
    /\ wrapped = [o \in Objects |-> 0]
    /\ deleted = {}

Add(f, o, n) == [f EXCEPT ![o] = @ + n]
Alive(o) == o \notin deleted
Room == FoldSet(LAMBDA o, n : counted[o] + owned[o] + wrapped[o] + n, 0, Objects) < MaxCount
Held(o) == Alive(o) /\ owned[o] > 0

\* A user gets one more reference, and the counter moves by n for it.
HandOut(o, n, wrappers) ==
    /\ counted' = Add(counted, o, n)
    /\ owned' = Add(owned, o, 1)
    /\ wrapped' = Add(wrapped, o, wrappers)
    /\ UNCHANGED deleted

-------------------------------------------------------------------------------
\* A copy of a DasPtr, or an AddRef through a wrapper.
Copy(o) == Held(o) /\ Room /\ HandOut(o, 1, 0)

\* The last count deletes the object, whoever still relies on it.
Drop(o) ==
    /\ Held(o)
    /\ counted' = [counted EXCEPT ![o] = @ - 1]
    /\ owned' = [owned EXCEPT ![o] = @ - 1]
    /\ deleted' = IF counted[o] = 1 THEN deleted \cup {o} ELSE deleted
    /\ UNCHANGED wrapped

\* DasPtr::As: the query counts, and so does the pointer made of its answer.
As(o) == Held(o) /\ Room /\ HandOut(o, 2, 0)

\* MakeInterop of an object without the other side's interfaces.
Wrap(o) ==
    /\ Held(o) /\ Room /\ o \notin Dual
    /\ HandOut(o, 2, 1)

(***************************************************************************)
(* MakeInterop of an object that has them.  A foreign object's answer      *)
(* comes in a DasRetSwigBase, which releases it when the DasPtr is made; a *)
(* native one's answer is a plain pointer, which the DasPtr counts again.  *)
(***************************************************************************)
Unwrap(o) ==
    /\ Held(o) /\ Room /\ o \in Dual
    /\ HandOut(o, IF o \in Native THEN 2 ELSE 1, 0)

\* QueryInterface of a wrapper for an interface the wrapper has itself.
AskWrapper(o) ==
    /\ Held(o) /\ Room /\ wrapped[o] > 0
    /\ HandOut(o, 1, 0)

(***************************************************************************)
(* QueryInterface of a wrapper that passes the question on, and the object *)
(* knows the answer.  SwigToCppBase copies the pointer out of the          *)
(* DasRetSwigBase, which then releases it; CppToSwigBase returns it whole. *)
(***************************************************************************)
PassOn(o) ==
    /\ Held(o) /\ Room /\ wrapped[o] > 0 /\ o \in Dual
    /\ HandOut(o, IF o \in Foreign THEN 0 ELSE 1, 0)

\* The factories for the wrappers of three interfaces, the caller's count included.
CreateCppToSwigObject(o) == HandOut(o, 2, 1)

(***************************************************************************)
(* The wrapper of a foreign object translates the interface it is asked    *)
(* for and, if there is a factory for it, wraps the answer.  (That of a    *)
(* native one looks its interface up on the wrong side of the table, finds *)
(* nothing and answers DAS_E_NO_INTERFACE.)                                *)
(***************************************************************************)
AskSubclass(o) ==
    /\ Held(o) /\ Room /\ wrapped[o] > 0 /\ o \in Foreign
    /\ CreateCppToSwigObject(o)

(***************************************************************************)
(* What a native object answers across the border: a method called for the *)
(* other side moves its result out, and a string that a foreign method     *)
(* returned is counted as it is converted, before the result lets go.      *)
(***************************************************************************)
CallCppMethod(o) == o \in Native /\ Held(o) /\ Room /\ HandOut(o, 1, 0)
CallSwigMethod(o) == o \in Native /\ Held(o) /\ Room /\ HandOut(o, 1, 0)

\* The lens of a package: As on the native side; a foreign one's answer is
\* wrapped, which counts for the wrapper and for the pointer to it.
QueryErrorLensFrom(o) ==
    /\ Held(o) /\ Room
    /\ HandOut(o, 2, IF o \in Foreign THEN 1 ELSE 0)

\* Dispatch of a foreign component: the answer is counted once more for the caller.
DispatchForeign(o) ==
    /\ Held(o) /\ Room /\ o \in Foreign \cap Dual
    /\ HandOut(o, 1, 0)

\* Dispatch of a native one: the query of As counts and so does its pointer.
DispatchNative(o) ==
    /\ Held(o) /\ Room /\ o \in Native \cap Dual
    /\ HandOut(o, 2, 0)

\* A faulty variant: nobody counts for the caller; no action uses it.
WrapUncounted(o) ==
    /\ Held(o) /\ Room /\ o \in Foreign \ Dual
    /\ counted' = [counted EXCEPT ![o] = @ - 1]
    /\ wrapped' = Add(wrapped, o, 1)
    /\ deleted' = IF counted[o] = 1 THEN deleted \cup {o} ELSE deleted
    /\ UNCHANGED owned

(***************************************************************************)
(* A vector that a foreign object returns, wrapped for the C++ caller: the *)
(* wrapper's reference and the caller's are counted, then one is released  *)
(* by hand and one with the result that brought it.                        *)
(***************************************************************************)
WrapResult(o) ==
    /\ Held(o) /\ Room /\ o \in Foreign \ Dual
    /\ wrapped' = Add(wrapped, o, 1)
    /\ UNCHANGED <<counted, owned, deleted>>

\* A result's reference becomes the caller's, and the counter moves by n.
Forwarded(o, n, wrappers) ==
    /\ Held(o) /\ Room
    /\ counted' = Add(counted, o, n)
    /\ wrapped' = Add(wrapped, o, wrappers)
    /\ UNCHANGED <<owned, deleted>>

(***************************************************************************)
(* ToConst and CreateInstance forwarded through a wrapper: the result of   *)
(* one side is converted for a caller of the other and counted for it,     *)
(* while the pointers it passed through are let go.  A new wrapper keeps   *)
(* its own reference; ToConst of a native vector always makes one.  (A     *)
(* native factory that fails leaves a null pointer, which is asked for its *)
(* interfaces: the process ends there.)                                    *)
(***************************************************************************)
ToConstForeign(o) == o \in Foreign \ Dual /\ Forwarded(o, 1, 1)
ToConstNative(o) == o \in Native /\ Forwarded(o, 1, 1)
CreateForeignInput(o) == o \in Foreign \ Dual /\ Forwarded(o, 1, 1)
CreateNativeInput(o) ==
    o \in Native /\ Forwarded(o, 1, IF o \in Dual THEN 0 ELSE 1)

InteropNext ==
    \E o \in Objects :
        \/ Copy(o) \/ Drop(o) \/ As(o) \/ Wrap(o) \/ Unwrap(o)
        \/ AskWrapper(o) \/ PassOn(o) \/ AskSubclass(o) \/ WrapResult(o)
        \/ DispatchForeign(o) \/ DispatchNative(o)
        \/ CallCppMethod(o) \/ CallSwigMethod(o) \/ QueryErrorLensFrom(o)
        \/ ToConstForeign(o) \/ ToConstNative(o)
        \/ CreateForeignInput(o) \/ CreateNativeInput(o)

InteropSpec == InteropInit /\ [][InteropNext]_interopVars

-------------------------------------------------------------------------------
(***************************************************************************)
(* An object is deleted while references to it are in use only if it is a  *)
(* foreign one with the interfaces of both sides: whatever else is made,   *)
(* wrapped, asked and dropped, in any order, the counter is high enough.   *)
(***************************************************************************)
DeletedUnowned ==
    \A o \in deleted : owned[o] = 0 \/ o \in Foreign \cap Dual
===============================================================================
