-------------------------------- MODULE Vectors --------------------------------
(***************************************************************************)
(* The vectors plugins pass around: DasVariantVectorImpl, whose elements   *)
(* may be references to objects of either side, read on either side, and   *)
(* DasGuidVectorImpl with its read-only copies.  Each has one              *)
(* implementation and a C++ and a SWIG projection that forward to it.      *)
(*                                                                         *)
(* An element is the alternative of the variant it holds and the object,   *)
(* if any; numbers, strings and Booleans keep no value here.               *)
(***************************************************************************)
EXTENDS Interop

CONSTANTS
    Guids,      \* interface identifiers
    MaxLength   \* bound on the length of a vector

VARIABLES
    variants,   \* variants_
    crashed,    \* a pointer that was never set has been released
    iids,       \* iids_ of a GUID vector
    constant    \* the copies ToConst made of it

vectorVars == <<interopVars, variants, crashed, iids, constant>>
guidVars == <<iids, constant>>

Nobody == "-"

ASSUME VectorsAssumption == Nobody \notin Objects /\ MaxLength \in Nat

Scalars == {"int64_t", "float", "bool", "DasReadOnlyString"}
NativeRefs == {"IDasBase", "IDasComponent"}
ForeignRefs == {"IDasSwigBase", "IDasSwigComponent"}
\* What the setters of either projection can store.
CppProjection == [of : Scalars, object : {Nobody}] \cup [of : NativeRefs, object : Native]
SwigProjection == [of : Scalars, object : {Nobody}] \cup [of : ForeignRefs, object : Foreign]
Alternatives == CppProjection \cup SwigProjection

VectorInit ==
    /\ InteropInit
    /\ variants = <<>> /\ crashed = FALSE
    /\ iids = <<>> /\ constant = {}

Stored(o) == Cardinality({i \in DOMAIN variants : variants[i].object = o})

\* A faulty variant, as if the enumeration had the variant's order; no action uses it.
ToTypeByIndex(e) ==
    CASE e.of = "int64_t" -> "INT" [] e.of = "float" -> "FLOAT"
      [] e.of = "bool" -> "STRING" [] e.of = "DasReadOnlyString" -> "BOOL"
      [] e.of \in {"IDasBase", "IDasSwigBase"} -> "BASE"
      [] OTHER -> "COMPONENT"

ToType(e) ==
    CASE e.of = "int64_t" -> "INT" [] e.of = "float" -> "FLOAT"
      [] e.of = "bool" -> "BOOL" [] e.of = "DasReadOnlyString" -> "STRING"
      [] e.of \in {"IDasBase", "IDasSwigBase"} -> "BASE"
      [] OTHER -> "COMPONENT"

\* What each getter accepts: one alternative, or the two of either side.
Accepts(getter) ==
    CASE getter = "GetInt" -> {"int64_t"} [] getter = "GetFloat" -> {"float"}
      [] getter = "GetBool" -> {"bool"} [] getter = "GetString" -> {"DasReadOnlyString"}
      [] getter = "GetBase" -> {"IDasBase", "IDasSwigBase"}
      [] getter = "GetComponent" -> {"IDasComponent", "IDasSwigComponent"}
Reads(getter, i) ==
    IF i \notin DOMAIN variants THEN "DAS_E_OUT_OF_RANGE"
    ELSE IF variants[i].of \in Accepts(getter) THEN "DAS_S_OK"
    ELSE "DAS_E_TYPE_ERROR"
GetterOf ==
    [INT |-> "GetInt", FLOAT |-> "GetFloat", BOOL |-> "GetBool", STRING |-> "GetString",
     BASE |-> "GetBase", COMPONENT |-> "GetComponent"]

\* Among others, GetType names the one getter that reads the element.
VectorTypeOK ==
    /\ InteropTypeOK
    /\ variants \in BoundedSeq(Alternatives, MaxLength)
    /\ \A i \in DOMAIN variants : \A t \in DOMAIN GetterOf :
          Reads(GetterOf[t], i) = "DAS_S_OK" <=> t = ToType(variants[i])
    /\ crashed \in BOOLEAN
    /\ iids \in BoundedSeq(Guids, MaxLength)
    /\ constant \subseteq BoundedSeq(Guids, MaxLength)

-------------------------------------------------------------------------------
\* The references the vector gains with element e and loses with the one e replaces.
Exchanged(e, old) ==
    LET gained == IF e.object = Nobody THEN {} ELSE {e.object}
        lost == IF old.object = Nobody THEN {} ELSE {old.object}
        moved(o) == (IF o \in gained THEN 1 ELSE 0) - (IF o \in lost THEN 1 ELSE 0)
    IN  /\ counted' = [o \in Objects |-> counted[o] + moved(o)]
        /\ owned' = [o \in Objects |-> owned[o] + moved(o)]
        /\ deleted' = deleted \cup {o \in lost : counted'[o] = 0}
        /\ UNCHANGED wrapped
None == [of |-> "float", object |-> Nobody]

\* The caller holds what it passes, beside what the vector holds of it.
Passed(e) ==
    e.object # Nobody => Alive(e.object) /\ owned[e.object] > Stored(e.object) /\ Room

PushBack(e) ==
    /\ ~crashed /\ Passed(e)
    /\ Len(variants) < MaxLength
    /\ variants' = Append(variants, e)
    /\ Exchanged(e, None)
    /\ UNCHANGED <<crashed, guidVars>>

SetValue(i, e) ==
    /\ ~crashed
    /\ i \in DOMAIN variants /\ e.object = Nobody
    /\ variants' = [variants EXCEPT ![i] = e]
    /\ Exchanged(e, variants[i])
    /\ UNCHANGED <<crashed, guidVars>>

\* The new element is complete before the old one goes: they may be the same object.
SetReference(i, e) ==
    /\ ~crashed /\ Passed(e)
    /\ i \in DOMAIN variants /\ e.object # Nobody
    /\ variants' = [variants EXCEPT ![i] = e]
    /\ Exchanged(e, variants[i])
    /\ UNCHANGED <<crashed, guidVars>>

RemoveElement(i) ==
    /\ ~crashed
    /\ i \in DOMAIN variants
    /\ variants' = RemoveAt(variants, i)
    /\ Exchanged(None, variants[i])
    /\ UNCHANGED <<crashed, guidVars>>

\* A reference read on its own side is copied, on the other side it is converted.
Converted(o) == Wrap(o) \/ Unwrap(o)
GetNative(i) ==
    /\ ~crashed
    /\ i \in DOMAIN variants /\ variants[i].object # Nobody
    /\ IF variants[i].of \in NativeRefs THEN Copy(variants[i].object)
       ELSE Converted(variants[i].object)
    /\ UNCHANGED <<variants, crashed, guidVars>>

GetForeign(i) ==
    /\ ~crashed
    /\ i \in DOMAIN variants /\ variants[i].object # Nobody
    /\ IF variants[i].of \in ForeignRefs THEN Copy(variants[i].object)
       ELSE Converted(variants[i].object)
    /\ UNCHANGED <<variants, crashed, guidVars>>

(***************************************************************************)
(* GetBase of the SWIG projection on another alternative: the result takes *)
(* a pointer nobody set, which by chance may be null, and releases it.     *)
(***************************************************************************)
GetBaseMistyped(i) ==
    /\ ~crashed
    /\ i \in DOMAIN variants
    /\ variants[i].of \notin Accepts("GetBase")
    /\ crashed' = TRUE
    /\ UNCHANGED <<interopVars, variants, guidVars>>

\* Callers drop what they hold; what the vector holds is not theirs.
Return(o) ==
    /\ ~crashed
    /\ owned[o] > Stored(o)
    /\ Drop(o)
    /\ UNCHANGED <<variants, crashed, guidVars>>

\* A new vector with the identifiers of the caller's array.
CreateIDasGuidVector(guids) ==
    /\ iids' = guids /\ constant' = {}
    /\ UNCHANGED <<interopVars, variants, crashed>>

GuidPushBack(g) ==
    /\ Len(iids) < MaxLength
    /\ iids' = Append(iids, g)
    /\ UNCHANGED <<interopVars, variants, crashed, constant>>

\* ToConst copies the vector: the copy does not follow it.
ToConst ==
    /\ constant' = constant \cup {iids}
    /\ UNCHANGED <<interopVars, variants, crashed, iids>>

\* What a caller of either projection may do.
Stores(e) ==
    PushBack(e) \/ \E i \in DOMAIN variants : SetValue(i, e) \/ SetReference(i, e)

CppCalls ==
    \/ \E e \in CppProjection : Stores(e)
    \/ \E i \in DOMAIN variants : GetNative(i) \/ RemoveElement(i)

SwigCalls ==
    \/ \E e \in SwigProjection : Stores(e)
    \/ \E i \in DOMAIN variants : GetForeign(i) \/ GetBaseMistyped(i) \/ RemoveElement(i)

VectorNext == CppCalls \/ SwigCalls \/ \E o \in Objects : Return(o)

GuidNext ==
    \/ ToConst \/ \E g \in Guids : GuidPushBack(g)
    \/ \E guids \in BoundedSeq(Guids, MaxLength) : CreateIDasGuidVector(guids)

VectorSpec == VectorInit /\ [][VectorNext \/ GuidNext]_vectorVars
===============================================================================
