-------------------------------- MODULE DasJson --------------------------------
(***************************************************************************)
(* A json object and the references into it (DasJsonImpl.cpp).  The        *)
(* document is a function from paths to the kinds of value found there;    *)
(* the names on a path are the keys of objects and the places of arrays.   *)
(*                                                                         *)
(* Everything goes through operator[], which makes an object or an array   *)
(* of null and adds what is not there yet, even for a reader.  A reference *)
(* is a pointer to a value: it stays good while the value stays where it   *)
(* is.  The signal that is to expire references is never raised.           *)
(***************************************************************************)
EXTENDS Naturals, Sequences, FiniteSets, SequencesExt

CONSTANTS
    Keys,       \* names of members
    Places,     \* a sequence: the names of the places of an array, in order
    PlainValues,    \* the kinds of plain values in use
    MaxDepth,   \* bound on the length of a path
    MaxJsonRefs     \* bound on the references in use

PlainKinds == {"integer", "float", "string", "boolean"}
Kinds == {"null", "object", "array"} \cup PlainKinds

ASSUME JsonAssumption ==
    /\ Places \in Seq(Range(Places)) /\ Keys \cap Range(Places) = {}
    /\ PlainValues \subseteq PlainKinds
    /\ MaxDepth \in Nat /\ MaxJsonRefs \in Nat

VARIABLES
    tree,       \* the kind of value at each path; <<>> is the root
    refs,       \* references in use: where they point and whether it is still there
    alive,      \* the object itself
    jsonAnswer  \* what the last call on it or on a reference answered

jsonVars == <<tree, refs, alive, jsonAnswer>>

Names == Keys \cup Range(Places)
Below(p, q) == IsPrefix(p, q) /\ p # q

JsonTypeOK ==
    /\ \A p \in DOMAIN tree :
         /\ p \in BoundedSeq(Names, MaxDepth) /\ tree[p] \in Kinds
         /\ p # <<>> => tree[Front(p)] = IF Last(p) \in Keys THEN "object" ELSE "array"
    /\ refs \subseteq [to : BoundedSeq(Names, MaxDepth), good : BOOLEAN]
    /\ alive \in BOOLEAN
    /\ jsonAnswer \in {"DAS_S_OK", "DAS_E_TYPE_ERROR", "DAS_E_DANGLING_REFERENCE",
                       "DAS_E_INTERNAL_FATAL_ERROR", "DAS_E_INVALID_JSON", "exception"}

JsonInit ==
    /\ tree = [p \in {<<>>} |-> "null"]
    /\ refs = {} /\ alive = TRUE
    /\ jsonAnswer = "DAS_S_OK"

-------------------------------------------------------------------------------
Container(c) == IF c \in Keys THEN "object" ELSE "array"
MayIndex(p, c) == tree[p] \in {"null", Container(c)}
UpTo(c) == LET i == CHOOSE j \in DOMAIN Places : Places[j] = c IN {Places[j] : j \in 1 .. i}

\* The values operator[] on the value at p adds.
Added(p, c) ==
    {Append(p, d) : d \in IF c \in Keys THEN {c} ELSE UpTo(c)} \ DOMAIN tree

\* The document after operator[].
Indexed(p, c) ==
    [q \in DOMAIN tree \cup Added(p, c) |->
        IF q = p THEN Container(c) ELSE IF q \in DOMAIN tree THEN tree[q] ELSE "null"]

\* Elements that move when the array they are in grows; those of objects never do.
Moved(p, c) ==
    IF c \in Keys \/ Added(p, c) = {} THEN {{}}
    ELSE {{}, {q \in DOMAIN tree : Len(q) = Len(p) + 1 /\ IsPrefix(p, q)}}

\* References to values that moved or that are no more point to freed memory.
Losing(gone) == {IF r.to \in gone THEN [r EXCEPT !.good = FALSE] ELSE r : r \in refs}

\* A call is made on the object or on a reference; one that is no longer good is not used.
Callable(p) == alive /\ (p = <<>> \/ [to |-> p, good |-> TRUE] \in refs) /\ Len(p) < MaxDepth

\* What an assignment answers: for a reference, the exception that follows it.
Assigned(p) == IF p = <<>> THEN "DAS_S_OK" ELSE "DAS_E_DANGLING_REFERENCE"
Refused(p, c, answer) ==
    /\ ~MayIndex(p, c)
    /\ jsonAnswer' = answer
    /\ UNCHANGED <<tree, refs, alive>>

\* The kinds each getter by name takes; by index the value becomes a DasResult,
\* which an int, a float or a Boolean does.
\* A string is not converted.
AskedForString == {"string"}
AskedByName ==
    {{"integer", "float"}, {"integer", "float", "boolean"}, AskedForString, {"boolean"}}
AskedByIndex == {{"integer", "float", "boolean"}, AskedForString}

(***************************************************************************)
(* GetXByName and GetXByIndex, GetTypeByName and GetTypeByIndex.  A member *)
(* that was missing is null, which is of none of the asked kinds.  (By     *)
(* index the value is answered in place of the result and never stored.)   *)
(* GetType takes any kind, and lets the exception of an operator[] on the  *)
(* wrong kind of value out to its caller.                                  *)
(***************************************************************************)
GetMember(p, c, kinds) ==
    /\ Callable(p)
    /\ \/ Refused(p, c, IF kinds = Kinds THEN "exception" ELSE "DAS_E_TYPE_ERROR")
       \/ /\ MayIndex(p, c)
          /\ tree' = Indexed(p, c)
          /\ \E moved \in Moved(p, c) : refs' = Losing(moved)
          /\ jsonAnswer' = IF tree'[Append(p, c)] \in kinds THEN "DAS_S_OK"
                           ELSE "DAS_E_TYPE_ERROR"
          /\ UNCHANGED alive

\* A faulty variant: the other members go; no action uses it.
SetMemberAlone(p, c, kind) ==
    /\ Callable(p)
    /\ LET at == Append(p, c)
           rest == {q \in DOMAIN tree : ~Below(p, q)}
       IN  \/ Refused(p, c, "DAS_E_TYPE_ERROR")
           \/ /\ MayIndex(p, c)
              /\ tree' = [q \in rest \cup {at} |->
                            IF q = at THEN kind ELSE IF q = p THEN Container(c) ELSE tree[q]]
              /\ refs' = Losing({q \in DOMAIN tree : Below(p, q)} \ {at})
              /\ jsonAnswer' = Assigned(p)
              /\ UNCHANGED alive

\* SetXByName and SetXByIndex: what was below the old value is gone.
SetMember(p, c, kind) ==
    /\ Callable(p)
    /\ LET at == Append(p, c)
           gone == {q \in DOMAIN tree : Below(at, q)}
       IN  \/ Refused(p, c, "DAS_E_TYPE_ERROR")
           \/ /\ MayIndex(p, c)
              /\ tree' = [q \in (DOMAIN tree \cup Added(p, c)) \ gone |->
                            IF q = at THEN kind ELSE Indexed(p, c)[q]]
              /\ \E moved \in Moved(p, c) : refs' = Losing(gone \cup moved)
              /\ jsonAnswer' = Assigned(p)
              /\ UNCHANGED alive

(***************************************************************************)
(* SetObjectByName and SetObjectByIndex visit the object they are called   *)
(* on, not the argument: the value gets a copy of itself for a member.     *)
(***************************************************************************)
SetObject(p, c) ==
    /\ Callable(p)
    /\ LET at == Append(p, c)
           gone == {q \in DOMAIN tree : Below(at, q)}
           copied == {q \in DOMAIN tree : IsPrefix(p, q)}
           copy == {at \o SubSeq(q, Len(p) + 1, Len(q)) : q \in copied}
       IN  \/ Refused(p, c, "DAS_E_TYPE_ERROR")
           \/ /\ MayIndex(p, c)
              /\ \A q \in copy : Len(q) <= MaxDepth
              /\ tree' = [q \in ((DOMAIN tree \cup Added(p, c)) \ gone) \cup copy |->
                            IF IsPrefix(at, q) THEN tree[p \o SubSeq(q, Len(at) + 1, Len(q))]
                            ELSE Indexed(p, c)[q]]
              /\ \E moved \in Moved(p, c) : refs' = Losing(gone \cup moved)
              /\ jsonAnswer' = Assigned(p)
              /\ UNCHANGED alive

(***************************************************************************)
(* GetObjectRefByName and GetObjectRefByIndex.  A reference taken from a   *)
(* reference is handed out with an error.                                  *)
(***************************************************************************)
GetObjectRef(p, c) ==
    /\ Callable(p)
    /\ Cardinality(refs) < MaxJsonRefs
    /\ \/ Refused(p, c, "DAS_E_INVALID_JSON")
       \/ /\ MayIndex(p, c)
          /\ tree' = Indexed(p, c)
          /\ \E moved \in Moved(p, c) :
               refs' = Losing(moved) \cup {[to |-> Append(p, c), good |-> TRUE]}
          /\ jsonAnswer' = IF p = <<>> THEN "DAS_S_OK" ELSE "DAS_E_INTERNAL_FATAL_ERROR"
          /\ UNCHANGED alive

DropRef(r) ==
    /\ refs' = refs \ {r}
    /\ UNCHANGED <<tree, alive, jsonAnswer>>

\* The last count of the object goes, and nothing tells the references.
Destroy ==
    /\ alive
    /\ alive' = FALSE
    /\ tree' = [p \in {<<>>} |-> "null"]
    /\ refs' = Losing(DOMAIN tree)
    /\ UNCHANGED jsonAnswer

\* The same calls by name and by index.
ByName(p, c) ==
    \/ \E kinds \in AskedByName \cup {Kinds} : GetMember(p, c, kinds)
    \/ \E kind \in PlainValues : SetMember(p, c, kind)
    \/ SetObject(p, c) \/ GetObjectRef(p, c)

ByIndex(p, c) ==
    \/ \E kinds \in AskedByIndex \cup {Kinds} : GetMember(p, c, kinds)
    \/ \E kind \in PlainValues : SetMember(p, c, kind)
    \/ SetObject(p, c) \/ GetObjectRef(p, c)

JsonNext ==
    \/ \E p \in DOMAIN tree :
         \/ \E c \in Keys : ByName(p, c)
         \/ \E c \in Names \ Keys : ByIndex(p, c)
    \/ \E r \in refs : DropRef(r)
    \/ Destroy

JsonSpec == JsonInit /\ [][JsonNext]_jsonVars

-------------------------------------------------------------------------------
(***************************************************************************)
(* References to members of the object stay good while it lives, whatever  *)
(* is set through it or through other references.                          *)
(***************************************************************************)
MemberRefsStay ==
    \A r \in refs : alive /\ Len(r.to) = 1 /\ Last(r.to) \in Keys =>
        r.good /\ r.to \in DOMAIN tree
===============================================================================
