------------------------------- MODULE PluginInfo -------------------------------
(***************************************************************************)
(* What the manager tells of its plugins (IDasPluginManagerImpl): a vector *)
(* of information objects, made anew for every caller.  A vector owns its  *)
(* objects by unique_ptr, and all of them are counted.  Release of their   *)
(* projections counts up: no counter comes down to 0, so no object deletes *)
(* itself and no vector its objects, and what was handed out is there for  *)
(* good.                                                                   *)
(***************************************************************************)
EXTENDS Naturals, Sequences, FiniteSets

CONSTANTS
    Listed,      \* plugins in the manager's map
    Undescribed, \* those that failed to load: they have no descriptor
    MaxVectors,  \* bound on the vectors handed out
    MaxUses      \* bound on each counter

ASSUME PluginInfoAssumption ==
    Undescribed \subseteq Listed /\ MaxVectors \in Nat /\ MaxUses \in Nat

VARIABLES
    infoVectors, \* every vector handed out, with the objects it owns
    nullRead     \* a descriptor that is not there was read: the process ends

infoVars == <<infoVectors, nullRead>>

\* counter: its RefCounter; holds: the references users have and will release.
Counted == [counter : 0 .. MaxUses, holds : 0 .. MaxUses]
InfoVector == [self : Counted, infos : [Listed -> Counted]]

InfoTypeOK ==
    /\ infoVectors \in Seq(InfoVector) /\ Len(infoVectors) <= MaxVectors
    /\ nullRead \in BOOLEAN

InfoInit == infoVectors = <<>> /\ nullRead = FALSE

Handed == DOMAIN infoVectors
InUse(object) == ~nullRead /\ object.holds > 0 /\ object.counter < MaxUses

\* The object is counted once more, for a user who will release it once.
Taken(object) ==
    [object EXCEPT !.counter = @ + 1, !.holds = @ + 1]

\* GetInfo: an object nobody has counted yet.
NewInfo(p) == [counter |-> 0, holds |-> 0]

(***************************************************************************)
(* GetAllPluginInfo: the manager's own reference, counted by the object    *)
(* itself, is released there too; the caller's remains.                    *)
(***************************************************************************)
GetAllPluginInfo ==
    /\ ~nullRead /\ Len(infoVectors) < MaxVectors /\ MaxUses > 0
    /\ infoVectors' = Append(infoVectors,
           [self |-> [counter |-> 1, holds |-> 1],
            infos |-> [p \in Listed |-> NewInfo(p)]])
    /\ UNCHANGED nullRead

\* AddRef, or QueryInterface for its own interface, of a vector.
TakeVector(v) ==
    /\ InUse(infoVectors[v].self)
    /\ infoVectors' = [infoVectors EXCEPT ![v].self = Taken(@)]
    /\ UNCHANGED nullRead

\* The same of an information object.
TakeInfo(v, p) ==
    /\ InUse(infoVectors[v].infos[p])
    /\ infoVectors' = [infoVectors EXCEPT ![v].infos[p] = Taken(@)]
    /\ UNCHANGED nullRead

\* The vector lends an object it owns and counts it for the caller.
At(v, p) ==
    /\ InUse(infoVectors[v].self)
    /\ infoVectors[v].infos[p].counter < MaxUses
    /\ infoVectors' = [infoVectors EXCEPT ![v].infos[p] = Taken(@)]
    /\ UNCHANGED nullRead

\* Release of every projection calls AddRef of the object behind it.
LetGo(object) ==
    [object EXCEPT !.counter = @ + 1, !.holds = @ - 1]

ReleaseInfo(v, p) ==
    /\ InUse(infoVectors[v].infos[p])
    /\ infoVectors' = [infoVectors EXCEPT ![v].infos[p] = LetGo(@)]
    /\ UNCHANGED nullRead

ReleaseVector(v) ==
    /\ InUse(infoVectors[v].self)
    /\ infoVectors' = [infoVectors EXCEPT ![v].self = LetGo(@)]
    /\ UNCHANGED nullRead

\* Any getter: a plugin that failed to load has nothing to read from.
ReadDescriptor(v, p) ==
    /\ InUse(infoVectors[v].infos[p])
    /\ nullRead' = (p \in Undescribed)
    /\ UNCHANGED infoVectors

InfoNext ==
    \/ GetAllPluginInfo
    \/ \E v \in Handed :
        \/ TakeVector(v) \/ ReleaseVector(v)
        \/ \E p \in Listed :
            At(v, p) \/ TakeInfo(v, p) \/ ReleaseInfo(v, p) \/ ReadDescriptor(v, p)

InfoSpec == InfoInit /\ [][InfoNext]_infoVars
===============================================================================
