------------------------------- MODULE MCObjects -------------------------------
(***************************************************************************)
(* The value objects that plugins, runtimes and the core hand to each      *)
(* other, for TLC: reference counts, strings, references across languages, *)
(* vectors, json, images and the information on plugins.  They share no    *)
(* state; an initial state chooses the part that moves, so that one run    *)
(* explores each in full.                                                  *)
(***************************************************************************)
EXTENDS RefCounter, DasString, Vectors, DasJson, Images, PluginInfo

CONSTANTS th1, th2, th3

ThreeThreads == {th1, th2, th3}
MCTexts == {<<"b">>, <<"w", "w">>}
TwoPlaces == <<"0", "1">>

VARIABLE part

Init ==
    /\ part \in {"counter", "string", "interop", "vector", "guids", "json", "image", "info"}
    /\ CounterInit /\ StringInit /\ VectorInit /\ JsonInit /\ ImagesInit /\ InfoInit
    /\ part # "string" => wide16
    /\ part # "image" => size = 1

Next ==
    /\ UNCHANGED part
    /\ \/ part = "counter" /\ CounterNext
       \/ part # "counter" /\ UNCHANGED counterVars
    /\ \/ part = "string" /\ StringNext
       \/ part # "string" /\ UNCHANGED stringVars
    /\ \/ part = "interop" /\ InteropNext /\ UNCHANGED <<variants, crashed, guidVars>>
       \/ part = "vector" /\ VectorNext
       \/ part = "guids" /\ GuidNext
       \/ part \notin {"interop", "vector", "guids"} /\ UNCHANGED vectorVars
    /\ \/ part = "json" /\ JsonNext
       \/ part # "json" /\ UNCHANGED jsonVars
    /\ \/ part = "image" /\ ImagesNext
       \/ part # "image" /\ UNCHANGED imageVars
    /\ \/ part = "info" /\ InfoNext
       \/ part # "info" /\ UNCHANGED infoVars

vars == <<part, counterVars, stringVars, vectorVars, jsonVars, imageVars, infoVars>>

Spec == Init /\ [][Next]_vars /\ CounterFairness

\* The types of all of them.
ObjectsTypeOK ==
    CounterTypeOK /\ StringTypeOK /\ VectorTypeOK /\ JsonTypeOK /\ ImagesTypeOK
    /\ InfoTypeOK
===============================================================================
