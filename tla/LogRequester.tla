----------------------------- MODULE LogRequester -----------------------------
(***************************************************************************)
(* IDasLogRequesterImpl and DasLogRequesterSink (das/Core/Logger/src):     *)
(* every log line is pushed into the circular buffer of each requester; a  *)
(* client takes the lines out one by one with RequestOne, which hands the  *)
(* front line to a callback of the client.                                 *)
(*                                                                         *)
(* RequestOne holds the requester's mutex; Accept, called by the sink      *)
(* under the sink's mutex, does not take it.  So a line may be pushed      *)
(* between the read of the front and its pop, by another thread or by the  *)
(* callback itself when it logs.  The unsynchronised accesses are a data   *)
(* race; the model takes each access of the buffer as one step.            *)
(***************************************************************************)
EXTENDS Naturals, Sequences, SequencesExt

CONSTANTS
    Clients,    \* threads that call RequestOne
    None,       \* no owner of the mutex
    Capacity,   \* max_buffer_size
    MaxLines    \* bound on the lines logged

ASSUME RequesterAssumption ==
    /\ Capacity \in Nat
    /\ MaxLines \in Nat
    /\ None \notin Clients

VARIABLES
    logged,     \* lines logged so far; line n is the n-th
    buffer,     \* buffer_
    mutex,      \* owner of the requester's mutex_
    reading,    \* the line the callback of the owner is reading
    delivered   \* what the callbacks were given, in order; 0: no line's text

requesterVars == <<logged, buffer, mutex, reading, delivered>>

Lines == 1 .. MaxLines

RequesterTypeOK ==
    /\ logged \in 0 .. MaxLines
    /\ buffer \in Seq(Lines) /\ Len(buffer) <= Capacity
    /\ mutex \in Clients \cup {None}
    /\ reading \in 0 .. MaxLines
    /\ delivered \in Seq(0 .. MaxLines)

RequesterInit ==
    /\ logged = 0
    /\ buffer = <<>>
    /\ mutex = None
    /\ reading = 0
    /\ delivered = <<>>

-------------------------------------------------------------------------------
\* Faulty variants, one plausible mistake each; no action uses them.
PushAlways(s, n) == Append(s, n)
PushIfRoom(s, n) == IF Len(s) < Capacity THEN Append(s, n) ELSE s

\* push_back of the circular buffer: a full one overwrites its front.
Push(s, n) ==
    IF Capacity = 0 THEN s
    ELSE IF Len(s) < Capacity THEN Append(s, n)
    ELSE Append(Tail(s), n)

\* sink_it_ and Accept, for the thread that logs the next line.
Accept ==
    /\ logged < MaxLines
    /\ logged' = logged + 1
    /\ buffer' = Push(buffer, logged + 1)
    /\ UNCHANGED <<mutex, reading, delivered>>

\* The lock_guard of RequestOne.
MutexFree(c) == mutex = None

\* RequestOne: the front line is handed to the callback.
RequestOne(c) ==
    /\ MutexFree(c)
    /\ buffer # <<>>
    /\ mutex' = c
    /\ reading' = Head(buffer)
    /\ UNCHANGED <<logged, buffer, delivered>>

\* pop_front, whatever the front is by now.
PopFront(s) == Tail(s)

\* What the callback finds where its line was: a push that overwrote the line
\* has freed the string.
TextRead == IF reading \in Range(buffer) THEN {reading} ELSE {reading, 0}

\* RequestOne: the callback returned, having read text.
ReadOneReturns(c, text) ==
    /\ mutex = c
    /\ text \in TextRead
    /\ delivered' = Append(delivered, text)
    /\ buffer' = PopFront(buffer)
    /\ mutex' = None
    /\ reading' = 0
    /\ UNCHANGED logged

-------------------------------------------------------------------------------
(***************************************************************************)
(* Only old lines get lost: one that was neither delivered, nor is being   *)
(* read, nor is buffered has at least Capacity - 1 younger ones.  Capacity *)
(* of them would be the buffer's promise, but a push between the read and  *)
(* the pop makes pop_front drop the next line instead of the one read.     *)
(***************************************************************************)
Gone(n) ==
    /\ n \notin Range(delivered) \cup Range(buffer)
    /\ n # reading

OnlyOldLinesLost == \A n \in 1 .. logged : Gone(n) => n + Capacity <= logged + 1
===============================================================================
