--------------------------- MODULE EndpointProofs ---------------------------
(***************************************************************************)
(* Proofs about two parts that the HTTP server and the hosts read piece by *)
(* piece while others change them: the log requester with the endpoint on  *)
(* top of it, and the units the profile controller enumerates.             *)
(***************************************************************************)
EXTENDS LogController, ProfileController, SequenceTheorems, TLAPS

-------------------------------------------------------------------------------
(***************************************************************************)
(* The log, for every capacity, every set of connections and every number  *)
(* of lines.                                                               *)
(***************************************************************************)
\* The numbers in s are the last ones up to l.
Youngest(s, l) ==
    /\ s \in Seq(Nat)
    /\ Len(s) <= l
    /\ \A i \in DOMAIN s : s[i] = l - Len(s) + i

\* The buffer holds the youngest lines; the line being read is its front,
\* unless pushes have run it over since, and then it is full.
BufferInv ==
    /\ logged \in Nat
    /\ Youngest(buffer, logged) /\ Len(buffer) <= Capacity
    /\ mutex # None =>
         /\ buffer # <<>>
         /\ reading = Head(buffer) \/ Len(buffer) = Capacity
    /\ mutex = None => reading = 0
    /\ delivered \in Seq(Nat) /\ reading \in Nat

LinesInv == BufferInv /\ OnlyOldLinesLost

-------------------------------------------------------------------------------
\* What a sequence of numbers holds, after a step at either end.
LEMMA Ends ==
    ASSUME NEW s \in Seq(Nat), NEW n \in Nat
    PROVE  /\ Len(s) \in Nat /\ DOMAIN s = 1 .. Len(s) /\ (s = <<>> <=> Len(s) = 0)
           /\ \A i \in 1 .. Len(s) : s[i] \in Nat
           /\ Append(s, n) \in Seq(Nat) /\ Len(Append(s, n)) = Len(s) + 1
           /\ \A i \in 1 .. Len(s) + 1 :
                Append(s, n)[i] = IF i <= Len(s) THEN s[i] ELSE n
           /\ s # <<>> => /\ Head(s) = s[1] /\ Tail(s) \in Seq(Nat)
                          /\ Len(Tail(s)) = Len(s) - 1
                          /\ \A i \in 1 .. Len(s) - 1 : Tail(s)[i] = s[i + 1]
  BY LenProperties, EmptySeq, AppendProperties, HeadTailProperties, ElementOfSeq

\* Membership in the two sequences, by index.
LEMMA InSeq ==
    ASSUME NEW s \in Seq(Nat), NEW n
    PROVE  n \in Range(s) <=> \E i \in 1 .. Len(s) : s[i] = n
  BY LenProperties DEF Range

LEMMA YoungestLines ==
    ASSUME NEW s, NEW l \in Nat, Youngest(s, l)
    PROVE  \A n : n \in Range(s) <=> n \in l - Len(s) + 1 .. l
<1>1. s \in Seq(Nat) /\ Len(s) \in Nat /\ DOMAIN s = 1 .. Len(s) /\ Len(s) <= l
  BY LenProperties DEF Youngest
<1>2. \A i \in 1 .. Len(s) : s[i] = l - Len(s) + i
  BY <1>1 DEF Youngest
<1>3. ASSUME NEW n PROVE n \in Range(s) <=> n \in l - Len(s) + 1 .. l
  <2>1. n \in Range(s) <=> \E i \in 1 .. Len(s) : s[i] = n
    BY <1>1, InSeq
  <2>2. ASSUME n \in l - Len(s) + 1 .. l
        PROVE  n - (l - Len(s)) \in 1 .. Len(s) /\ s[n - (l - Len(s))] = n
    BY <1>1, <1>2, <2>2
  <2>3. QED
    BY <1>1, <1>2, <2>1, <2>2
<1>4. QED
  BY <1>3

\* A sequence that was shown to have the right numbers.
LEMMA YoungestIs ==
    ASSUME NEW t \in Seq(Nat), NEW l \in Nat, NEW n \in Nat, Len(t) = n, n <= l,
           \A i \in 1 .. n : t[i] = l - n + i
    PROVE  Youngest(t, l)
  BY LenProperties DEF Youngest

\* Add at the end.
LEMMA AppendYoungest ==
    ASSUME NEW s \in Seq(Nat), NEW l \in Nat, NEW n \in Nat, Len(s) = n, n <= l,
           \A i \in 1 .. n : s[i] = l - n + i,
           NEW m \in Nat, m = l + 1
    PROVE  Youngest(Append(s, m), m) /\ Len(Append(s, m)) = n + 1
<1>1. PICK t : t = Append(s, m)
  OBVIOUS
<1>2. PICK k \in Nat : k = n + 1
  OBVIOUS
<1>3. /\ t \in Seq(Nat) /\ Len(t) = k
      /\ \A i \in 1 .. n : t[i] = s[i]
      /\ t[k] = m
  BY <1>1, <1>2, AppendProperties
<1>4. \A i \in 1 .. k : t[i] = m - k + i
  <2>1. \A i \in 1 .. k : i \in 1 .. n \/ i = k
    BY <1>2
  <2>2. QED
    BY <1>2, <1>3, <2>1
<1>5. k <= m
  BY <1>2
<1>6. Youngest(t, m)
  BY <1>3, <1>4, <1>5, YoungestIs
<1>7. QED
  BY <1>1, <1>2, <1>3, <1>6

\* PopFront takes the oldest one.
LEMMA PopKeeps ==
    ASSUME NEW s, NEW l \in Nat, Youngest(s, l), s # <<>>
    PROVE  /\ Youngest(PopFront(s), l) /\ Len(PopFront(s)) = Len(s) - 1
           /\ Len(s) \in Nat \ {0} /\ Head(s) = l - Len(s) + 1
<1>1. s \in Seq(Nat) /\ Len(s) \in Nat /\ Len(s) # 0
  BY LenProperties, EmptySeq DEF Youngest
<1>2. PICK n \in Nat : n = Len(s)
  BY <1>1
<1>3. n <= l /\ \A i \in 1 .. n : s[i] = l - n + i
  BY <1>1, <1>2, LenProperties DEF Youngest
<1>4. PICK t : t = PopFront(s)
  OBVIOUS
<1>5. /\ t \in Seq(Nat) /\ Len(t) = n - 1 /\ Head(s) = s[1]
      /\ \A i \in 1 .. n - 1 : t[i] = s[i + 1]
  BY <1>1, <1>2, <1>4, HeadTailProperties DEF PopFront
<1>6. n # 0 /\ n - 1 \in Nat
  BY <1>1, <1>2
<1>7. PICK k \in Nat : k = n - 1
  BY <1>6
<1>8. Youngest(t, l)
  <2>1. \A i \in 1 .. k : i + 1 \in 1 .. n /\ i \in 1 .. n - 1
    BY <1>6, <1>7
  <2>2. \A i \in 1 .. k : t[i] = l - k + i
    BY <1>3, <1>5, <1>6, <1>7, <2>1
  <2>3. Len(t) = k /\ k <= l
    BY <1>3, <1>5, <1>7
  <2>4. QED
    BY <1>5, <2>2, <2>3, YoungestIs
<1>9. s[1] = l - n + 1
  BY <1>3, <1>6
<1>10. QED
  BY <1>2, <1>4, <1>5, <1>6, <1>8, <1>9

\* Push adds the next line and may lose the oldest one.
LEMMA PushKeeps ==
    ASSUME NEW s, NEW l \in Nat, Youngest(s, l), Len(s) <= Capacity,
           NEW m \in Nat, m = l + 1
    PROVE  /\ Youngest(Push(s, m), m)
           /\ Len(Push(s, m)) = IF Len(s) < Capacity THEN Len(s) + 1 ELSE Capacity
<1>1. s \in Seq(Nat) /\ Len(s) \in Nat /\ (s = <<>> <=> Len(s) = 0)
  BY LenProperties, EmptySeq DEF Youngest
<1>2. Capacity \in Nat
  BY RequesterAssumption
<1>3. PICK n \in Nat : n = Len(s)
  BY <1>1
<1>4. n <= l /\ n <= Capacity /\ \A i \in 1 .. n : s[i] = l - n + i
  BY <1>1, <1>3, LenProperties DEF Youngest
<1>5. PICK t : t = Push(s, m)
  OBVIOUS
<1>6. CASE Capacity = 0
  <2>1. t = s /\ n = 0
    BY <1>2, <1>3, <1>4, <1>5, <1>6 DEF Push
  <2>2. Len(t) = n /\ n <= m /\ \A i \in 1 .. n : t[i] = m - n + i
    BY <1>3, <1>4, <2>1
  <2>3. Youngest(t, m)
    BY <1>1, <2>1, <2>2, YoungestIs
  <2>4. QED
    BY <1>3, <1>4, <1>5, <1>6, <2>1, <2>2, <2>3
<1>7. CASE n < Capacity
  <2>1. t = Append(s, m)
    BY <1>2, <1>3, <1>5, <1>7 DEF Push
  <2>2. Len(s) = n
    BY <1>3
  <2>3. Youngest(t, m) /\ Len(t) = n + 1
    BY <1>1, <1>4, <2>1, <2>2, AppendYoungest
  <2>4. QED
    BY <1>3, <1>5, <1>7, <2>3
<1>8. CASE Capacity # 0 /\ n = Capacity
  <2>1. PICK r : r = PopFront(s)
    OBVIOUS
  <2>2. t = Append(r, m) /\ s # <<>>
    BY <1>1, <1>2, <1>3, <1>5, <1>8, <2>1 DEF Push, PopFront
  <2>3. PICK k \in Nat : k = n - 1
    BY <1>2, <1>8
  <2>4. Youngest(r, l) /\ Len(r) = Len(s) - 1
    BY <2>1, <2>2, PopKeeps
  <2>5. Len(r) = k /\ k <= l
    BY <1>3, <1>4, <2>3, <2>4
  <2>6. r \in Seq(Nat) /\ \A i \in 1 .. k : r[i] = l - k + i
    BY <2>4, <2>5, LenProperties DEF Youngest
  <2>7. Youngest(t, m) /\ Len(t) = k + 1
    BY <2>2, <2>5, <2>6, AppendYoungest
  <2>8. QED
    BY <1>2, <1>3, <1>5, <1>8, <2>3, <2>7
<1>9. QED
  BY <1>2, <1>4, <1>6, <1>7, <1>8

-------------------------------------------------------------------------------
\* What the invariant says of the buffer.
LEMMA BufferFacts ==
    ASSUME BufferInv
    PROVE  /\ buffer \in Seq(Nat) /\ Len(buffer) \in Nat
           /\ logged \in Nat /\ Capacity \in Nat
           /\ \A n : n \in Range(buffer) <=> n \in logged - Len(buffer) + 1 .. logged
<1>1. logged \in Nat /\ Youngest(buffer, logged) /\ Capacity \in Nat
  BY RequesterAssumption DEF BufferInv
<1>2. buffer \in Seq(Nat) /\ Len(buffer) \in Nat
  BY <1>1, LenProperties DEF Youngest
<1>3. QED
  BY <1>1, <1>2, YoungestLines

LEMMA LinesInit == ControllerInit => LinesInv
<1> SUFFICES ASSUME ControllerInit PROVE LinesInv
  OBVIOUS
<1>1. /\ logged = 0 /\ buffer = <<>> /\ mutex = None /\ reading = 0
      /\ delivered = <<>>
  BY DEF ControllerInit, RequesterInit
<1>2. buffer \in Seq(Nat) /\ Len(buffer) = 0 /\ delivered \in Seq(Nat)
  BY <1>1, EmptySeq
<1>3. Youngest(buffer, logged)
  BY <1>1, <1>2 DEF Youngest
<1>4. QED
  BY <1>1, <1>2, <1>3, RequesterAssumption DEF LinesInv, BufferInv, OnlyOldLinesLost

\* Logging a line: the line that goes, if one does, has Capacity younger ones.
LEMMA AcceptKeeps == LinesInv /\ Accept => LinesInv'
<1> SUFFICES ASSUME LinesInv, Accept PROVE LinesInv'
  OBVIOUS
<1>1. /\ logged' = logged + 1 /\ buffer' = Push(buffer, logged + 1)
      /\ mutex' = mutex /\ reading' = reading /\ delivered' = delivered
  BY DEF Accept
<1>2. /\ buffer \in Seq(Nat) /\ Len(buffer) \in Nat
      /\ logged \in Nat /\ Capacity \in Nat
      /\ \A n : n \in Range(buffer) <=> n \in logged - Len(buffer) + 1 .. logged
  BY BufferFacts DEF LinesInv
<1>3. PICK m \in Nat : m = logged + 1
  BY <1>2
<1>4. /\ Youngest(buffer', m)
      /\ Len(buffer') = IF Len(buffer) < Capacity THEN Len(buffer) + 1 ELSE Capacity
  BY <1>1, <1>2, <1>3, PushKeeps DEF LinesInv, BufferInv
<1>5. BufferInv'
  <2>1. Len(buffer) <= Capacity
    BY DEF LinesInv, BufferInv
  <2>2. ASSUME mutex # None
        PROVE  buffer' # <<>> /\ (reading = Head(buffer') \/ Len(buffer') = Capacity)
    <3>1. buffer # <<>> /\ (reading = Head(buffer) \/ Len(buffer) = Capacity)
      BY <2>2 DEF LinesInv, BufferInv
    <3>2. Len(buffer) > 0
      BY <1>2, <3>1, EmptySeq
    <3>3. Len(buffer') > 0
      BY <1>2, <1>4, <2>1, <3>2
    <3>4. buffer' # <<>>
      BY <3>3, EmptySeq
    <3>5. CASE Len(buffer) = Capacity
      BY <1>2, <1>4, <3>4, <3>5
    <3>6. CASE Len(buffer) < Capacity /\ reading = Head(buffer)
      <4>1. Head(buffer) = logged - Len(buffer) + 1
        BY <1>2, <3>1, PopKeeps DEF LinesInv, BufferInv
      <4>2. Head(buffer') = m - Len(buffer') + 1
        BY <1>4, <3>4, PopKeeps
      <4>3. QED
        BY <1>2, <1>3, <1>4, <3>4, <3>6, <4>1, <4>2
    <3>7. QED
      BY <1>2, <2>1, <3>1, <3>5, <3>6
  <2>3. Len(buffer') <= Capacity
    BY <1>2, <1>4, <2>1
  <2>4. QED
    BY <1>1, <1>3, <1>4, <2>2, <2>3 DEF LinesInv, BufferInv
<1>6. OnlyOldLinesLost'
  <2>1. Range(delivered)' = Range(delivered)
    BY <1>1
  <2>2. \A n : n \in Range(buffer)' <=> n \in m - Len(buffer') + 1 .. m
    BY <1>4, YoungestLines
  <2>3. Len(buffer) <= Capacity
    BY DEF LinesInv, BufferInv
  <2>4. ASSUME NEW n \in 1 .. logged', Gone(n)' PROVE n + Capacity <= logged' + 1
    <3>1. /\ n \notin Range(delivered) /\ n # reading
          /\ ~(n \in m - Len(buffer') + 1 .. m)
      BY <1>1, <2>1, <2>2, <2>4 DEF Gone
    <3>2. n \in Nat /\ n >= 1 /\ n <= m
      BY <1>1, <1>3, <2>4
    <3>3. CASE n <= logged - Len(buffer)
      <4>1. n \in 1 .. logged /\ Gone(n)
        BY <1>2, <3>1, <3>2, <3>3 DEF Gone
      <4>2. QED
        BY <1>1, <1>2, <3>2, <4>1 DEF LinesInv, OnlyOldLinesLost
    <3>4. CASE n > logged - Len(buffer)
      <4>1. n <= m - Len(buffer')
        BY <1>2, <1>3, <1>4, <3>1, <3>2
      <4>2. Len(buffer') = Capacity
        BY <1>2, <1>3, <1>4, <2>3, <3>2, <3>4, <4>1
      <4>3. QED
        BY <1>1, <1>2, <1>3, <3>2, <4>1, <4>2
    <3>5. QED
      BY <1>2, <3>2, <3>3, <3>4
  <2>5. QED
    BY <2>4 DEF OnlyOldLinesLost
<1>7. QED
  BY <1>5, <1>6 DEF LinesInv

\* Taking the mutex: the front is read, nothing is lost.
LEMMA RequestKeeps ==
    ASSUME LinesInv, NEW c \in Clients, RequestOne(c)
    PROVE  LinesInv'
<1>1. /\ buffer # <<>> /\ mutex' = c /\ reading' = Head(buffer)
      /\ logged' = logged /\ buffer' = buffer /\ delivered' = delivered
  BY DEF RequestOne
<1>2. buffer \in Seq(Nat)
  BY BufferFacts DEF LinesInv
<1>3. Head(buffer) \in Nat
  BY <1>1, <1>2, HeadTailProperties
<1>4. BufferInv'
  BY <1>1, <1>3, RequesterAssumption DEF LinesInv, BufferInv
<1>5. ASSUME NEW n \in 1 .. logged', Gone(n)' PROVE n + Capacity <= logged' + 1
  <2>1. n \in 1 .. logged /\ n \notin Range(delivered) \cup Range(buffer)
    BY <1>1, <1>5 DEF Gone
  <2>2. QED
    <3>1. CASE n # reading
      BY <1>1, <2>1, <3>1 DEF Gone, LinesInv, OnlyOldLinesLost
    <3>2. reading = 0
      BY DEF RequestOne, MutexFree, LinesInv, BufferInv
    <3>3. QED
      BY <2>1, <3>1, <3>2
<1>6. QED
  BY <1>4, <1>5 DEF LinesInv, OnlyOldLinesLost

\* The end of a read: pop_front takes the line that was read, or, if pushes
\* have run that one over, the front of a full buffer.
LEMMA ReturnKeeps ==
    ASSUME LinesInv, NEW c \in Clients, NEW text, ReadOneReturns(c, text)
    PROVE  LinesInv'
<1>1. /\ mutex # None /\ mutex' = None /\ reading' = 0 /\ logged' = logged
      /\ delivered' = Append(delivered, text) /\ buffer' = PopFront(buffer)
      /\ text \in {reading, 0} /\ (reading \in Range(buffer) => text = reading)
  BY RequesterAssumption DEF ReadOneReturns, TextRead
<1>2. /\ buffer \in Seq(Nat) /\ Len(buffer) \in Nat
      /\ logged \in Nat /\ Capacity \in Nat
      /\ \A n : n \in Range(buffer) <=> n \in logged - Len(buffer) + 1 .. logged
  BY BufferFacts DEF LinesInv
<1>3. /\ buffer # <<>> /\ Len(buffer) <= Capacity /\ Youngest(buffer, logged)
      /\ reading = Head(buffer) \/ Len(buffer) = Capacity
      /\ delivered \in Seq(Nat) /\ reading \in Nat /\ text \in Nat
  BY <1>1 DEF LinesInv, BufferInv
<1>4. /\ Youngest(buffer', logged) /\ Len(buffer') = Len(buffer) - 1
      /\ Len(buffer) # 0 /\ Head(buffer) = logged - Len(buffer) + 1
  BY <1>1, <1>2, <1>3, PopKeeps
<1>5. \A n : n \in Range(buffer)' <=> n \in logged - Len(buffer') + 1 .. logged
  BY <1>2, <1>4, YoungestLines
<1>6. /\ delivered' \in Seq(Nat)
      /\ \A n : n \in Range(delivered)' <=> n \in Range(delivered) \/ n = text
  <2>1. PICK d : d = Append(delivered, text)
    OBVIOUS
  <2>2. /\ d \in Seq(Nat) /\ Len(d) = Len(delivered) + 1
        /\ \A i \in 1 .. Len(delivered) : d[i] = delivered[i]
        /\ d[Len(delivered) + 1] = text
    BY <1>3, <2>1, AppendProperties
  <2>3. Len(delivered) \in Nat
    BY <1>3, LenProperties
  <2>4. \A n : n \in Range(d) <=> n \in Range(delivered) \/ n = text
    <3>1. ASSUME NEW n
          PROVE  (\E i \in 1 .. Len(d) : d[i] = n)
                   <=> (\E i \in 1 .. Len(delivered) : delivered[i] = n) \/ n = text
      <4>1. \A i \in 1 .. Len(d) : i \in 1 .. Len(delivered) \/ i = Len(delivered) + 1
        BY <2>2, <2>3
      <4>2. Len(delivered) + 1 \in 1 .. Len(d)
            /\ \A i \in 1 .. Len(delivered) : i \in 1 .. Len(d)
        BY <2>2, <2>3
      <4>3. QED
        BY <2>2, <4>1, <4>2
    <3>2. QED
      BY <1>3, <2>2, <3>1, InSeq
  <2>5. QED
    BY <1>1, <2>1, <2>2, <2>4
<1>7. BufferInv'
  <2>1. Len(buffer') <= Capacity
    BY <1>2, <1>3, <1>4
  <2>2. QED
    BY <1>1, <1>2, <1>4, <1>6, <2>1 DEF BufferInv
<1>8. ASSUME NEW n \in 1 .. logged', Gone(n)' PROVE n + Capacity <= logged' + 1
  <2>1. /\ n \in 1 .. logged /\ n \notin Range(delivered) /\ n # text
        /\ ~(n \in logged - Len(buffer') + 1 .. logged)
    BY <1>1, <1>5, <1>6, <1>8 DEF Gone
  <2>2. CASE n \notin Range(buffer)
    <3>1. CASE n # reading
      BY <1>1, <2>1, <2>2, <3>1 DEF Gone, LinesInv, OnlyOldLinesLost
    <3>2. CASE n = reading
      <4>1. Len(buffer) = Capacity
        BY <1>2, <1>3, <1>4, <2>1, <2>2, <3>2
      <4>2. n <= logged - Len(buffer)
        BY <1>2, <2>1, <2>2
      <4>3. QED
        BY <1>1, <1>2, <4>1, <4>2
    <3>3. QED
      BY <3>1, <3>2
  <2>3. CASE n \in Range(buffer)
    <3>1. n = logged - Len(buffer) + 1
      BY <1>2, <1>4, <2>1, <2>3
    <3>2. n # reading
      BY <1>1, <2>1, <2>3
    <3>3. Len(buffer) = Capacity
      BY <1>3, <1>4, <3>1, <3>2
    <3>4. QED
      BY <1>1, <1>2, <3>1, <3>3
  <2>4. QED
    BY <2>2, <2>3
<1>9. QED
  BY <1>7, <1>8 DEF LinesInv, OnlyOldLinesLost

LEMMA LinesNext == LinesInv /\ [ControllerNext]_logVars => LinesInv'
<1> SUFFICES ASSUME LinesInv, [ControllerNext]_logVars PROVE LinesInv'
  OBVIOUS
<1>1. CASE UNCHANGED requesterVars
  BY <1>1 DEF requesterVars, LinesInv, BufferInv, Youngest, OnlyOldLinesLost, Gone
<1>2. CASE UNCHANGED logVars
  BY <1>1, <1>2 DEF logVars
<1>3. CASE Accept /\ UNCHANGED controller
  BY <1>3, AcceptKeeps
<1>4. ASSUME NEW c \in Clients,
             GetLogs(c) \/ BeginRead(c) \/ EndRead(c) \/ Copy(c) \/ Empty(c)
      PROVE  LinesInv'
  <2>1. CASE GetLogs(c) \/ Copy(c) \/ Empty(c)
    BY <1>1, <2>1 DEF GetLogs, Copy, Empty
  <2>2. CASE BeginRead(c)
    BY <2>2, RequestKeeps DEF BeginRead
  <2>3. CASE EndRead(c)
    BY <2>3, ReturnKeeps DEF EndRead
  <2>4. QED
    BY <1>4, <2>1, <2>2, <2>3
<1>5. QED
  BY <1>2, <1>3, <1>4 DEF ControllerNext

\* Whatever is pushed between the read of the front and its pop, a line that is
\* lost has at least Capacity - 1 younger ones (IDasLogRequesterImpl.cpp).
THEOREM LostLinesAreOld == ControllerSpec => []OnlyOldLinesLost
<1>1. LinesInv => OnlyOldLinesLost
  BY DEF LinesInv
<1>2. QED
  BY <1>1, LinesInit, LinesNext, PTL DEF ControllerSpec

-------------------------------------------------------------------------------
(***************************************************************************)
(* The types of the log.  A line is being read while the mutex is owned.   *)
(***************************************************************************)
ControllerTypes ==
    /\ logged \in 0 .. MaxLines
    /\ buffer \in Seq(Lines) /\ delivered \in Seq(0 .. MaxLines)
    /\ mutex \in Clients \cup {None} /\ reading \in 0 .. MaxLines
    /\ mutex # None => reading \in Lines
    /\ at \in [Clients -> {"idle", "requesting", "reading", "copying"}]
    /\ message \in 0 .. MaxLines
    /\ response \in [Clients -> Seq(0 .. MaxLines)]
    /\ served \in Seq(0 .. MaxLines)
    /\ overlapped \in BOOLEAN

LEMMA ControllerTypesInit == ControllerInit => ControllerTypes
<1> SUFFICES ASSUME ControllerInit PROVE ControllerTypes
  OBVIOUS
<1>1. 0 \in 0 .. MaxLines
  BY RequesterAssumption
<1>2. /\ <<>> \in Seq(Lines) /\ <<>> \in Seq(0 .. MaxLines)
  OBVIOUS
<1>3. QED
  BY <1>1, <1>2 DEF ControllerInit, RequesterInit, ControllerTypes

\* What a push keeps of the buffer's type.
LEMMA PushTypes ==
    ASSUME NEW s \in Seq(Lines), NEW n \in Lines, Len(s) <= Capacity
    PROVE  Push(s, n) \in Seq(Lines)
<1>1. Append(s, n) \in Seq(Lines)
  BY AppendProperties
<1>2. ASSUME Capacity # 0, ~(Len(s) < Capacity) PROVE Append(Tail(s), n) \in Seq(Lines)
  <2>1. Len(s) \in Nat /\ Capacity \in Nat
    BY LenProperties, RequesterAssumption
  <2>2. s # <<>>
    BY <1>2, <2>1, EmptySeq
  <2>3. Tail(s) \in Seq(Lines)
    BY <2>2, HeadTailProperties
  <2>4. QED
    BY <2>3, AppendProperties
<1>3. QED
  BY <1>1, <1>2 DEF Push

LEMMA ControllerTypesStep ==
    LinesInv /\ ControllerTypes /\ [ControllerNext]_logVars => ControllerTypes'
<1> SUFFICES ASSUME LinesInv, ControllerTypes, [ControllerNext]_logVars PROVE ControllerTypes'
  OBVIOUS
<1>1. CASE UNCHANGED logVars
  BY <1>1 DEF logVars, requesterVars, controller, ControllerTypes
<1>2. CASE Accept /\ UNCHANGED controller
  <2>1. logged + 1 \in Lines /\ logged + 1 \in 0 .. MaxLines
    BY <1>2, RequesterAssumption DEF Accept, ControllerTypes, Lines
  <2>2. Push(buffer, logged + 1) \in Seq(Lines)
    BY <2>1, PushTypes DEF LinesInv, BufferInv, ControllerTypes
  <2>3. QED
    BY <1>2, <2>1, <2>2 DEF Accept, controller, ControllerTypes
<1>3. ASSUME NEW c \in Clients, GetLogs(c) PROVE ControllerTypes'
  <2>1. overlapped' \in BOOLEAN
    BY <1>3 DEF GetLogs
  <2>2. /\ response' \in [Clients -> Seq(0 .. MaxLines)]
        /\ at' \in [Clients -> {"idle", "requesting", "reading", "copying"}]
    BY <1>3 DEF GetLogs, Step, ControllerTypes
  <2>3. QED
    BY <1>3, <2>1, <2>2 DEF GetLogs, requesterVars, ControllerTypes
<1>4. ASSUME NEW c \in Clients, BeginRead(c) PROVE ControllerTypes'
  <2>1. buffer \in Seq(Lines) /\ buffer # <<>> /\ mutex' = c /\ reading' = Head(buffer)
    BY <1>4 DEF BeginRead, RequestOne, ControllerTypes
  <2>2. reading' \in Lines /\ reading' \in 0 .. MaxLines
    <3>1. Head(buffer) \in Lines
      BY <2>1, HeadTailProperties
    <3>2. QED
      BY <2>1, <3>1, RequesterAssumption DEF Lines
  <2>3. at' \in [Clients -> {"idle", "requesting", "reading", "copying"}]
    BY <1>4 DEF BeginRead, Step, ControllerTypes
  <2>4. QED
    BY <1>4, <2>1, <2>2, <2>3 DEF BeginRead, RequestOne, ControllerTypes
<1>5. ASSUME NEW c \in Clients, EndRead(c) PROVE ControllerTypes'
  <2>1. mutex = c /\ reading \in Lines /\ buffer # <<>>
    BY <1>5, RequesterAssumption
       DEF EndRead, ReadOneReturns, ControllerTypes, LinesInv, BufferInv
  <2>2. /\ buffer' \in Seq(Lines)
        /\ delivered' \in Seq(0 .. MaxLines) /\ message' \in 0 .. MaxLines
    <3>1. PICK text : /\ text \in {reading, 0} /\ message' = text
                      /\ delivered' = Append(delivered, text) /\ buffer' = Tail(buffer)
      BY <1>5 DEF EndRead, ReadOneReturns, TextRead, PopFront
    <3>2. text \in 0 .. MaxLines
      BY <2>1, <3>1, RequesterAssumption DEF Lines
    <3>3. QED
      BY <2>1, <3>1, <3>2, AppendProperties, HeadTailProperties DEF ControllerTypes
  <2>3. reading' \in 0 .. MaxLines
    BY <1>5, RequesterAssumption DEF EndRead, ReadOneReturns
  <2>4. at' \in [Clients -> {"idle", "requesting", "reading", "copying"}]
    BY <1>5 DEF EndRead, Step, ControllerTypes
  <2>5. QED
    BY <1>5, <2>2, <2>3, <2>4 DEF EndRead, ReadOneReturns, ControllerTypes
<1>6. ASSUME NEW c \in Clients, Copy(c) PROVE ControllerTypes'
  <2>1. /\ response[c] \in Seq(0 .. MaxLines) /\ served \in Seq(0 .. MaxLines)
        /\ message \in 0 .. MaxLines
    BY DEF ControllerTypes
  <2>2. Append(response[c], message) \in Seq(0 .. MaxLines) /\ served' \in Seq(0 .. MaxLines)
    BY <1>6, <2>1, AppendProperties DEF Copy
  <2>3. response' \in [Clients -> Seq(0 .. MaxLines)]
    BY <1>6, <2>2 DEF Copy, ControllerTypes
  <2>4. at' \in [Clients -> {"idle", "requesting", "reading", "copying"}]
    BY <1>6 DEF Copy, Step, ControllerTypes
  <2>5. QED
    BY <1>6, <2>2, <2>3, <2>4 DEF Copy, requesterVars, ControllerTypes
<1>7. ASSUME NEW c \in Clients, Empty(c) PROVE ControllerTypes'
  BY <1>7 DEF Empty, AfterEmpty, Step, requesterVars, ControllerTypes
<1>8. QED
  BY <1>1, <1>2, <1>3, <1>4, <1>5, <1>6, <1>7 DEF ControllerNext

\* The requester and the endpoint keep their types; the buffer never holds more
\* than its capacity, for all capacities, connections and lines.
THEOREM ControllerTypeCorrect == ControllerSpec => []ControllerTypeOK
<1>1. LinesInv /\ ControllerTypes => ControllerTypeOK
  BY DEF LinesInv, BufferInv, ControllerTypes, ControllerTypeOK, RequesterTypeOK
<1>2. QED
  BY <1>1, LinesInit, LinesNext, ControllerTypesInit, ControllerTypesStep, PTL
     DEF ControllerSpec

-------------------------------------------------------------------------------
(***************************************************************************)
(* Connections that do not overlap: the line one of them is about to copy  *)
(* is the reader's message, and the last that was delivered.               *)
(***************************************************************************)
Alone ==
    \A c, d \in Clients : at[c] # "idle" /\ at[d] # "idle" => c = d

ServedInv ==
    /\ DOMAIN at = Clients
    /\ ~overlapped =>
         /\ Alone
         /\ (\E c \in Clients : at[c] = "copying") => delivered = Append(served, message)
         /\ (\A c \in Clients : at[c] # "copying") => served = delivered

LEMMA ServedInit == ControllerInit => ServedInv
  BY DEF ControllerInit, RequesterInit, ServedInv, Alone

LEMMA ServedNext == ServedInv /\ [ControllerNext]_logVars => ServedInv'
<1> SUFFICES ASSUME ServedInv, [ControllerNext]_logVars PROVE ServedInv'
  OBVIOUS
<1>1. CASE UNCHANGED logVars
  BY <1>1 DEF logVars, requesterVars, controller, ServedInv, Alone
<1>2. CASE Accept /\ UNCHANGED controller
  BY <1>2 DEF Accept, controller, ServedInv, Alone
<1>3. ASSUME NEW c \in Clients, GetLogs(c) PROVE ServedInv'
  BY <1>3 DEF GetLogs, Step, requesterVars, ServedInv, Alone
<1>4. ASSUME NEW c \in Clients, BeginRead(c) PROVE ServedInv'
  BY <1>4 DEF BeginRead, RequestOne, Step, ServedInv, Alone
<1>5. ASSUME NEW c \in Clients, EndRead(c) PROVE ServedInv'
  BY <1>5 DEF EndRead, ReadOneReturns, Step, ServedInv, Alone
<1>6. ASSUME NEW c \in Clients, Copy(c) PROVE ServedInv'
  BY <1>6 DEF Copy, Step, requesterVars, ServedInv, Alone
<1>7. ASSUME NEW c \in Clients, Empty(c) PROVE ServedInv'
  BY <1>7 DEF Empty, AfterEmpty, Step, requesterVars, ServedInv, Alone
<1>8. QED
  BY <1>1, <1>2, <1>3, <1>4, <1>5, <1>6, <1>7 DEF ControllerNext

\* As long as no two requests for logs overlapped, the responses are the lines
\* delivered, once and in order (get_logs, DasLogController.hpp).
THEOREM NothingServedTwice == ControllerSpec => []ServedAsDelivered
<1>1. ServedInv => ServedAsDelivered
  BY DEF ServedInv, ServedAsDelivered
<1>2. QED
  BY <1>1, ServedInit, ServedNext, PTL DEF ControllerSpec

-------------------------------------------------------------------------------
(***************************************************************************)
(* ProfileController, for every set of tasks and times and every bound on  *)
(* the queue: what is read by index belongs together.                      *)
(***************************************************************************)
\* What the proof needs of the types.
ReadTypes ==
    /\ taskQueue \in Queues /\ copiedAt \in Queues
    /\ enumerated \in Seq(QueuedUnits \cup {Garbage})

\* The vector a host holds is the queue of the moment it was made, whatever
\* became of the queue since.
VectorIsCopy == holdsVector => vector = copiedAt

ReadInv == ReadTypes /\ VectorIsCopy /\ ListedTogether

-------------------------------------------------------------------------------
\* Every queue is a sequence of units.
LEMMA QueueIsSeq ==
    ASSUME NEW q \in Queues
    PROVE  q \in Seq(QueuedUnits) /\ Len(q) \in Nat /\ DOMAIN q = 1 .. Len(q)
<1>1. PICK n \in 0 .. MaxQueue : q \in [1 .. n -> QueuedUnits]
  BY DEF Queues
<1>2. n \in Nat
  BY <1>1, ProfileAssumption
<1>3. q \in Seq(QueuedUnits)
  BY <1>1, <1>2
<1>4. QED
  BY <1>3, LenProperties

LEMMA ReadInit == ProfileInit => ReadInv
<1> SUFFICES ASSUME ProfileInit PROVE ReadInv
  OBVIOUS
<1>1. <<>> \in Queues
  <2>1. 0 \in 0 .. MaxQueue
    BY ProfileAssumption
  <2>2. <<>> \in [1 .. 0 -> QueuedUnits]
    OBVIOUS
  <2>3. QED
    BY <2>1, <2>2 DEF Queues
<1>2. ReadTypes
  BY <1>1 DEF ProfileInit, ReadTypes
<1>3. ListedTogether
  BY DEF ProfileInit, ListedTogether
<1>4. QED
  BY <1>2, <1>3 DEF ProfileInit, ReadInv, VectorIsCopy

\* A copy that is taken again begins with nothing read.
LEMMA TakeKeeps == ReadInv /\ GetAllWorkingTasks => ReadInv'
<1> SUFFICES ASSUME ReadInv, GetAllWorkingTasks PROVE ReadInv'
  OBVIOUS
<1>1. /\ vector' = taskQueue /\ copiedAt' = taskQueue
      /\ enumerated' = <<>> /\ taskQueue' = taskQueue
  BY DEF GetAllWorkingTasks
<1>2. ReadTypes'
  BY <1>1 DEF ReadInv, ReadTypes
<1>3. ListedTogether'
  <2>1. Len(copiedAt') \in Nat
    BY <1>1, QueueIsSeq DEF ReadInv, ReadTypes
  <2>2. QED
    BY <1>1, <2>1 DEF ListedTogether
<1>4. QED
  BY <1>1, <1>2, <1>3 DEF ReadInv, VectorIsCopy

\* The next element is that of the copy, or what lies behind its last one.
LEMMA EnumeratedKeeps == ReadInv /\ EnumByIndex => ReadInv'
<1> SUFFICES ASSUME ReadInv, EnumByIndex PROVE ReadInv'
  OBVIOUS
<1> DEFINE n == Len(enumerated)
           m == Len(copiedAt)
<1>1. /\ vector = copiedAt /\ n <= m
      /\ taskQueue' = taskQueue /\ copiedAt' = copiedAt
      /\ vector' = vector /\ holdsVector' = holdsVector
  BY DEF ReadInv, VectorIsCopy, EnumByIndex, InRange, Elements
<1>2. /\ n \in Nat /\ m \in Nat /\ copiedAt \in Seq(QueuedUnits)
      /\ enumerated \in Seq(QueuedUnits \cup {Garbage})
  BY QueueIsSeq, LenProperties DEF ReadInv, ReadTypes
<1> DEFINE next == IF n < m THEN copiedAt[n + 1] ELSE Garbage
<1>3. enumerated' = enumerated \/ enumerated' = Append(enumerated, next)
  BY <1>1 DEF EnumByIndex, Elements
<1>4. next \in QueuedUnits \cup {Garbage}
  <2>1. CASE n < m
    <3>1. n + 1 \in 1 .. Len(copiedAt)
      BY <1>2, <2>1
    <3>2. QED
      BY <1>2, <2>1, <3>1, ElementOfSeq
  <2>2. CASE ~(n < m)
    BY <2>2
  <2>3. QED
    BY <2>1, <2>2
<1>5. CASE enumerated' = enumerated
  BY <1>1, <1>5 DEF ReadInv, ReadTypes, VectorIsCopy, ListedTogether
<1>6. CASE enumerated' = Append(enumerated, next)
  <2>1. /\ enumerated' \in Seq(QueuedUnits \cup {Garbage})
        /\ Len(enumerated') = n + 1
        /\ \A i \in 1 .. n : enumerated'[i] = enumerated[i]
        /\ enumerated'[n + 1] = next
    <3> HIDE DEF next
    <3>1. QED
      BY <1>2, <1>4, <1>6, AppendProperties
  <2>2. \A i \in 1 .. n : enumerated[i] = IF i <= m THEN copiedAt[i] ELSE Garbage
    BY <1>2, LenProperties DEF ReadInv, ListedTogether
  <2>3. next = IF n + 1 <= m THEN copiedAt[n + 1] ELSE Garbage
    BY <1>2
  <2>4. DOMAIN enumerated' = 1 .. n + 1
    BY <2>1, LenProperties
  <2>5. ListedTogether'
    <3> HIDE DEF next
    <3>1. Len(enumerated') <= Len(copiedAt') + 1
      BY <1>1, <1>2, <2>1
    <3>2. ASSUME NEW i \in 1 .. n + 1
          PROVE  enumerated'[i] = IF i <= Len(copiedAt') THEN copiedAt'[i] ELSE Garbage
      <4>1. CASE i = n + 1
        BY <1>1, <2>1, <2>3, <4>1
      <4>2. CASE i # n + 1
        <5>1. i \in 1 .. n
          BY <1>2, <4>2
        <5>2. QED
          BY <1>1, <2>1, <2>2, <5>1
      <4>3. QED
        BY <4>1, <4>2
    <3>3. QED
      BY <2>4, <3>1, <3>2 DEF ListedTogether
  <2>6. QED
    BY <1>1, <2>1, <2>5 DEF ReadInv, ReadTypes, VectorIsCopy
<1>7. QED
  BY <1>3, <1>5, <1>6

\* The text of the whole queue is a copy read to its end.
LEMMA TextKeeps == ReadInv /\ GetAllTaskSchedulerInfo => ReadInv'
<1> SUFFICES ASSUME ReadInv, GetAllTaskSchedulerInfo PROVE ReadInv'
  OBVIOUS
<1>1. /\ copiedAt' = taskQueue /\ enumerated' = taskQueue
      /\ taskQueue' = taskQueue /\ holdsVector' = FALSE
  BY DEF GetAllTaskSchedulerInfo
<1>2. /\ taskQueue \in Seq(QueuedUnits) /\ Len(taskQueue) \in Nat
      /\ DOMAIN taskQueue = 1 .. Len(taskQueue)
  BY QueueIsSeq DEF ReadInv, ReadTypes
<1>3. taskQueue \in Seq(QueuedUnits \cup {Garbage})
  BY <1>2
<1>4. ReadTypes'
  BY <1>1, <1>3 DEF ReadInv, ReadTypes
<1>5. ListedTogether'
  BY <1>1, <1>2 DEF ListedTogether
<1>6. QED
  BY <1>1, <1>4, <1>5 DEF ReadInv, VectorIsCopy

\* Whatever else happens does not touch what was copied and read.
LEMMA OthersKeep ==
    ASSUME ReadInv, taskQueue' \in Queues, holdsVector' => holdsVector,
           UNCHANGED <<vector, copiedAt, enumerated>>
    PROVE  ReadInv'
  BY DEF ReadInv, ReadTypes, VectorIsCopy, ListedTogether

LEMMA ReadStep == ReadInv /\ [ProfileNext]_profileVars => ReadInv'
<1> SUFFICES ASSUME ReadInv, [ProfileNext]_profileVars PROVE ReadInv'
  OBVIOUS
<1> taskQueue \in Queues
  BY DEF ReadInv, ReadTypes
<1>1. CASE UNCHANGED profileVars
  BY <1>1, OthersKeep DEF profileVars
<1>2. CASE SchedulerMoves
  BY <1>2, OthersKeep DEF SchedulerMoves, hostReads
<1>3. CASE GetProfileStatus \/ GetProfileList
  BY <1>3, OthersKeep DEF GetProfileStatus, GetProfileList, Serve, hostReads
<1>4. CASE \E known, on \in BOOLEAN : SetEnable(known, on)
  BY <1>4, OthersKeep DEF SetEnable, Serve, hostReads
<1>5. CASE \E known \in BOOLEAN : StartProfile(known) \/ StopProfile(known)
  BY <1>5, OthersKeep DEF StartProfile, StopProfile, Serve, hostReads
<1>6. CASE EnumEnds \/ GetTaskList
  BY <1>6, OthersKeep DEF EnumEnds, GetTaskList, hostReads
<1>7. QED
  BY <1>1, <1>2, <1>3, <1>4, <1>5, <1>6, TakeKeeps, EnumeratedKeeps, TextKeeps
     DEF ProfileNext

\* What a host enumerates of the scheduler's queue, one index per call, is the
\* queue of one moment, in order, and at most one element that is none
\* (EnumByIndex, TaskScheduler.cpp:142), however the queue changes meanwhile.
THEOREM EnumeratedTogether == ProfileSpec => []ListedTogether
<1>1. ReadInv => ListedTogether
  BY DEF ReadInv
<1>2. QED
  BY <1>1, ReadInit, ReadStep, PTL DEF ProfileSpec

-------------------------------------------------------------------------------
ProfileTypes ==
    /\ vector \in Queues
    /\ executing \in BOOLEAN /\ profileOn \in BOOLEAN /\ holdsVector \in BOOLEAN
    /\ profileAnswer \in
           [code : {"none", "ok", "working", "again", "out_of_range", "thrown"},
            run : BOOLEAN, enable : BOOLEAN]
    /\ listDied \in BOOLEAN

LEMMA ProfileTypesInit == ProfileInit => ProfileTypes
<1> SUFFICES ASSUME ProfileInit PROVE ProfileTypes
  OBVIOUS
<1>1. taskQueue \in Queues /\ vector = taskQueue
  BY ReadInit DEF ProfileInit, ReadInv, ReadTypes
<1>2. QED
  BY <1>1 DEF ProfileInit, ProfileTypes, Reply

LEMMA ProfileTypesStep ==
    ReadInv /\ ProfileTypes /\ [ProfileNext]_profileVars => ProfileTypes'
<1> SUFFICES ASSUME ReadInv, ProfileTypes, [ProfileNext]_profileVars PROVE ProfileTypes'
  OBVIOUS
<1> USE DEF ProfileTypes
<1>1. CASE UNCHANGED profileVars
  BY <1>1 DEF profileVars
<1>2. CASE SchedulerMoves
  BY <1>2 DEF SchedulerMoves, hostReads
<1>3. ASSUME NEW known, NEW code \in {"ok", "working", "again", "thrown"}, NEW run \in BOOLEAN,
             NEW enable \in BOOLEAN, profileOn' \in BOOLEAN,
             Serve(known, [code |-> code, run |-> run, enable |-> enable])
      PROVE  ProfileTypes'
  BY <1>3 DEF Serve, Reply, hostReads
<1>4. ASSUME NEW known \in BOOLEAN, NEW on \in BOOLEAN, SetEnable(known, on)
      PROVE  ProfileTypes'
  <2>1. profileOn' \in BOOLEAN
    BY <1>4 DEF SetEnable
  <2>2. QED
    BY <1>3, <1>4, <2>1 DEF SetEnable, Reply
<1>5. ASSUME NEW known \in BOOLEAN, StartProfile(known) \/ StopProfile(known)
      PROVE  ProfileTypes'
  <2>1. PICK code \in {"ok", "working", "again"} : Serve(known, Reply(code))
    BY <1>5 DEF StartProfile, StopProfile
  <2>2. profileOn' \in BOOLEAN
    BY <1>5 DEF StartProfile, StopProfile
  <2>3. QED
    BY <1>3, <2>1, <2>2 DEF Reply
<1>6. CASE GetAllWorkingTasks \/ GetAllTaskSchedulerInfo
  BY <1>6 DEF GetAllWorkingTasks, GetAllTaskSchedulerInfo, ReadInv, ReadTypes
<1>7. CASE EnumByIndex \/ EnumEnds \/ GetTaskList
  BY <1>7 DEF EnumByIndex, EnumEnds, GetTaskList, hostReads
<1>8. CASE GetProfileStatus
  <2>1. PICK run \in BOOLEAN, enable \in BOOLEAN :
            /\ profileOn' = enable
            /\ Serve(TRUE, [code |-> "ok", run |-> run, enable |-> enable])
    BY <1>8 DEF GetProfileStatus
  <2>2. QED
    BY <1>3, <2>1
<1>9. CASE GetProfileList
  <2>1. /\ profileOn' \in BOOLEAN
        /\ \/ Serve(TRUE, Reply("ok"))
           \/ Serve(TRUE, Reply("thrown"))
    BY <1>9 DEF GetProfileList
  <2>2. QED
    BY <1>3, <2>1 DEF Reply
<1>10. QED
  BY <1>1, <1>2, <1>4, <1>5, <1>6, <1>7, <1>8, <1>9 DEF ProfileNext

\* What the controller and the hosts read of the scheduler keeps its type.
THEOREM ProfileTypeCorrect == ProfileSpec => []ProfileTypeOK
<1>1. ReadInv /\ ProfileTypes => ProfileTypeOK
  BY DEF ReadInv, ReadTypes, ProfileTypes, ProfileTypeOK
<1>2. QED
  BY <1>1, ReadInit, ReadStep, ProfileTypesInit, ProfileTypesStep, PTL DEF ProfileSpec
===============================================================================
