----------------------------- MODULE ObjectsProofs -----------------------------
(***************************************************************************)
(* Proofs about the value objects: images over shared memory, references   *)
(* into json, vectors and strings, for every bound, every set of names and *)
(* all texts; and about all of them together, as MCObjects has them.       *)
(***************************************************************************)
EXTENDS MCObjects, ReferenceProofs, WellFoundedInduction

-------------------------------------------------------------------------------
(***************************************************************************)
(* Images.  A sound image over a block keeps the memory and lies within    *)
(* the block, which stays as it was when other blocks follow.  The test of *)
(* the size makes an image sound because the first block is as large as    *)
(* the size that is recorded, until a second one is there.                 *)
(***************************************************************************)
BlocksInv ==
    /\ \E n \in 1 .. MaxResizes + 1 : DOMAIN blocks = 1 .. n
    /\ \A b \in DOMAIN blocks : blocks[b] \in 0 .. MaxBytes
    /\ size \in 0 .. MaxBytes
    /\ offset \in -MaxBytes .. MaxBytes /\ offset < size /\ offsetIn \in DOMAIN blocks
    /\ memoryHeld \in BOOLEAN /\ memoryGone \in BOOLEAN

FirstBlock == DOMAIN blocks = {1} => size = blocks[1]

Pictures == {i \in ImageRecords : i.from + i.pixels <= MaxBytes + MaxPixels}
Lying(i) ==
    \/ i.block = NoBlock
    \/ /\ i.block \in DOMAIN blocks /\ i.keeps /\ i.upright
       /\ i.from >= 0 /\ i.from + i.pixels <= blocks[i.block]

SoundImages == images \subseteq Pictures /\ \A i \in images : i.sound => Lying(i)
KeptMemory == memoryGone => ~memoryHeld /\ \A i \in images : ~i.keeps

ImagesInv == BlocksInv /\ FirstBlock /\ SoundImages /\ KeptMemory

\* A picture that a caller may name is no larger than the largest.
LEMMA PixelsAre ==
    /\ MaxPixels \in Nat
    /\ \A h, w \in Sides : h * w \in Int
    /\ \A h, w \in 0 .. MaxSide : h * w \in 0 .. MaxPixels
<1>1. MaxSide \in Nat
  BY ImagesAssumption
<1>2. MaxPixels \in Nat /\ \A h, w \in Sides : h * w \in Int
  BY <1>1 DEF MaxPixels, Sides
<1>3. ASSUME NEW h \in 0 .. MaxSide, NEW w \in 0 .. MaxSide PROVE h * w \in 0 .. MaxPixels
  <2>1. h * w \in Int /\ h * w >= 0
    BY <1>1
  <2>2. h * w <= h * MaxSide
    BY <1>1
  <2>3. h * MaxSide <= MaxSide * MaxSide
    BY <1>1
  <2>4. QED
    BY <1>1, <2>1, <2>2, <2>3 DEF MaxPixels
<1>4. QED
  BY <1>2, <1>3

LEMMA LastBlock ==
    ASSUME BlocksInv
    PROVE  Current \in 1 .. MaxResizes + 1 /\ DOMAIN blocks = 1 .. Current
<1>1. PICK n \in 1 .. MaxResizes + 1 : DOMAIN blocks = 1 .. n
  BY DEF BlocksInv
<1>2. Cardinality(1 .. n) = n
  BY <1>1, FS_Interval, ImagesAssumption
<1>3. QED
  BY <1>1, <1>2 DEF Current

LEMMA ImagesInitInv == ImagesInit => ImagesInv
<1> SUFFICES ASSUME ImagesInit PROVE ImagesInv
  OBVIOUS
<1>1. PICK n \in 1 .. MaxBytes : blocks = [b \in {1} |-> n] /\ size = n
  BY DEF ImagesInit
<1>2. DOMAIN blocks = 1 .. 1 /\ 1 \in 1 .. MaxResizes + 1
  BY <1>1, ImagesAssumption
<1>3. /\ \A b \in DOMAIN blocks : blocks[b] \in 0 .. MaxBytes
      /\ size \in 0 .. MaxBytes /\ 0 \in -MaxBytes .. MaxBytes /\ 0 < size
  BY <1>1, ImagesAssumption
<1>4. BlocksInv
  BY <1>2, <1>3 DEF ImagesInit, BlocksInv
<1>5. FirstBlock /\ SoundImages /\ KeptMemory
  BY <1>1 DEF ImagesInit, FirstBlock, SoundImages, KeptMemory
<1>6. QED
  BY <1>4, <1>5 DEF ImagesInv

\* One image more, over the memory somebody holds, of its own, or clipped.
LEMMA OneImage ==
    ASSUME ImagesInv, NEW i \in Pictures, images' = images \cup {i},
           i.sound => Lying(i), i.keeps => ~memoryGone,
           UNCHANGED <<memoryState, memoryHeld, memoryGone>>
    PROVE  ImagesInv'
<1>1. BlocksInv' /\ FirstBlock'
  BY DEF ImagesInv, memoryState, BlocksInv, FirstBlock
<1>2. Pictures' = Pictures /\ \A j : Lying(j)' = Lying(j)
  BY DEF memoryState, Lying
<1>3. SoundImages'
  BY <1>2 DEF ImagesInv, SoundImages
<1>4. KeptMemory'
  BY DEF ImagesInv, KeptMemory
<1>5. QED
  BY <1>1, <1>3, <1>4 DEF ImagesInv

LEMMA ResizeKeeps ==
    ASSUME ImagesInv, NEW n \in 1 .. MaxBytes, Resize(n) PROVE ImagesInv'
<1>1. Current \in 1 .. MaxResizes + 1 /\ DOMAIN blocks = 1 .. Current
  BY LastBlock DEF ImagesInv
<1>2. /\ Current <= MaxResizes /\ n > size /\ size' = n /\ memoryHeld
      /\ blocks' = [b \in DOMAIN blocks \cup {Current + 1} |->
                       IF b \in DOMAIN blocks THEN blocks[b] ELSE size]
      /\ UNCHANGED <<offset, offsetIn, memoryHeld, memoryGone, images>>
  BY DEF Resize
<1>3. DOMAIN blocks' = 1 .. Current + 1
  BY <1>1, <1>2, ImagesAssumption
<1>4. Current + 1 \in 1 .. MaxResizes + 1
  BY <1>1, <1>2, ImagesAssumption
<1>5. \A b \in DOMAIN blocks' : blocks'[b] \in 0 .. MaxBytes
  BY <1>2 DEF ImagesInv, BlocksInv
<1>6. offset < n /\ n \in 0 .. MaxBytes /\ offsetIn \in DOMAIN blocks'
  BY <1>2, ImagesAssumption DEF ImagesInv, BlocksInv
<1>7. BlocksInv'
  BY <1>2, <1>3, <1>4, <1>5, <1>6 DEF ImagesInv, BlocksInv
<1>8. FirstBlock'
  <2>1. 1 \in DOMAIN blocks /\ Current + 1 \in DOMAIN blocks' /\ Current + 1 # 1
    BY <1>1, <1>3
  <2>2. QED
    BY <2>1 DEF FirstBlock
<1>9. SoundImages' /\ KeptMemory'
  <2>1. DOMAIN blocks \subseteq DOMAIN blocks' /\ \A b \in DOMAIN blocks : blocks'[b] = blocks[b]
    BY <1>2
  <2>2. \A i : Lying(i) => Lying(i)'
    BY <2>1 DEF Lying
  <2>3. QED
    BY <1>2, <2>2 DEF ImagesInv, SoundImages, KeptMemory
<1>10. QED
  BY <1>7, <1>8, <1>9 DEF ImagesInv

LEMMA SetOffsetKeeps ==
    ASSUME ImagesInv, NEW n \in -MaxBytes .. MaxBytes, SetOffset(n) PROVE ImagesInv'
<1>1. Current \in DOMAIN blocks
  BY LastBlock, ImagesAssumption DEF ImagesInv
<1>2. /\ n < size /\ offset' = n /\ offsetIn' = Current
      /\ UNCHANGED <<blocks, size, memoryHeld, memoryGone, images>>
  BY DEF SetOffset
<1>3. BlocksInv' /\ FirstBlock'
  BY <1>1, <1>2 DEF ImagesInv, BlocksInv, FirstBlock
<1>4. SoundImages' /\ KeptMemory'
  BY <1>2 DEF ImagesInv, SoundImages, Lying, KeptMemory
<1>5. QED
  BY <1>3, <1>4 DEF ImagesInv

\* Where the test is one of the picture and of the memory, it suffices.
LEMMA TestSuffices ==
    ASSUME ImagesInv, NEW h \in Sides, NEW w \in Sides, Tested(h, w), FitsInSize(h, w)
    PROVE  Lies(h, w)
<1> DEFINE n == h * w
<1>1. n \in Int /\ h >= 0 /\ w >= 0 /\ n < IntLimit /\ Current = 1 /\ offset = 0
  BY PixelsAre DEF Tested
<1>2. n >= 0
  <2>1. h \in 0 .. MaxSide /\ w \in 0 .. MaxSide
    BY <1>1, ImagesAssumption DEF Sides
  <2>2. QED
    BY <2>1, PixelsAre
<1>3. AsInt(n) = n
  BY <1>1, <1>2, ImagesAssumption DEF AsInt
<1>4. n <= size
  BY <1>3 DEF FitsInSize
<1>5. DOMAIN blocks = {1}
  BY <1>1, LastBlock DEF ImagesInv
<1>6. size = blocks[1] /\ offsetIn = 1
  BY <1>5 DEF ImagesInv, FirstBlock, BlocksInv
<1>7. offset + n = n
  BY <1>1
<1> HIDE DEF n
<1>8. offset + n <= blocks[Current]
  BY <1>1, <1>4, <1>6, <1>7
<1>9. QED
  BY <1>1, <1>6, <1>8 DEF Lies, n

LEMMA CreateKeeps ==
    ASSUME ImagesInv, NEW h \in Sides, NEW w \in Sides, CreateFromRgb888(h, w)
    PROVE  ImagesInv'
<1> DEFINE n == IF h >= 0 /\ w >= 0 THEN h * w ELSE 0
           i == [block |-> offsetIn, from |-> offset, pixels |-> n,
                 upright |-> h >= 0 /\ w >= 0, keeps |-> TRUE,
                 sound |-> Tested(h, w) \/ Lies(h, w)]
<1>1. /\ memoryHeld /\ FitsInSize(h, w) /\ images' = images \cup {i}
      /\ UNCHANGED <<memoryState, memoryHeld, memoryGone>>
  BY DEF CreateFromRgb888
<1>2. offsetIn \in 1 .. MaxResizes + 1 /\ offsetIn \in DOMAIN blocks
  BY LastBlock, ImagesAssumption DEF ImagesInv, BlocksInv
<1>3. n \in 0 .. MaxPixels /\ MaxPixels \in Nat
  <2>1. CASE h >= 0 /\ w >= 0
    <3>1. h \in 0 .. MaxSide /\ w \in 0 .. MaxSide
      BY <2>1, ImagesAssumption DEF Sides
    <3>2. h * w \in 0 .. MaxPixels
      BY <3>1, PixelsAre
    <3>3. QED
      BY <2>1, <3>2, PixelsAre
  <2>2. CASE ~(h >= 0 /\ w >= 0)
    BY <2>2, PixelsAre
  <2>3. QED
    BY <2>1, <2>2
<1>4. (h >= 0 /\ w >= 0) \in BOOLEAN /\ (Tested(h, w) \/ Lies(h, w)) \in BOOLEAN
  BY DEF Tested, Lies
<1>5. i.sound => Lying(i)
  <2> SUFFICES ASSUME Lies(h, w) PROVE Lying(i)
    BY <1>1, TestSuffices
  <2>1. h >= 0 /\ w >= 0 /\ n = h * w
    BY DEF Lies
  <2>2. offsetIn = Current /\ offset >= 0 /\ offset + n <= blocks[Current]
    BY <2>1 DEF Lies
  <2>3. /\ i.block = offsetIn /\ i.keeps = TRUE /\ i.upright = (h >= 0 /\ w >= 0)
        /\ i.from = offset /\ i.pixels = n
    OBVIOUS
  <2> HIDE DEF n, i
  <2>4. QED
    BY <1>2, <2>1, <2>2, <2>3 DEF Lying
<1> HIDE DEF n
<1>6. i \in Pictures
  <2>1. /\ offset \in -MaxBytes .. MaxBytes + MaxPixels
        /\ offset + n <= MaxBytes + MaxPixels /\ n \in 0 .. MaxBytes + MaxPixels
    BY <1>3, ImagesAssumption DEF ImagesInv, BlocksInv
  <2>2. offsetIn \in 0 .. MaxResizes + 1
    BY <1>2
  <2>3. i \in ImageRecords
    BY <1>4, <2>1, <2>2 DEF ImageRecords
  <2>4. QED
    BY <2>1, <2>3 DEF Pictures
<1>7. ~memoryGone
  BY <1>1 DEF ImagesInv, KeptMemory
<1> HIDE DEF i
<1>8. QED
  BY <1>1, <1>5, <1>6, <1>7, OneImage

LEMMA CreateOwnKeeps ==
    ASSUME ImagesInv, NEW n \in 1 .. MaxBytes, CreateOwn(n) PROVE ImagesInv'
<1> DEFINE i == [block |-> NoBlock, from |-> 0, pixels |-> n, upright |-> TRUE,
                 keeps |-> FALSE, sound |-> TRUE]
<1>1. images' = images \cup {i} /\ UNCHANGED <<memoryState, memoryHeld, memoryGone>>
  BY DEF CreateOwn
<1>2. i \in Pictures /\ Lying(i) /\ i.keeps = FALSE
  BY ImagesAssumption, PixelsAre DEF Pictures, ImageRecords, Lying, NoBlock
<1>3. QED
  BY <1>1, <1>2, OneImage

LEMMA ClipKeeps ==
    ASSUME ImagesInv, NEW i \in images, NEW from \in 0 .. MaxBytes,
           NEW n \in 1 .. MaxBytes, Clip(i, from, n)
    PROVE  ImagesInv'
<1>1. PICK c : c = [i EXCEPT !.from = @ + from, !.pixels = n]
  OBVIOUS
<1>2. /\ from + n <= i.pixels /\ images' = images \cup {c}
      /\ UNCHANGED <<memoryState, memoryHeld, memoryGone>>
  BY <1>1 DEF Clip
<1>3. i \in ImageRecords /\ i.from + i.pixels <= MaxBytes + MaxPixels
  BY DEF ImagesInv, SoundImages, Pictures
<1>4. /\ i.from \in -MaxBytes .. MaxBytes + MaxPixels /\ n \in 0 .. MaxBytes + MaxPixels
      /\ i.from + from \in -MaxBytes .. MaxBytes + MaxPixels
      /\ i.from + from + n <= i.from + i.pixels /\ i.pixels \in Nat
  BY <1>2, <1>3, ImagesAssumption, PixelsAre DEF ImageRecords
<1>5. c \in ImageRecords
  BY <1>1, <1>3, <1>4 DEF ImageRecords
<1>6. /\ c.block = i.block /\ c.keeps = i.keeps /\ c.upright = i.upright
      /\ c.sound = i.sound /\ c.from = i.from + from /\ c.pixels = n
  BY <1>1, <1>3 DEF ImageRecords
<1>7. c \in Pictures
  BY <1>3, <1>4, <1>5, <1>6, ImagesAssumption, PixelsAre DEF Pictures
<1>8. c.sound => Lying(c)
  <2> SUFFICES ASSUME Lying(i) PROVE Lying(c)
    BY <1>6 DEF ImagesInv, SoundImages
  <2>1. i.block \in DOMAIN blocks => blocks[i.block] \in 0 .. MaxBytes
    BY DEF ImagesInv, BlocksInv
  <2>2. QED
    BY <1>4, <1>6, <2>1, ImagesAssumption DEF Lying
<1>9. c.keeps => ~memoryGone
  BY <1>6 DEF ImagesInv, KeptMemory
<1>10. QED
  BY <1>2, <1>7, <1>8, <1>9, OneImage

LEMMA ImagesReleased ==
    ASSUME ImagesInv, ReleaseMemory \/ \E i \in images : ReleaseImage(i) PROVE ImagesInv'
<1>1. images' \subseteq images /\ UNCHANGED <<blocks, size, offset, offsetIn>>
  BY DEF ReleaseMemory, ReleaseImage, memoryState
<1>2. memoryHeld' \in BOOLEAN /\ memoryGone' \in BOOLEAN
  BY DEF ImagesInv, BlocksInv, ReleaseMemory, ReleaseImage, Released
<1>3. BlocksInv' /\ FirstBlock'
  BY <1>1, <1>2 DEF ImagesInv, BlocksInv, FirstBlock
<1>4. SoundImages'
  BY <1>1 DEF ImagesInv, SoundImages, Lying
<1>5. KeptMemory'
  BY <1>1 DEF ImagesInv, KeptMemory, ReleaseMemory, ReleaseImage, Released
<1>6. QED
  BY <1>3, <1>4, <1>5 DEF ImagesInv

LEMMA ImagesStep == ImagesInv /\ [ImagesNext]_imageVars => ImagesInv'
<1> SUFFICES ASSUME ImagesInv, [ImagesNext]_imageVars PROVE ImagesInv'
  OBVIOUS
<1>1. CASE UNCHANGED imageVars
  BY <1>1 DEF imageVars, ImagesInv, BlocksInv, FirstBlock, SoundImages, Lying, KeptMemory
<1>2. CASE \E n \in -MaxBytes .. MaxBytes : SetOffset(n)
  BY <1>2, SetOffsetKeeps
<1>3. CASE \E n \in 1 .. MaxBytes : Resize(n) \/ CreateOwn(n)
  BY <1>3, ResizeKeeps, CreateOwnKeeps
<1>4. CASE \E h, w \in Sides : CreateFromRgb888(h, w)
  BY <1>4, CreateKeeps
<1>5. CASE \E i \in images :
             \/ ReleaseImage(i)
             \/ \E from \in 0 .. MaxBytes, n \in 1 .. MaxBytes : Clip(i, from, n)
  BY <1>5, ImagesReleased, ClipKeeps
<1>6. CASE ReleaseMemory
  BY <1>6, ImagesReleased
<1>7. QED
  BY <1>1, <1>2, <1>3, <1>4, <1>5, <1>6 DEF ImagesNext

LEMMA ImagesAlways == ImagesSpec => []ImagesInv
  BY ImagesInitInv, ImagesStep, PTL DEF ImagesSpec

LEMMA ImagesInvTypes == ImagesInv => ImagesTypeOK
<1> SUFFICES ASSUME ImagesInv PROVE ImagesTypeOK
  OBVIOUS
<1>1. DOMAIN blocks = 1 .. Cardinality(DOMAIN blocks)
  BY LastBlock DEF ImagesInv, Current
<1>2. QED
  BY <1>1 DEF ImagesInv, BlocksInv, SoundImages, Pictures, ImagesTypeOK

\* Blocks, offsets and images keep their types, also through clips of images
\* taken beyond the end of the memory (SetOffset, CreateIDasImageFromRgb888).
THEOREM ImagesTypeCorrect == ImagesSpec => []ImagesTypeOK
  BY ImagesInvTypes, ImagesAlways, PTL

LEMMA ImagesInvShows == ImagesInv => ImagesShowMemory
<1> SUFFICES ASSUME ImagesInv, NEW i \in images, i.sound,
                    i.block \in {NoBlock, Current}
             PROVE  Shown(i)
  BY DEF ImagesShowMemory
<1>1. Lying(i)
  BY DEF ImagesInv, SoundImages
<1>2. i.keeps => ~memoryGone
  BY DEF ImagesInv, KeptMemory
<1>3. QED
  BY <1>1, <1>2 DEF Lying, Shown

\* Of every size, signed or too large for an int, and over memory with any
\* offset or resized: an image that lay in its memory, or was tested by
\* CreateIDasImageFromRgb888 where its test suffices, shows what is allocated,
\* and so does every clip of it, whatever is released and when, until a Resize.
THEOREM ImagesShowAllocated == ImagesSpec => []ImagesShowMemory
  BY ImagesInvShows, ImagesAlways, PTL

-------------------------------------------------------------------------------
(***************************************************************************)
(* Paths: what the operators on sequences come to, place by place.         *)
(***************************************************************************)
Paths == Seq(Names)

LEMMA PathsAre ==
    \A q \in Paths : q \in Seq(Names) /\ Len(q) \in Nat /\ \A i \in 1 .. Len(q) : q[i] \in Names
  BY LenProperties, ElementOfSeq DEF Paths

LEMMA BoundedPaths ==
    \A q : q \in BoundedSeq(Names, MaxDepth) <=> q \in Paths /\ Len(q) <= MaxDepth
<1>1. ASSUME NEW q \in BoundedSeq(Names, MaxDepth) PROVE q \in Paths /\ Len(q) <= MaxDepth
  <2>1. PICK n \in 0 .. MaxDepth : q \in [1 .. n -> Names]
    BY <1>1 DEF BoundedSeq, SeqOf
  <2>2. n \in Nat /\ n <= MaxDepth /\ q \in Paths
    BY <2>1, SeqDef, JsonAssumption DEF Paths
  <2>3. Len(q) \in Nat /\ DOMAIN q = 1 .. Len(q)
    BY <2>2, LenProperties DEF Paths
  <2>4. Len(q) = n
    BY <2>1, <2>2, <2>3
  <2>5. QED
    BY <2>2, <2>4
<1>2. ASSUME NEW q \in Paths, Len(q) <= MaxDepth PROVE q \in BoundedSeq(Names, MaxDepth)
  <2>1. Len(q) \in 0 .. MaxDepth /\ q \in [1 .. Len(q) -> Names]
    BY <1>2, LenProperties, JsonAssumption DEF Paths
  <2>2. QED
    BY <2>1 DEF BoundedSeq, SeqOf
<1>3. QED
  BY <1>1, <1>2

LEMMA ShortPaths ==
    /\ <<>> \in Paths /\ Len(<<>>) = 0
    /\ \A k : Len(<<k>>) = 1 /\ <<k>>[1] = k
    /\ \A k \in Names : <<k>> \in Paths /\ Append(<<>>, k) = <<k>>
  BY DEF Paths

LEMMA SamePath ==
    ASSUME NEW q \in Paths, NEW r \in Paths, Len(q) = Len(r),
           \A i \in 1 .. Len(q) : q[i] = r[i]
    PROVE  q = r
  BY SeqEqual DEF Paths

\* The path of a member or an element.
LEMMA OneBelow ==
    ASSUME NEW p \in Paths, NEW c \in Names
    PROVE  /\ Append(p, c) \in Paths /\ Append(p, c) # <<>>
           /\ Len(Append(p, c)) = Len(p) + 1
           /\ \A i \in 1 .. Len(p) : Append(p, c)[i] = p[i]
           /\ Append(p, c)[Len(p) + 1] = c
           /\ Last(Append(p, c)) = c
  BY AppendProperties DEF Paths, Last

\* The path of the value a member or an element belongs to.
LEMMA OneAbove ==
    ASSUME NEW q \in Paths, q # <<>>
    PROVE  /\ Len(q) >= 1 /\ Front(q) \in Paths /\ Len(Front(q)) = Len(q) - 1
           /\ \A i \in 1 .. Len(q) - 1 : Front(q)[i] = q[i]
           /\ Last(q) \in Names /\ Last(q) = q[Len(q)]
<1>1. Len(q) \in Nat /\ Len(q) >= 1 /\ \A i \in 1 .. Len(q) : q[i] \in Names
  BY EmptySeq, PathsAre DEF Paths
<1>2. PICK n \in Nat : n = Len(q) - 1
  BY <1>1
<1>3. /\ Len(Front(q)) = Len(q) - 1 /\ Front(q) \in Paths
      /\ \A i \in 1 .. Len(q) - 1 : Front(q)[i] = q[i]
  <2>1. Front(q) = SubSeq(q, 1, n) /\ \A i \in 1 .. n : q[i] \in Names
    BY <1>1, <1>2 DEF Front
  <2>2. /\ SubSeq(q, 1, n) \in Seq(Names)
        /\ Len(SubSeq(q, 1, n)) = IF 1 <= n THEN n - 1 + 1 ELSE 0
        /\ \A i \in 1 .. n - 1 + 1 : SubSeq(q, 1, n)[i] = q[1 + i - 1]
    BY <2>1, SubSeqProperties
  <2>3. Len(SubSeq(q, 1, n)) = n /\ n - 1 + 1 = n /\ \A i \in 1 .. n : 1 + i - 1 = i
    BY <2>2
  <2>4. QED
    BY <1>2, <2>1, <2>2, <2>3 DEF Paths
<1>4. Last(q) = q[Len(q)] /\ q[Len(q)] \in Names
  BY <1>1 DEF Last
<1>5. QED
  BY <1>1, <1>3, <1>4

LEMMA FrontOfOneBelow ==
    ASSUME NEW p \in Paths, NEW c \in Names PROVE Front(Append(p, c)) = p
<1>1. /\ Append(p, c) \in Paths /\ Append(p, c) # <<>>
      /\ Len(Append(p, c)) = Len(p) + 1 /\ Len(p) \in Nat
      /\ \A i \in 1 .. Len(p) : Append(p, c)[i] = p[i]
  BY OneBelow, PathsAre
<1> DEFINE q == Append(p, c)
<1>2. /\ q \in Paths /\ q # <<>> /\ Len(q) - 1 = Len(p)
      /\ \A i \in 1 .. Len(p) : q[i] = p[i]
  BY <1>1
<1> HIDE DEF q
<1>3. /\ Front(q) \in Paths /\ Len(Front(q)) = Len(p)
      /\ \A i \in 1 .. Len(p) : Front(q)[i] = q[i]
  BY <1>2, OneAbove
<1>4. Front(q) = p
  BY <1>2, <1>3, SamePath
<1>5. QED
  BY <1>4 DEF q

LEMMA PrefixIs ==
    ASSUME NEW s \in Paths, NEW t \in Paths
    PROVE  IsPrefix(s, t) <=> Len(s) <= Len(t) /\ \A i \in 1 .. Len(s) : s[i] = t[i]
<1>1. Len(s) \in Nat /\ Len(t) \in Nat /\ s \in Seq(Names) /\ t \in Seq(Names)
      /\ (\A i \in 1 .. Len(s) : s[i] \in Names) /\ (\A i \in 1 .. Len(t) : t[i] \in Names)
  BY PathsAre
<1>2. SubSeq(s, 1, Len(s)) = s
  BY <1>1, SubSeqFull
<1>3. ASSUME Len(s) <= Len(t)
      PROVE  /\ SubSeq(t, 1, Len(s)) \in Paths /\ Len(SubSeq(t, 1, Len(s))) = Len(s)
             /\ \A i \in 1 .. Len(s) : SubSeq(t, 1, Len(s))[i] = t[i]
  <2>1. \A i \in 1 .. Len(s) : t[i] \in Names
    BY <1>1, <1>3
  <2>2. /\ SubSeq(t, 1, Len(s)) \in Seq(Names)
        /\ Len(SubSeq(t, 1, Len(s))) = IF 1 <= Len(s) THEN Len(s) - 1 + 1 ELSE 0
        /\ \A i \in 1 .. Len(s) - 1 + 1 : SubSeq(t, 1, Len(s))[i] = t[1 + i - 1]
    BY <1>1, <2>1, SubSeqProperties
  <2>3. QED
    BY <1>1, <2>2 DEF Paths
<1>4. QED
  BY <1>2, <1>3, SamePath DEF IsPrefix

\* The path of the copy of what is at r, when the value at p is copied to at.
LEMMA CopiedPath ==
    ASSUME NEW at \in Paths, NEW p \in Paths, NEW r \in Paths, Len(p) <= Len(r)
    PROVE  LET q == at \o SubSeq(r, Len(p) + 1, Len(r)) IN
           /\ q \in Paths /\ Len(q) = Len(at) + (Len(r) - Len(p))
           /\ \A i \in 1 .. Len(at) : q[i] = at[i]
           /\ \A j \in 1 .. Len(r) - Len(p) : q[Len(at) + j] = r[Len(p) + j]
<1> DEFINE s == SubSeq(r, Len(p) + 1, Len(r))
<1>1. /\ Len(at) \in Nat /\ Len(p) \in Nat /\ Len(r) \in Nat
      /\ \A i \in Len(p) + 1 .. Len(r) : r[i] \in Names
  BY PathsAre
<1>2. /\ s \in Seq(Names)
      /\ Len(s) = IF Len(p) + 1 <= Len(r) THEN Len(r) - (Len(p) + 1) + 1 ELSE 0
      /\ \A j \in 1 .. Len(r) - (Len(p) + 1) + 1 : s[j] = r[Len(p) + 1 + j - 1]
  BY <1>1, SubSeqProperties
<1>3. Len(s) = Len(r) - Len(p) /\ \A j \in 1 .. Len(r) - Len(p) : s[j] = r[Len(p) + j]
  BY <1>1, <1>2
<1> HIDE DEF s
<1>4. /\ at \o s \in Seq(Names) /\ Len(at \o s) = Len(at) + Len(s)
      /\ \A i \in 1 .. Len(at) + Len(s) :
             (at \o s)[i] = IF i <= Len(at) THEN at[i] ELSE s[i - Len(at)]
  BY <1>2, ConcatProperties DEF Paths
<1>5. \A i \in 1 .. Len(at) : (at \o s)[i] = at[i]
  BY <1>1, <1>3, <1>4
<1>6. ASSUME NEW j \in 1 .. Len(r) - Len(p) PROVE (at \o s)[Len(at) + j] = r[Len(p) + j]
  <2>1. /\ Len(at) + j \in 1 .. Len(at) + Len(s) /\ ~(Len(at) + j <= Len(at))
        /\ Len(at) + j - Len(at) = j
    BY <1>1, <1>3
  <2>2. QED
    BY <1>3, <1>4, <2>1
<1>7. QED
  BY <1>3, <1>4, <1>5, <1>6 DEF s, Paths

-------------------------------------------------------------------------------
(***************************************************************************)
(* DasJson.  What a document is made of: every value but the root belongs  *)
(* to an object or to an array, as its name says.                          *)
(***************************************************************************)
Shape(t) ==
    /\ <<>> \in DOMAIN t
    /\ \A q \in DOMAIN t : q \in Paths /\ Len(q) <= MaxDepth /\ t[q] \in Kinds
    /\ \A q \in DOMAIN t \ {<<>>} : Front(q) \in DOMAIN t /\ t[Front(q)] = Container(Last(q))

JsonRefs == [to : BoundedSeq(Names, MaxDepth), good : BOOLEAN]
MembersGood ==
    alive => \A r \in refs, k \in Keys : r.to = <<k>> => r.good /\ <<k>> \in DOMAIN tree

Answers == {"DAS_S_OK", "DAS_E_TYPE_ERROR", "DAS_E_DANGLING_REFERENCE",
            "DAS_E_INTERNAL_FATAL_ERROR", "DAS_E_INVALID_JSON", "exception"}

JsonInv ==
    /\ Shape(tree) /\ refs \subseteq JsonRefs /\ MembersGood
    /\ alive \in BOOLEAN /\ jsonAnswer \in Answers

LEMMA PlacesFromOne == \A i \in DOMAIN Places : i \in 1 .. i /\ 1 .. i \subseteq DOMAIN Places
<1>1. DOMAIN Places = 1 .. Len(Places) /\ Len(Places) \in Nat
  BY JsonAssumption, LenProperties
<1>2. QED
  BY <1>1

\* The names of what operator[] adds are of the container it indexes.
LEMMA AddedNames ==
    ASSUME NEW p \in Paths, NEW c \in Names
    PROVE  /\ \A q \in Added(p, c) :
                /\ q \notin DOMAIN tree
                /\ \E d \in Names : q = Append(p, d) /\ Container(d) = Container(c)
           /\ Append(p, c) \in DOMAIN tree \cup Added(p, c)
<1> DEFINE D == IF c \in Keys THEN {c} ELSE UpTo(c)
<1>1. \A d \in D : d \in Names /\ Container(d) = Container(c)
  <2>1. CASE c \in Keys
    BY <2>1
  <2>2. CASE c \notin Keys
    <3>1. PICK j \in DOMAIN Places : Places[j] = c
      BY <2>2 DEF Names, Range
    <3> DEFINE i == CHOOSE k \in DOMAIN Places : Places[k] = c
    <3>2. i \in DOMAIN Places /\ D = {Places[k] : k \in 1 .. i}
      BY <2>2, <3>1 DEF UpTo
    <3>3. \A k \in 1 .. i : k \in DOMAIN Places
      BY <3>2, PlacesFromOne
    <3>4. \A d \in D : d \in Range(Places)
      BY <3>2, <3>3 DEF Range
    <3>5. QED
      BY <2>2, <3>4, JsonAssumption DEF Names, Container
  <2>3. QED
    BY <2>1, <2>2
<1>2. c \in D
  <2>1. CASE c \in Keys
    BY <2>1
  <2>2. CASE c \notin Keys
    <3>1. PICK j \in DOMAIN Places : Places[j] = c
      BY <2>2 DEF Names, Range
    <3> DEFINE i == CHOOSE k \in DOMAIN Places : Places[k] = c
    <3>2. i \in DOMAIN Places /\ Places[i] = c /\ D = {Places[k] : k \in 1 .. i}
      BY <2>2, <3>1 DEF UpTo
    <3>3. i \in 1 .. i
      BY <3>2, PlacesFromOne
    <3>4. QED
      BY <3>2, <3>3
  <2>3. QED
    BY <2>1, <2>2
<1>3. Added(p, c) = {Append(p, d) : d \in D} \ DOMAIN tree
  BY DEF Added
<1> HIDE DEF D
<1>4. QED
  BY <1>1, <1>2, <1>3

\* The document after operator[] has the shape of a document.
LEMMA Grows ==
    ASSUME Shape(tree), NEW p \in DOMAIN tree, NEW c \in Names, MayIndex(p, c),
           Len(p) < MaxDepth
    PROVE  /\ Shape(Indexed(p, c)) /\ DOMAIN Indexed(p, c) = DOMAIN tree \cup Added(p, c)
           /\ Append(p, c) \in DOMAIN Indexed(p, c) /\ Indexed(p, c)[p] = Container(c)
<1> DEFINE x == Indexed(p, c)
<1>1. /\ p \in Paths /\ DOMAIN x = DOMAIN tree \cup Added(p, c) /\ x[p] = Container(c)
      /\ \A q \in DOMAIN x : x[q] = IF q = p THEN Container(c)
                                    ELSE IF q \in DOMAIN tree THEN tree[q] ELSE "null"
  BY DEF Indexed, Shape
<1>2. Append(p, c) \in DOMAIN x
  BY <1>1, AddedNames
<1> HIDE DEF x
<1>3. ASSUME NEW q \in DOMAIN x
      PROVE  q \in Paths /\ Len(q) <= MaxDepth /\ x[q] \in Kinds
  <2>1. x[q] \in Kinds
    BY <1>1, <1>3 DEF Shape, Kinds, Container
  <2>2. CASE q \in DOMAIN tree
    BY <2>1, <2>2 DEF Shape
  <2>3. CASE q \in Added(p, c)
    <3>1. PICK d \in Names : q = Append(p, d)
      BY <1>1, <2>3, AddedNames
    <3>2. q \in Paths /\ Len(q) = Len(p) + 1 /\ Len(p) \in Nat
      BY <1>1, <3>1, OneBelow, PathsAre
    <3>3. QED
      BY <2>1, <3>2, JsonAssumption
  <2>4. QED
    BY <1>1, <1>3, <2>2, <2>3
<1>4. ASSUME NEW q \in DOMAIN x \ {<<>>}
      PROVE  Front(q) \in DOMAIN x /\ x[Front(q)] = Container(Last(q))
  <2>1. CASE q \in DOMAIN tree
    <3>1. Front(q) \in DOMAIN tree /\ tree[Front(q)] = Container(Last(q))
      BY <1>4, <2>1 DEF Shape
    <3>2. Front(q) = p => Container(Last(q)) = Container(c)
      BY <3>1 DEF MayIndex, Container
    <3>3. QED
      BY <1>1, <3>1, <3>2
  <2>2. CASE q \in Added(p, c)
    <3>1. PICK d \in Names : q = Append(p, d) /\ Container(d) = Container(c)
      BY <1>1, <2>2, AddedNames
    <3>2. Front(q) = p /\ Last(q) = d
      BY <1>1, <3>1, FrontOfOneBelow, OneBelow
    <3>3. QED
      BY <1>1, <3>1, <3>2
  <2>3. QED
    BY <1>1, <1>4, <2>1, <2>2
<1>5. <<>> \in DOMAIN x
  BY <1>1 DEF Shape
<1>6. QED
  BY <1>1, <1>2, <1>3, <1>4, <1>5 DEF x, Shape

\* An assignment to what operator[] returned: what was below is gone.
LEMMA AssignedShape ==
    ASSUME Shape(tree), NEW p \in DOMAIN tree, NEW c \in Names, MayIndex(p, c),
           Len(p) < MaxDepth, NEW kind \in Kinds,
           NEW t, t = [q \in (DOMAIN tree \cup Added(p, c))
                                 \ {q \in DOMAIN tree : Below(Append(p, c), q)} |->
                         IF q = Append(p, c) THEN kind ELSE Indexed(p, c)[q]]
    PROVE  /\ Shape(t)
           /\ \A k \in Keys : <<k>> \in DOMAIN tree => <<k>> \in DOMAIN t
<1> DEFINE x == Indexed(p, c)
           at == Append(p, c)
           gone == {q \in DOMAIN tree : Below(at, q)}
<1>1. /\ Shape(x) /\ DOMAIN x = DOMAIN tree \cup Added(p, c) /\ at \in DOMAIN x
      /\ p \in Paths /\ Len(p) \in Nat
  BY Grows, PathsAre DEF Shape
<1>2. /\ DOMAIN t = DOMAIN x \ gone
      /\ \A q \in DOMAIN t : t[q] = IF q = at THEN kind ELSE x[q]
  BY <1>1
<1>3. at \in Paths /\ at # <<>> /\ Len(at) = Len(p) + 1 /\ Front(at) = p
  BY <1>1, OneBelow, FrontOfOneBelow
<1>4. \A q \in gone : q \in Paths /\ Len(q) >= Len(at) /\ q # at /\ IsPrefix(at, q)
  BY <1>3, PrefixIs DEF Shape, Below
<1> HIDE DEF x, at
<1>5. \A q \in gone : Len(q) > Len(at)
  <2> SUFFICES ASSUME NEW q \in gone, Len(q) = Len(at) PROVE FALSE
    BY <1>4, <1>3, PathsAre
  <2>1. \A i \in 1 .. Len(at) : at[i] = q[i]
    BY <1>3, <1>4, PrefixIs
  <2>2. QED
    BY <1>3, <1>4, <2>1, SamePath
<1>6. <<>> \in DOMAIN t
  BY <1>1, <1>2, <1>3, <1>5, EmptySeq DEF Shape
<1>7. ASSUME NEW q \in DOMAIN t PROVE q \in Paths /\ Len(q) <= MaxDepth /\ t[q] \in Kinds
  BY <1>1, <1>2, <1>7 DEF Shape
<1>8. ASSUME NEW q \in DOMAIN t \ {<<>>}
      PROVE  Front(q) \in DOMAIN t /\ t[Front(q)] = Container(Last(q))
  <2>1. Front(q) \in DOMAIN x /\ x[Front(q)] = Container(Last(q)) /\ q \in Paths
    BY <1>1, <1>2, <1>8 DEF Shape
  <2>2. /\ Front(q) \in Paths /\ Len(Front(q)) = Len(q) - 1 /\ Len(q) \in Nat
        /\ \A i \in 1 .. Len(q) - 1 : Front(q)[i] = q[i]
    BY <2>1, <1>8, OneAbove, PathsAre
  <2>3. CASE IsPrefix(at, Front(q))
    <3>1. Len(at) <= Len(Front(q)) /\ \A i \in 1 .. Len(at) : at[i] = Front(q)[i]
      BY <1>3, <2>2, <2>3, PrefixIs
    <3>2. Len(at) <= Len(q) /\ Len(q) > Len(p) + 1 /\ \A i \in 1 .. Len(at) : at[i] = q[i]
      BY <1>1, <1>3, <2>2, <3>1
    <3>3. IsPrefix(at, q) /\ q # at
      BY <1>3, <2>1, <3>2, PrefixIs
    <3>4. q \notin Added(p, c)
      <4> SUFFICES ASSUME NEW d \in Names, q = Append(p, d) PROVE FALSE
        BY <1>1, AddedNames
      <4>1. QED
        BY <1>1, <3>2, OneBelow
    <3>5. q \in gone
      BY <1>1, <1>2, <1>8, <3>3, <3>4 DEF Below
    <3>6. QED
      BY <1>2, <1>8, <3>5
  <2>4. CASE ~IsPrefix(at, Front(q))
    <3>1. Front(q) # at /\ Front(q) \notin gone
      BY <1>3, <1>4, <2>2, <2>4, PrefixIs, PathsAre
    <3>2. QED
      BY <1>2, <2>1, <3>1
  <2>5. QED
    BY <2>3, <2>4
<1>9. ASSUME NEW k \in Keys, <<k>> \in DOMAIN tree PROVE <<k>> \in DOMAIN t
  <2>1. PICK m : m = <<k>> /\ Len(m) = 1
    BY ShortPaths
  <2>2. ~(Len(m) > Len(at))
    BY <1>1, <1>3, <2>1
  <2>3. m \notin gone
    BY <1>5, <2>2
  <2>4. QED
    BY <1>1, <1>2, <1>9, <2>1, <2>3
<1>10. QED
  BY <1>6, <1>7, <1>8, <1>9 DEF Shape

\* SetObject: the value gets a copy of itself for a member.
LEMMA CopiedShape ==
    ASSUME Shape(tree), NEW p \in DOMAIN tree, NEW c \in Names, MayIndex(p, c),
           Len(p) < MaxDepth, NEW at, at = Append(p, c),
           NEW copy,
           copy = {at \o SubSeq(q, Len(p) + 1, Len(q)) :
                     q \in {r \in DOMAIN tree : IsPrefix(p, r)}},
           \A q \in copy : Len(q) <= MaxDepth,
           NEW t, t = [q \in ((DOMAIN tree \cup Added(p, c))
                                  \ {q \in DOMAIN tree : Below(at, q)}) \cup copy |->
                         IF IsPrefix(at, q) THEN tree[p \o SubSeq(q, Len(at) + 1, Len(q))]
                         ELSE Indexed(p, c)[q]]
    PROVE  /\ Shape(t)
           /\ \A k \in Keys : <<k>> \in DOMAIN tree => <<k>> \in DOMAIN t
<1> DEFINE x == Indexed(p, c)
           gone == {q \in DOMAIN tree : Below(at, q)}
           CopyOf(r) == at \o SubSeq(r, Len(p) + 1, Len(r))
<1>1. /\ Shape(x) /\ DOMAIN x = DOMAIN tree \cup Added(p, c) /\ at \in DOMAIN x
      /\ p \in Paths /\ Len(p) \in Nat /\ x[p] = Container(c)
  BY Grows, PathsAre DEF Shape
<1>2. /\ DOMAIN t = (DOMAIN x \ gone) \cup copy
      /\ \A q \in DOMAIN t : t[q] = IF IsPrefix(at, q)
                                    THEN tree[p \o SubSeq(q, Len(at) + 1, Len(q))]
                                    ELSE x[q]
      /\ copy = {CopyOf(r) : r \in {r \in DOMAIN tree : IsPrefix(p, r)}}
  BY <1>1
<1>3. /\ at \in Paths /\ at # <<>> /\ Len(at) = Len(p) + 1 /\ Front(at) = p /\ Last(at) = c
      /\ at[Len(p) + 1] = c
  BY <1>1, OneBelow, FrontOfOneBelow
<1> HIDE DEF x, CopyOf
\* The copies, each of what it is a copy of.
<1>4. ASSUME NEW r \in DOMAIN tree, IsPrefix(p, r)
      PROVE  /\ r \in Paths /\ Len(p) <= Len(r) /\ \A i \in 1 .. Len(p) : p[i] = r[i]
             /\ CopyOf(r) \in copy /\ CopyOf(r) \in Paths
             /\ Len(CopyOf(r)) = Len(at) + (Len(r) - Len(p))
             /\ \A j \in 1 .. Len(r) - Len(p) : CopyOf(r)[Len(at) + j] = r[Len(p) + j]
             /\ IsPrefix(at, CopyOf(r)) /\ t[CopyOf(r)] = tree[r]
  <2>1. r \in Paths /\ Len(r) \in Nat /\ Len(p) <= Len(r) /\ \A i \in 1 .. Len(p) : p[i] = r[i]
    BY <1>1, <1>4, PrefixIs, PathsAre DEF Shape
  <2> DEFINE q == CopyOf(r)
  <2>2. /\ q \in Paths /\ Len(q) = Len(at) + (Len(r) - Len(p))
        /\ \A i \in 1 .. Len(at) : q[i] = at[i]
        /\ \A j \in 1 .. Len(r) - Len(p) : q[Len(at) + j] = r[Len(p) + j]
    BY <1>1, <1>3, <2>1, CopiedPath DEF CopyOf
  <2>3. q \in copy
    BY <1>2, <1>4
  <2> HIDE DEF q
  <2>4. Len(at) <= Len(q) /\ Len(q) - Len(at) = Len(r) - Len(p) /\ Len(q) \in Nat /\ Len(at) \in Nat
    BY <1>1, <1>3, <2>1, <2>2
  <2>5. IsPrefix(at, q)
    BY <1>3, <2>2, <2>4, PrefixIs
  <2> DEFINE b == p \o SubSeq(q, Len(at) + 1, Len(q))
  <2>6. /\ b \in Paths /\ Len(b) = Len(p) + (Len(q) - Len(at))
        /\ \A i \in 1 .. Len(p) : b[i] = p[i]
        /\ \A j \in 1 .. Len(q) - Len(at) : b[Len(p) + j] = q[Len(at) + j]
    BY <1>1, <1>3, <2>2, <2>4, CopiedPath
  <2> HIDE DEF b
  <2>7. Len(b) = Len(r)
    BY <1>1, <2>1, <2>4, <2>6
  <2>8. ASSUME NEW i \in 1 .. Len(b) PROVE b[i] = r[i]
    <3>1. CASE i \in 1 .. Len(p)
      BY <2>1, <2>6, <3>1
    <3>2. CASE i \notin 1 .. Len(p)
      <4>1. PICK j \in 1 .. Len(r) - Len(p) : i = Len(p) + j
        <5>1. i - Len(p) \in 1 .. Len(r) - Len(p) /\ i = Len(p) + (i - Len(p))
          BY <1>1, <2>1, <2>7, <2>8, <3>2
        <5>2. QED
          BY <5>1
      <4>2. QED
        BY <2>2, <2>4, <2>6, <4>1
    <3>3. QED
      BY <3>1, <3>2
  <2>9. b = r
    BY <2>1, <2>6, <2>7, <2>8, SamePath
  <2>10. t[q] = tree[r]
    BY <1>2, <2>3, <2>5, <2>9 DEF b
  <2>11. QED
    BY <2>1, <2>2, <2>3, <2>5, <2>10 DEF q
<1>5. ASSUME NEW q \in Paths, IsPrefix(at, q), Len(q) = Len(at) PROVE q = at
  BY <1>3, <1>5, PrefixIs, SamePath
<1>6. ASSUME NEW q \in DOMAIN t, IsPrefix(at, q)
      PROVE  \E r \in DOMAIN tree : IsPrefix(p, r) /\ q = CopyOf(r)
  <2>1. ASSUME q = at PROVE q = CopyOf(p) /\ IsPrefix(p, p)
    <3>1. IsPrefix(p, p)
      BY <1>1, PrefixIs
    <3>2. /\ CopyOf(p) \in Paths /\ Len(CopyOf(p)) = Len(at) + (Len(p) - Len(p))
          /\ IsPrefix(at, CopyOf(p))
      BY <1>4, <3>1
    <3>4. Len(CopyOf(p)) = Len(at)
      BY <1>1, <1>3, <3>2
    <3>3. QED
      BY <1>5, <2>1, <3>1, <3>2, <3>4
  <2>2. CASE q \in Added(p, c)
    <3>1. PICK d \in Names : q = Append(p, d)
      BY <1>1, <2>2, AddedNames
    <3>2. q = at
      BY <1>1, <1>3, <1>5, <1>6, <3>1, OneBelow
    <3>3. QED
      BY <2>1, <3>2
  <2>3. CASE q \in DOMAIN tree \ gone
    BY <1>6, <2>1, <2>3 DEF Below
  <2>4. CASE q \in copy
    BY <1>2, <2>4
  <2>5. QED
    BY <1>1, <1>2, <1>6, <2>2, <2>3, <2>4
<1>7. ASSUME NEW q \in DOMAIN t, ~IsPrefix(at, q) PROVE q \in DOMAIN x /\ t[q] = x[q]
  <2>1. q \notin copy
    BY <1>2, <1>4, <1>7
  <2>2. QED
    BY <1>2, <1>7, <2>1
<1>8. ASSUME NEW q \in DOMAIN x, ~IsPrefix(at, q) PROVE q \in DOMAIN t
  BY <1>2, <1>8 DEF Below
<1>9. /\ <<>> \in Paths /\ ~IsPrefix(at, <<>>)
      /\ ~IsPrefix(at, p)
  <2>1. Len(at) >= 1 /\ Len(at) > Len(p) /\ <<>> \in Paths
    BY <1>1, <1>3 DEF Paths
  <2>2. PICK e : e = <<>> /\ e \in Paths /\ Len(e) = 0
    BY <2>1, ShortPaths
  <2>3. ~(Len(at) <= Len(e)) /\ ~(Len(at) <= Len(p))
    BY <1>1, <1>3, <2>1, <2>2
  <2>4. ~IsPrefix(at, e) /\ ~IsPrefix(at, p)
    BY <1>1, <1>3, <2>2, <2>3, PrefixIs
  <2>5. QED
    BY <2>2, <2>4
<1>10. <<>> \in DOMAIN t /\ p \in DOMAIN t /\ t[p] = Container(c)
  BY <1>1, <1>7, <1>8, <1>9 DEF Shape
<1>11. ASSUME NEW q \in DOMAIN t PROVE q \in Paths /\ Len(q) <= MaxDepth /\ t[q] \in Kinds
  <2>1. CASE IsPrefix(at, q)
    <3>1. PICK r \in DOMAIN tree : IsPrefix(p, r) /\ q = CopyOf(r)
      BY <1>6, <1>11, <2>1
    <3>2. QED
      BY <1>4, <3>1 DEF Shape
  <2>2. CASE ~IsPrefix(at, q)
    BY <1>1, <1>7, <1>11, <2>2 DEF Shape
  <2>3. QED
    BY <2>1, <2>2
<1>12. ASSUME NEW q \in DOMAIN t \ {<<>>}
       PROVE  Front(q) \in DOMAIN t /\ t[Front(q)] = Container(Last(q))
  <2>1. /\ q \in Paths /\ Len(q) \in Nat /\ Front(q) \in Paths /\ Len(Front(q)) = Len(q) - 1
        /\ \A i \in 1 .. Len(q) - 1 : Front(q)[i] = q[i]
        /\ Last(q) = q[Len(q)]
    BY <1>11, <1>12, OneAbove, PathsAre
  <2>2. CASE IsPrefix(at, q)
    <3>1. PICK r \in DOMAIN tree : IsPrefix(p, r) /\ q = CopyOf(r)
      BY <1>6, <1>12, <2>2
    <3>2. /\ r \in Paths /\ Len(r) \in Nat /\ Len(p) <= Len(r)
          /\ \A i \in 1 .. Len(p) : p[i] = r[i]
          /\ Len(q) = Len(at) + (Len(r) - Len(p))
          /\ \A j \in 1 .. Len(r) - Len(p) : q[Len(at) + j] = r[Len(p) + j]
          /\ \A i \in 1 .. Len(at) : at[i] = q[i]
      BY <1>3, <1>4, <2>1, <2>2, <3>1, PathsAre, PrefixIs
    <3>3. CASE Len(r) = Len(p)
      <4>1. q = at
        BY <1>3, <1>5, <2>1, <2>2, <3>2, <3>3, PathsAre
      <4>2. QED
        BY <1>3, <1>10, <4>1
    <3>4. CASE Len(r) # Len(p)
      <4>1. Len(r) > Len(p) /\ r # <<>>
        BY <1>1, <3>2, <3>4, EmptySeq
      <4> DEFINE f == Front(r)
      <4>2. /\ f \in DOMAIN tree /\ tree[f] = Container(Last(r)) /\ Last(r) = r[Len(r)]
            /\ f \in Paths /\ Len(f) = Len(r) - 1 /\ \A i \in 1 .. Len(r) - 1 : f[i] = r[i]
        BY <3>1, <3>2, <4>1, OneAbove DEF Shape
      <4> HIDE DEF f
      <4>3. IsPrefix(p, f)
        <5>1. Len(p) <= Len(f) /\ \A i \in 1 .. Len(p) : i \in 1 .. Len(r) - 1
          BY <1>1, <3>2, <4>1, <4>2
        <5>2. QED
          BY <1>1, <3>2, <4>2, <5>1, PrefixIs
      <4>4. /\ CopyOf(f) \in copy /\ CopyOf(f) \in Paths /\ t[CopyOf(f)] = tree[f]
            /\ Len(CopyOf(f)) = Len(at) + (Len(f) - Len(p))
            /\ \A j \in 1 .. Len(f) - Len(p) : CopyOf(f)[Len(at) + j] = f[Len(p) + j]
            /\ \A i \in 1 .. Len(at) : at[i] = CopyOf(f)[i]
        BY <1>3, <1>4, <4>2, <4>3, PrefixIs
      <4>5. ASSUME NEW i \in 1 .. Len(q) - 1 PROVE CopyOf(f)[i] = q[i]
        <5>1. CASE i \in 1 .. Len(at)
          BY <3>2, <4>4, <5>1
        <5>2. CASE i \notin 1 .. Len(at)
          <6>1. PICK j \in 1 .. Len(f) - Len(p) : i = Len(at) + j
            <7>1. /\ i - Len(at) \in 1 .. Len(f) - Len(p)
                  /\ i = Len(at) + (i - Len(at))
              BY <1>1, <1>3, <3>2, <4>2, <4>5, <5>2
            <7>2. QED
              BY <7>1
          <6>2. /\ j \in 1 .. Len(r) - Len(p) /\ Len(p) + j \in 1 .. Len(r) - 1
            BY <1>1, <3>2, <4>2
          <6>3. QED
            BY <3>2, <4>2, <4>4, <6>1, <6>2
        <5>3. QED
          BY <5>1, <5>2
      <4>6. Len(CopyOf(f)) = Len(q) - 1
        BY <1>1, <1>3, <3>2, <4>2, <4>4
      <4>7. CopyOf(f) = Front(q)
        BY <2>1, <4>4, <4>5, <4>6, SamePath
      <4>8. Last(q) = Last(r)
        <5>1. /\ Len(r) - Len(p) \in 1 .. Len(r) - Len(p)
              /\ Len(p) + (Len(r) - Len(p)) = Len(r)
          BY <1>1, <3>2, <4>1
        <5>2. QED
          BY <2>1, <3>2, <4>2, <5>1
      <4>9. QED
        BY <1>2, <4>2, <4>4, <4>7, <4>8
    <3>5. QED
      BY <3>3, <3>4
  <2>3. CASE ~IsPrefix(at, q)
    <3>1. Front(q) \in DOMAIN x /\ x[Front(q)] = Container(Last(q)) /\ q \in DOMAIN x
      BY <1>1, <1>7, <1>12, <2>3 DEF Shape
    <3>2. ~IsPrefix(at, Front(q))
      <4>1. ASSUME IsPrefix(at, Front(q)) PROVE IsPrefix(at, q)
        <5>1. Len(at) <= Len(q) - 1 /\ \A i \in 1 .. Len(at) : at[i] = Front(q)[i]
          BY <1>3, <2>1, <4>1, PrefixIs
        <5>2. Len(at) <= Len(q) /\ \A i \in 1 .. Len(at) : at[i] = q[i]
          BY <1>1, <1>3, <2>1, <5>1
        <5>3. QED
          BY <1>3, <2>1, <5>2, PrefixIs
      <4>2. QED
        BY <2>3, <4>1
    <3>3. QED
      BY <1>7, <1>8, <3>1, <3>2
  <2>4. QED
    BY <2>2, <2>3
<1>13. ASSUME NEW k \in Keys, <<k>> \in DOMAIN tree PROVE <<k>> \in DOMAIN t
  <2>1. PICK m : m = <<k>> /\ Len(m) = 1
    BY ShortPaths
  <2>2. m \in Paths /\ m \in DOMAIN x
    BY <1>1, <1>13, <2>1 DEF Shape
  <2>3. CASE m \in gone
    <3>1. IsPrefix(at, m) /\ m # at
      BY <2>3 DEF Below
    <3>2. Len(at) <= Len(m)
      BY <1>3, <2>2, <3>1, PrefixIs
    <3>3. QED
      BY <1>1, <1>3, <1>5, <2>1, <2>2, <3>1, <3>2
  <2>4. QED
    BY <1>2, <2>1, <2>2, <2>3
<1>14. QED
  BY <1>10, <1>11, <1>12, <1>13 DEF Shape

LEMMA LosingRefs ==
    ASSUME refs \subseteq JsonRefs, NEW lost, NEW s \in Losing(lost)
    PROVE  /\ s \in JsonRefs
           /\ \E r \in refs : s.to = r.to /\ (r.to \notin lost => s = r)
<1>1. PICK r \in refs : s = IF r.to \in lost THEN [r EXCEPT !.good = FALSE] ELSE r
  BY DEF Losing
<1>2. r \in JsonRefs
  BY <1>1
<1>3. s \in JsonRefs /\ s.to = r.to
  BY <1>1, <1>2 DEF JsonRefs
<1>4. QED
  BY <1>1, <1>3

\* Members of the object do not move, and what an assignment removes lies deeper.
LEMMA RefsKept ==
    ASSUME JsonInv, NEW p \in DOMAIN tree, NEW c \in Names, Callable(p), MayIndex(p, c),
           NEW moved \in Moved(p, c), NEW gone, \A k \in Keys : <<k>> \notin gone,
           refs' \subseteq Losing(gone \cup moved)
                            \cup {[to |-> Append(p, c), good |-> TRUE]},
           Append(p, c) \in DOMAIN tree',
           \A k \in Keys : <<k>> \in DOMAIN tree => <<k>> \in DOMAIN tree',
           alive' = alive
    PROVE  refs' \subseteq JsonRefs /\ MembersGood'
<1> DEFINE new == [to |-> Append(p, c), good |-> TRUE]
<1>1. p \in Paths /\ Len(p) \in Nat /\ alive /\ Len(p) < MaxDepth /\ MaxDepth \in Nat
  BY PathsAre, JsonAssumption DEF JsonInv, Shape, Callable
<1>2. new \in JsonRefs
  <2>1. Append(p, c) \in Paths /\ Len(Append(p, c)) <= MaxDepth
    BY <1>1, OneBelow
  <2>2. QED
    BY <2>1, BoundedPaths DEF JsonRefs
<1>3. ASSUME NEW k \in Keys, <<k>> \in moved PROVE FALSE
  <2>1. c \notin Keys /\ <<k>> \in DOMAIN tree /\ Len(<<k>>) = Len(p) + 1
    BY <1>3 DEF Moved
  <2>2. Len(p) = 0 /\ k \in Names
    BY <1>1, <2>1, ShortPaths DEF Names
  <2>3. p = <<>>
    BY <1>1, <2>2, EmptySeq DEF Paths
  <2>4. Front(<<k>>) = <<>> /\ Last(<<k>>) = k /\ <<k>> # <<>>
    <3>1. PICK e : e = <<>> /\ e \in Paths /\ Append(e, k) = <<k>>
      BY <2>2, ShortPaths
    <3>2. Front(Append(e, k)) = e /\ Last(Append(e, k)) = k /\ Append(e, k) # <<>>
      BY <2>2, <3>1, FrontOfOneBelow, OneBelow
    <3>3. QED
      BY <3>1, <3>2
  <2>5. tree[<<>>] = Container(k)
    BY <2>1, <2>4 DEF JsonInv, Shape
  <2>6. QED
    BY <2>1, <2>3, <2>5 DEF MayIndex, Container
<1>4. ASSUME NEW s \in refs' PROVE s \in JsonRefs
  BY <1>2, <1>4, LosingRefs DEF JsonInv
<1>5. ASSUME NEW s \in refs', NEW k \in Keys, s.to = <<k>>
      PROVE  s.good /\ <<k>> \in DOMAIN tree'
  <2>1. CASE s = new
    BY <1>5, <2>1
  <2>2. CASE s \in Losing(gone \cup moved)
    <3>1. PICK r \in refs : s.to = r.to /\ (r.to \notin gone \cup moved => s = r)
      BY <2>2, LosingRefs DEF JsonInv
    <3>2. r.to = <<k>> /\ r.to \notin gone \cup moved
      BY <1>3, <1>5, <3>1
    <3>3. r.good /\ <<k>> \in DOMAIN tree
      BY <1>1, <3>2 DEF JsonInv, MembersGood
    <3>4. QED
      BY <3>1, <3>2, <3>3
  <2>3. QED
    BY <1>5, <2>1, <2>2
<1>6. QED
  BY <1>4, <1>5 DEF MembersGood

LEMMA IndexKeeps ==
    ASSUME JsonInv, NEW p \in DOMAIN tree, NEW c \in Names, Callable(p), MayIndex(p, c),
           tree' = Indexed(p, c), NEW moved \in Moved(p, c),
           refs' \subseteq Losing(moved) \cup {[to |-> Append(p, c), good |-> TRUE]},
           jsonAnswer' \in Answers, UNCHANGED alive
    PROVE  JsonInv'
<1>1. /\ Shape(tree') /\ Append(p, c) \in DOMAIN tree'
      /\ DOMAIN tree' = DOMAIN tree \cup Added(p, c)
  BY Grows DEF JsonInv, Callable
<1>2. PICK gone : gone = {}
  OBVIOUS
<1>3. refs' \subseteq JsonRefs /\ MembersGood'
  <2>1. gone \cup moved = moved /\ \A k \in Keys : <<k>> \notin gone
    BY <1>2
  <2>2. QED
    BY <1>1, <2>1, RefsKept
<1>4. QED
  BY <1>1, <1>3 DEF JsonInv

\* What lies below a member or an element is none of the object's own members.
LEMMA BelowIsDeeper ==
    ASSUME JsonInv, NEW p \in DOMAIN tree, NEW c \in Names, NEW k \in Keys
    PROVE  ~Below(Append(p, c), <<k>>)
<1> DEFINE at == Append(p, c)
<1>1. PICK m : m = <<k>> /\ Len(m) = 1 /\ m \in Paths
  BY ShortPaths DEF Names
<1>2. at \in Paths /\ Len(at) = Len(p) + 1 /\ Len(p) \in Nat
  BY OneBelow, PathsAre DEF JsonInv, Shape
<1> HIDE DEF at
<1>3. ASSUME IsPrefix(at, m) PROVE at = m
  <2>1. Len(at) <= Len(m) /\ \A i \in 1 .. Len(at) : at[i] = m[i]
    BY <1>1, <1>2, <1>3, PrefixIs
  <2>2. Len(at) = Len(m)
    BY <1>1, <1>2, <2>1
  <2>3. QED
    BY <1>1, <1>2, <2>1, <2>2, SamePath
<1>4. QED
  BY <1>1, <1>3 DEF at, Below

LEMMA SetMemberKeeps ==
    ASSUME JsonInv, NEW p \in DOMAIN tree, NEW c \in Names, NEW kind \in PlainValues,
           SetMember(p, c, kind)
    PROVE  JsonInv'
<1> DEFINE at == Append(p, c)
           gone == {q \in DOMAIN tree : Below(at, q)}
<1>1. CASE Refused(p, c, "DAS_E_TYPE_ERROR")
  BY <1>1 DEF Refused, JsonInv, MembersGood, Answers
<1>2. CASE ~Refused(p, c, "DAS_E_TYPE_ERROR")
  <2>1. /\ Callable(p) /\ MayIndex(p, c)
        /\ tree' = [q \in (DOMAIN tree \cup Added(p, c)) \ gone |->
                        IF q = at THEN kind ELSE Indexed(p, c)[q]]
        /\ jsonAnswer' = Assigned(p) /\ UNCHANGED alive
    BY <1>2 DEF SetMember
  <2>2. PICK moved \in Moved(p, c) : refs' = Losing(gone \cup moved)
    BY <1>2 DEF SetMember
  <2>3. kind \in Kinds /\ Len(p) < MaxDepth /\ Shape(tree)
    BY <2>1, JsonAssumption DEF Kinds, Callable, JsonInv
  <2>4. Shape(tree') /\ \A k \in Keys : <<k>> \in DOMAIN tree => <<k>> \in DOMAIN tree'
    BY <2>1, <2>3, AssignedShape
  <2>5. at \in DOMAIN tree'
    BY <2>1, <2>3, Grows DEF Below
  <2>6. \A k \in Keys : <<k>> \notin gone
    BY BelowIsDeeper
  <2>7. refs' \subseteq JsonRefs /\ MembersGood'
    BY <2>1, <2>2, <2>4, <2>5, <2>6, RefsKept
  <2>8. QED
    BY <2>1, <2>4, <2>7 DEF JsonInv, Assigned, Answers
<1>3. QED
  BY <1>1, <1>2

LEMMA SetObjectKeeps ==
    ASSUME JsonInv, NEW p \in DOMAIN tree, NEW c \in Names, SetObject(p, c) PROVE JsonInv'
<1> DEFINE at == Append(p, c)
           gone == {q \in DOMAIN tree : Below(at, q)}
           copied == {r \in DOMAIN tree : IsPrefix(p, r)}
           copy == {at \o SubSeq(q, Len(p) + 1, Len(q)) : q \in copied}
<1>1. CASE Refused(p, c, "DAS_E_TYPE_ERROR")
  BY <1>1 DEF Refused, JsonInv, MembersGood, Answers
<1>2. CASE ~Refused(p, c, "DAS_E_TYPE_ERROR")
  <2>1. /\ Callable(p) /\ MayIndex(p, c) /\ \A q \in copy : Len(q) <= MaxDepth
        /\ tree' = [q \in ((DOMAIN tree \cup Added(p, c)) \ gone) \cup copy |->
                        IF IsPrefix(at, q) THEN tree[p \o SubSeq(q, Len(at) + 1, Len(q))]
                        ELSE Indexed(p, c)[q]]
        /\ jsonAnswer' = Assigned(p) /\ UNCHANGED alive
    BY <1>2 DEF SetObject
  <2>2. PICK moved \in Moved(p, c) : refs' = Losing(gone \cup moved)
    BY <1>2 DEF SetObject
  <2>3. Len(p) < MaxDepth /\ Shape(tree)
    BY <2>1 DEF Callable, JsonInv
  <2>4. Shape(tree') /\ \A k \in Keys : <<k>> \in DOMAIN tree => <<k>> \in DOMAIN tree'
    BY <2>1, <2>3, CopiedShape
  <2>5. at \in DOMAIN tree'
    BY <2>1, <2>3, Grows DEF Below
  <2>6. \A k \in Keys : <<k>> \notin gone
    BY BelowIsDeeper
  <2>7. refs' \subseteq JsonRefs /\ MembersGood'
    BY <2>1, <2>2, <2>4, <2>5, <2>6, RefsKept
  <2>8. QED
    BY <2>1, <2>4, <2>7 DEF JsonInv, Assigned, Answers
<1>3. QED
  BY <1>1, <1>2

LEMMA GetKeeps ==
    ASSUME JsonInv, NEW p \in DOMAIN tree, NEW c \in Names, NEW kinds,
           GetMember(p, c, kinds) \/ GetObjectRef(p, c)
    PROVE  JsonInv'
<1>1. CASE \E answer \in Answers : Refused(p, c, answer)
  BY <1>1 DEF Refused, JsonInv, MembersGood
<1>2. CASE ~\E answer \in Answers : Refused(p, c, answer)
  <2>1. CASE GetMember(p, c, kinds)
    <3>1. /\ Callable(p) /\ MayIndex(p, c) /\ tree' = Indexed(p, c) /\ UNCHANGED alive
          /\ jsonAnswer' \in Answers
      BY <1>2, <2>1 DEF GetMember, Answers
    <3>2. PICK moved \in Moved(p, c) : refs' = Losing(moved)
      BY <1>2, <2>1 DEF GetMember, Answers
    <3>3. QED
      BY <3>1, <3>2, IndexKeeps
  <2>2. CASE GetObjectRef(p, c)
    <3>1. /\ Callable(p) /\ MayIndex(p, c) /\ tree' = Indexed(p, c) /\ UNCHANGED alive
          /\ jsonAnswer' \in Answers
      BY <1>2, <2>2 DEF GetObjectRef, Answers
    <3>2. PICK moved \in Moved(p, c) :
              refs' = Losing(moved) \cup {[to |-> Append(p, c), good |-> TRUE]}
      BY <1>2, <2>2 DEF GetObjectRef, Answers
    <3>3. QED
      BY <3>1, <3>2, IndexKeeps
  <2>3. QED
    BY <2>1, <2>2
<1>3. QED
  BY <1>1, <1>2

LEMMA RootShape ==
    ASSUME NEW t, t = [p \in {<<>>} |-> "null"] PROVE Shape(t)
  BY ShortPaths, JsonAssumption DEF Shape, Kinds

LEMMA JsonInitInv == JsonInit => JsonInv
  BY RootShape DEF JsonInit, JsonInv, MembersGood, Answers

LEMMA JsonStep == JsonInv /\ [JsonNext]_jsonVars => JsonInv'
<1> SUFFICES ASSUME JsonInv, [JsonNext]_jsonVars PROVE JsonInv'
  OBVIOUS
<1>1. CASE UNCHANGED jsonVars
  BY <1>1 DEF jsonVars, JsonInv, MembersGood
<1>2. ASSUME NEW p \in DOMAIN tree, NEW c \in Names, ByName(p, c) \/ ByIndex(p, c)
      PROVE  JsonInv'
  BY <1>2, GetKeeps, SetMemberKeeps, SetObjectKeeps DEF ByName, ByIndex
<1>3. ASSUME NEW r \in refs, DropRef(r) PROVE JsonInv'
  BY <1>3 DEF DropRef, JsonInv, MembersGood
<1>4. CASE Destroy
  <2>1. Shape(tree') /\ MembersGood' /\ alive' \in BOOLEAN /\ jsonAnswer' = jsonAnswer
    BY <1>4, RootShape DEF Destroy, MembersGood
  <2>2. refs' \subseteq JsonRefs
    BY <1>4, LosingRefs DEF Destroy, JsonInv
  <2>3. QED
    BY <2>1, <2>2 DEF JsonInv
<1>5. QED
  <2>1. Keys \subseteq Names
    BY DEF Names
  <2>2. QED
    BY <1>1, <1>2, <1>3, <1>4, <2>1 DEF JsonNext

LEMMA JsonAlways == JsonSpec => []JsonInv
  BY JsonInitInv, JsonStep, PTL DEF JsonSpec

LEMMA JsonInvTypes == JsonInv => JsonTypeOK
<1> SUFFICES ASSUME JsonInv PROVE JsonTypeOK
  OBVIOUS
<1>1. ASSUME NEW p \in DOMAIN tree
      PROVE  /\ p \in BoundedSeq(Names, MaxDepth) /\ tree[p] \in Kinds
             /\ p # <<>> => tree[Front(p)] = IF Last(p) \in Keys THEN "object" ELSE "array"
  BY <1>1, BoundedPaths DEF JsonInv, Shape, Container
<1>2. QED
  BY <1>1 DEF JsonInv, JsonRefs, Answers, JsonTypeOK

\* A document keeps its shape: every value but the root belongs to the object or
\* array its name asks for, also in the copy SetObject makes of a value into itself.
THEOREM JsonTypeCorrect == JsonSpec => []JsonTypeOK
  BY JsonInvTypes, JsonAlways, PTL

LEMMA MembersInvStay == JsonInv => MemberRefsStay
<1> SUFFICES ASSUME JsonInv, alive, NEW r \in refs, Len(r.to) = 1, Last(r.to) \in Keys
             PROVE  r.good /\ r.to \in DOMAIN tree
  BY DEF MemberRefsStay
<1>1. r.to \in Paths
  BY BoundedPaths DEF JsonInv, JsonRefs
<1>2. PICK k \in Keys : k = Last(r.to)
  OBVIOUS
<1>3. /\ <<k>> \in Paths /\ Len(<<k>>) = 1 /\ <<k>>[1] = k
      /\ r.to[1] = k
  BY <1>2, ShortPaths DEF Names, Last
<1>4. r.to = <<k>>
  <2>1. PICK m : m = <<k>> /\ m \in Paths /\ Len(m) = 1 /\ m[1] = k
    BY <1>3
  <2>2. r.to = m
    BY <1>1, <1>3, <2>1, SamePath
  <2>3. QED
    BY <2>1, <2>2
<1>5. QED
  BY <1>4 DEF JsonInv, MembersGood

\* References to members of the object stay good while it lives, for all names
\* and depths and whatever is set through it or other references (DasJsonImpl).
THEOREM MembersStay == JsonSpec => []MemberRefsStay
  BY MembersInvStay, JsonAlways, PTL

-------------------------------------------------------------------------------
(***************************************************************************)
(* Vectors.  What one holds of an object is part of what its users own,    *)
(* and what they own is counted.                                           *)
(***************************************************************************)
Refs(v, o) == {i \in DOMAIN v : v[i].object = o}
HoldsOf(v, o) == Cardinality(Refs(v, o))
One(e, o) == IF e.object = o THEN 1 ELSE 0

VectorShape == variants \in Seq(Alternatives) /\ Len(variants) <= MaxLength

VectorCounts ==
    \A o \in Objects : /\ counted[o] >= owned[o] /\ owned[o] >= HoldsOf(variants, o)
                       /\ o \in deleted => counted[o] = 0

GuidTypes ==
    /\ crashed \in BOOLEAN
    /\ iids \in BoundedSeq(Guids, MaxLength)
    /\ constant \subseteq BoundedSeq(Guids, MaxLength)

VectorInv == InteropTypeOK /\ VectorShape /\ VectorCounts /\ GuidTypes

LEMMA ElementIs ==
    ASSUME NEW e \in Alternatives
    PROVE  e.object = Nobody \/ e.object \in Objects
  BY DEF Alternatives, CppProjection, SwigProjection, Objects

LEMMA NoElementIs == None \in Alternatives /\ None.object = Nobody
  BY DEF None, Alternatives, CppProjection, Scalars

LEMMA RefsFinite ==
    ASSUME NEW v \in Seq(Alternatives), NEW o
    PROVE  /\ IsFiniteSet(Refs(v, o)) /\ HoldsOf(v, o) \in Nat
           /\ \A i \in DOMAIN v : HoldsOf(v, o) >= One(v[i], o)
<1>1. DOMAIN v = 1 .. Len(v) /\ Len(v) \in Nat
  BY LenProperties
<1>2. IsFiniteSet(1 .. Len(v)) /\ Refs(v, o) \subseteq 1 .. Len(v)
  BY <1>1, FS_Interval DEF Refs
<1>3. IsFiniteSet(Refs(v, o))
  BY <1>2, FS_Subset
<1>4. HoldsOf(v, o) \in Nat /\ (HoldsOf(v, o) = 0 <=> Refs(v, o) = {})
  BY <1>3, FS_CardinalityType, FS_EmptySet DEF HoldsOf
<1>5. QED
  BY <1>3, <1>4 DEF One, Refs

LEMMA HoldsAppended ==
    ASSUME NEW v \in Seq(Alternatives), NEW e \in Alternatives, NEW o
    PROVE  HoldsOf(Append(v, e), o) = HoldsOf(v, o) + One(e, o)
<1>1. Len(v) \in Nat /\ DOMAIN v = 1 .. Len(v)
  BY LenProperties
<1>2. /\ DOMAIN Append(v, e) = 1 .. (Len(v) + 1)
      /\ \A i \in 1 .. Len(v) : Append(v, e)[i] = v[i]
      /\ Append(v, e)[Len(v) + 1] = e
  BY <1>1, AppendProperties
<1>3. Refs(Append(v, e), o) = Refs(v, o) \cup (IF e.object = o THEN {Len(v) + 1} ELSE {})
  BY <1>1, <1>2 DEF Refs
<1>4. Len(v) + 1 \notin Refs(v, o)
  BY <1>1 DEF Refs
<1>5. CASE e.object = o
  BY <1>3, <1>4, <1>5, RefsFinite, FS_AddElement DEF HoldsOf, One
<1>6. CASE e.object # o
  BY <1>3, <1>6, RefsFinite DEF HoldsOf, One
<1>7. QED
  BY <1>5, <1>6

LEMMA HoldsReplaced ==
    ASSUME NEW v \in Seq(Alternatives), NEW e \in Alternatives, NEW i \in DOMAIN v, NEW o
    PROVE  HoldsOf([v EXCEPT ![i] = e], o) = HoldsOf(v, o) + One(e, o) - One(v[i], o)
<1> DEFINE w == [v EXCEPT ![i] = e]
           rest == Refs(v, o) \ {i}
<1>1. DOMAIN w = DOMAIN v /\ w[i] = e /\ \A j \in DOMAIN v \ {i} : w[j] = v[j]
  OBVIOUS
<1>2. Refs(w, o) = IF e.object = o THEN rest \cup {i} ELSE rest
  BY <1>1 DEF Refs
<1>3. /\ IsFiniteSet(rest)
      /\ Cardinality(rest) = IF i \in Refs(v, o) THEN HoldsOf(v, o) - 1 ELSE HoldsOf(v, o)
  BY RefsFinite, FS_RemoveElement DEF HoldsOf
<1>4. Cardinality(rest) \in Nat /\ Cardinality(rest) = HoldsOf(v, o) - One(v[i], o)
  BY <1>3, FS_CardinalityType, RefsFinite DEF One, Refs
<1>5. i \notin rest
  OBVIOUS
<1> HIDE DEF rest, w
<1>6. CASE e.object = o
  <2>1. Cardinality(rest \cup {i}) = Cardinality(rest) + 1
    BY <1>3, <1>5, FS_AddElement
  <2>2. HoldsOf(w, o) = Cardinality(rest) + 1
    BY <1>2, <1>6, <2>1 DEF HoldsOf
  <2>3. QED
    BY <1>4, <1>6, <2>2, RefsFinite DEF One, w
<1>7. CASE e.object # o
  <2>1. HoldsOf(w, o) = Cardinality(rest)
    BY <1>2, <1>7 DEF HoldsOf
  <2>2. QED
    BY <1>4, <1>7, <2>1, RefsFinite DEF One, w
<1>8. QED
  BY <1>6, <1>7

\* What is left of a vector: the elements behind the removed one move up.
LEMMA RemovedIs ==
    ASSUME NEW v \in Seq(Alternatives), NEW i \in DOMAIN v
    PROVE  /\ RemoveAt(v, i) \in Seq(Alternatives) /\ Len(RemoveAt(v, i)) = Len(v) - 1
           /\ \A j \in 1 .. Len(v) - 1 :
                RemoveAt(v, i)[j] = IF j < i THEN v[j] ELSE v[j + 1]
<1>1. DOMAIN v = 1 .. Len(v) /\ Len(v) \in Nat /\ i \in 1 .. Len(v)
  BY LenProperties
<1> DEFINE a == SubSeq(v, 1, i - 1)
           b == SubSeq(v, i + 1, Len(v))
<1>2. a \in Seq(Alternatives) /\ Len(a) = i - 1 /\ \A j \in 1 .. i - 1 : a[j] = v[j]
  BY <1>1, SubSeqProperties
<1>3. /\ b \in Seq(Alternatives) /\ Len(b) = Len(v) - i
      /\ \A j \in 1 .. Len(v) - i : b[j] = v[i + j]
  BY <1>1, SubSeqProperties
<1>4. RemoveAt(v, i) = a \o b
  BY DEF RemoveAt
<1> HIDE DEF a, b
<1>5. /\ a \o b \in Seq(Alternatives) /\ Len(a \o b) = Len(v) - 1
      /\ \A j \in 1 .. Len(a) + Len(b) :
           (a \o b)[j] = IF j <= Len(a) THEN a[j] ELSE b[j - Len(a)]
  <2>1. /\ a \o b \in Seq(Alternatives) /\ Len(a \o b) = Len(a) + Len(b)
        /\ \A j \in 1 .. Len(a) + Len(b) :
             (a \o b)[j] = IF j <= Len(a) THEN a[j] ELSE b[j - Len(a)]
    BY <1>2, <1>3, ConcatProperties
  <2>2. QED
    BY <1>1, <1>2, <1>3, <2>1
<1>6. ASSUME NEW j \in 1 .. Len(v) - 1
      PROVE  (a \o b)[j] = IF j < i THEN v[j] ELSE v[j + 1]
  <2>1. CASE j < i
    BY <1>1, <1>2, <1>3, <1>5, <2>1
  <2>2. CASE j >= i
    <3>1. j - (i - 1) \in 1 .. Len(v) - i /\ i + (j - (i - 1)) = j + 1
      BY <1>1, <2>2
    <3>2. (a \o b)[j] = b[j - (i - 1)]
      BY <1>1, <1>2, <1>3, <1>5, <2>2
    <3>3. QED
      BY <1>1, <1>3, <2>2, <3>1, <3>2
  <2>3. j < i \/ j >= i
    BY <1>1
  <2>4. QED
    BY <2>1, <2>2, <2>3
<1>7. QED
  BY <1>4, <1>5, <1>6

LEMMA HoldsRemoved ==
    ASSUME NEW v \in Seq(Alternatives), NEW i \in DOMAIN v, NEW o
    PROVE  HoldsOf(RemoveAt(v, i), o) = HoldsOf(v, o) - One(v[i], o)
<1> DEFINE w == RemoveAt(v, i)
           rest == Refs(v, o) \ {i}
<1>1. DOMAIN v = 1 .. Len(v) /\ Len(v) \in Nat /\ i \in 1 .. Len(v)
  BY LenProperties
<1>2. /\ w \in Seq(Alternatives) /\ DOMAIN w = 1 .. Len(v) - 1
      /\ \A j \in 1 .. Len(v) - 1 : w[j] = IF j < i THEN v[j] ELSE v[j + 1]
  <2>1. w \in Seq(Alternatives) /\ Len(w) = Len(v) - 1
    BY RemovedIs
  <2>2. DOMAIN w = 1 .. Len(w)
    BY <2>1, LenProperties
  <2>3. QED
    BY <2>1, <2>2, RemovedIs
<1> HIDE DEF w
<1>3. PICK f : f = [j \in rest |-> IF j < i THEN j ELSE j - 1]
  OBVIOUS
<1>4. \A j \in rest : f[j] \in Refs(w, o)
  <2>1. SUFFICES ASSUME NEW j \in rest PROVE f[j] \in Refs(w, o)
    OBVIOUS
  <2>2. j \in 1 .. Len(v) /\ j # i /\ v[j].object = o
    BY <1>1 DEF Refs
  <2>3. CASE j < i
    BY <1>1, <1>2, <1>3, <2>2, <2>3 DEF Refs
  <2>4. CASE j > i
    <3>1. f[j] = j - 1 /\ j - 1 \in 1 .. Len(v) - 1 /\ ~(j - 1 < i) /\ (j - 1) + 1 = j
      BY <1>1, <1>3, <2>2, <2>4
    <3>2. w[j - 1] = v[j]
      BY <1>2, <3>1
    <3>3. QED
      BY <1>2, <2>2, <3>1, <3>2 DEF Refs
  <2>5. QED
    BY <1>1, <2>2, <2>3, <2>4
<1>5. \A j, k \in rest : f[j] = f[k] => j = k
  BY <1>1, <1>3 DEF Refs
<1>6. \A k \in Refs(w, o) : \E j \in rest : f[j] = k
  <2>1. SUFFICES ASSUME NEW k \in Refs(w, o) PROVE \E j \in rest : f[j] = k
    OBVIOUS
  <2>2. k \in 1 .. Len(v) - 1 /\ w[k].object = o
    BY <1>2 DEF Refs
  <2>3. CASE k < i
    <3>1. k \in rest
      BY <1>1, <1>2, <2>2, <2>3 DEF Refs
    <3>2. QED
      BY <1>3, <2>3, <3>1
  <2>4. CASE k >= i
    <3>1. k + 1 \in 1 .. Len(v) /\ k + 1 # i /\ ~(k + 1 < i) /\ (k + 1) - 1 = k
      BY <1>1, <2>2, <2>4
    <3>2. w[k] = v[k + 1]
      BY <1>2, <1>1, <2>2, <2>4
    <3>3. k + 1 \in rest
      BY <1>1, <2>2, <3>1, <3>2 DEF Refs
    <3>4. QED
      BY <1>3, <3>1, <3>3
  <2>5. QED
    BY <1>1, <2>2, <2>3, <2>4
<1>7. IsFiniteSet(rest) /\ Cardinality(rest) = HoldsOf(v, o) - One(v[i], o)
  <2>1. /\ IsFiniteSet(rest)
        /\ Cardinality(rest) = IF i \in Refs(v, o) THEN HoldsOf(v, o) - 1 ELSE HoldsOf(v, o)
    BY RefsFinite, FS_RemoveElement DEF HoldsOf
  <2>2. QED
    BY <2>1, RefsFinite DEF One, Refs
<1>8. ExistsBijection(rest, Refs(w, o))
  <2>1. f \in Bijection(rest, Refs(w, o))
    <3>1. f \in [rest -> Refs(w, o)]
      BY <1>3, <1>4
    <3> HIDE DEF rest
    <3>2. QED
      BY <1>5, <1>6, <3>1 DEF Bijection, Injection, Surjection, IsInjective
  <2>2. QED
    BY <2>1 DEF ExistsBijection
<1> HIDE DEF rest
<1>9. Cardinality(Refs(w, o)) = Cardinality(rest)
  BY <1>7, <1>8, FS_Bijection
<1>10. QED
  BY <1>7, <1>9 DEF HoldsOf, w

\* An exchange of references that the vector makes with an element's.
LEMMA ExchangedKeeps ==
    ASSUME VectorInv, NEW e \in Alternatives, NEW old \in Alternatives,
           Exchanged(e, old), VectorShape',
           \A o \in Objects :
             HoldsOf(variants', o) = HoldsOf(variants, o) + One(e, o) - One(old, o),
           \A o \in Objects : HoldsOf(variants, o) >= One(old, o),
           e.object # Nobody =>
             e.object \notin deleted /\ owned[e.object] > HoldsOf(variants, e.object)
    PROVE  (InteropTypeOK /\ VectorCounts)'
<1> USE VectorsAssumption
<1>1. /\ counted \in [Objects -> Nat] /\ owned \in [Objects -> Nat]
      /\ wrapped \in [Objects -> Nat] /\ deleted \subseteq Objects
  BY InteropTypes DEF VectorInv
<1>2. \A o \in Objects : /\ One(e, o) \in {0, 1} /\ (One(e, o) = 1 <=> e.object = o)
                         /\ One(old, o) \in {0, 1} /\ (One(old, o) = 1 <=> old.object = o)
  BY DEF One
<1> DEFINE gained == IF e.object = Nobody THEN {} ELSE {e.object}
           lost == IF old.object = Nobody THEN {} ELSE {old.object}
<1>3. \A o \in Objects : (o \in gained <=> One(e, o) = 1) /\ (o \in lost <=> One(old, o) = 1)
  BY <1>2
<1>4. lost \subseteq Objects
  BY ElementIs
<1>5. /\ counted' = [o \in Objects |-> counted[o] + ((IF o \in gained THEN 1 ELSE 0)
                                                   - (IF o \in lost THEN 1 ELSE 0))]
      /\ owned' = [o \in Objects |-> owned[o] + ((IF o \in gained THEN 1 ELSE 0)
                                               - (IF o \in lost THEN 1 ELSE 0))]
      /\ deleted' = deleted \cup {o \in lost : counted'[o] = 0}
      /\ wrapped' = wrapped
  BY DEF Exchanged
<1> HIDE DEF gained, lost
<1>6. ASSUME NEW o \in Objects
      PROVE  /\ counted'[o] = counted[o] + One(e, o) - One(old, o)
             /\ owned'[o] = owned[o] + One(e, o) - One(old, o)
  <2>1. /\ (IF o \in gained THEN 1 ELSE 0) = One(e, o)
        /\ (IF o \in lost THEN 1 ELSE 0) = One(old, o)
    BY <1>2, <1>3
  <2>2. /\ counted'[o] = counted[o] + (One(e, o) - One(old, o))
        /\ owned'[o] = owned[o] + (One(e, o) - One(old, o))
    BY <1>5, <2>1
  <2>3. counted[o] \in Nat /\ owned[o] \in Nat /\ One(e, o) \in Int /\ One(old, o) \in Int
    BY <1>1, <1>2
  <2>4. QED
    BY <2>2, <2>3
<1>7. ASSUME NEW o \in Objects
      PROVE  /\ counted'[o] \in Nat /\ owned'[o] \in Nat
             /\ counted'[o] >= owned'[o] /\ owned'[o] >= HoldsOf(variants', o)
             /\ o \in deleted' => counted'[o] = 0
  <2>1. /\ counted[o] \in Nat /\ owned[o] \in Nat
        /\ HoldsOf(variants, o) \in Nat /\ HoldsOf(variants', o) \in Nat
    BY <1>1, RefsFinite DEF VectorInv, VectorShape
  <2>2. /\ counted[o] >= owned[o] /\ owned[o] >= HoldsOf(variants, o)
        /\ o \in deleted => counted[o] = 0
    BY DEF VectorInv, VectorCounts
  <2>3. /\ HoldsOf(variants', o) = HoldsOf(variants, o) + One(e, o) - One(old, o)
        /\ HoldsOf(variants, o) >= One(old, o)
    OBVIOUS
  <2>4. /\ counted'[o] \in Nat /\ owned'[o] \in Nat
        /\ counted'[o] >= owned'[o] /\ owned'[o] >= HoldsOf(variants', o)
    BY <1>2, <1>6, <2>1, <2>2, <2>3
  <2>5. ASSUME o \in deleted PROVE counted'[o] = 0
    <3>1. One(e, o) = 0
      BY <1>2, <2>5
    <3>2. One(old, o) = 0 /\ counted[o] = 0
      BY <1>2, <2>1, <2>2, <2>3, <2>5
    <3>3. QED
      BY <1>6, <3>1, <3>2
  <2>6. QED
    BY <1>5, <2>4, <2>5
<1>8. counted' \in [Objects -> Nat] /\ owned' \in [Objects -> Nat]
  <2>1. counted' = [o \in Objects |-> counted'[o]] /\ owned' = [o \in Objects |-> owned'[o]]
    BY <1>5
  <2>2. QED
    BY <1>7, <2>1
<1>9. deleted' \subseteq Objects
  BY <1>1, <1>4, <1>5
<1>10. InteropTypeOK'
  BY <1>1, <1>5, <1>8, <1>9 DEF InteropTypeOK
<1>11. QED
  BY <1>7, <1>10 DEF VectorCounts

LEMMA StoredIs == \A o : Stored(o) = HoldsOf(variants, o)
  BY DEF Stored, HoldsOf, Refs

LEMMA NoneHeld == \A o \in Objects : One(None, o) = 0
  BY NoElementIs, VectorsAssumption DEF One

LEMMA ShapeIs ==
    ASSUME VectorInv
    PROVE  /\ variants \in Seq(Alternatives) /\ Len(variants) \in Nat
           /\ DOMAIN variants = 1 .. Len(variants) /\ Len(variants) <= MaxLength
           /\ \A i \in DOMAIN variants : variants[i] \in Alternatives
  BY LenProperties, ElementOfSeq DEF VectorInv, VectorShape

LEMMA StoresKeeps ==
    ASSUME VectorInv, NEW e \in Alternatives, Stores(e)
    PROVE  VectorInv'
<1> USE VectorsAssumption
<1>0. GuidTypes'
  BY DEF Stores, PushBack, SetValue, SetReference, VectorInv, GuidTypes, guidVars
<1>1. ASSUME e.object # Nobody, Passed(e)
      PROVE  e.object \notin deleted /\ owned[e.object] > HoldsOf(variants, e.object)
  BY <1>1, StoredIs DEF Passed, Alive
<1>2. \A i \in DOMAIN variants : \A o \in Objects :
         HoldsOf(variants, o) >= One(variants[i], o)
  BY ShapeIs, RefsFinite
<1>3. CASE PushBack(e)
  <2>1. variants' = Append(variants, e) /\ Len(variants) < MaxLength /\ Exchanged(e, None)
        /\ Passed(e)
    BY <1>3 DEF PushBack
  <2>2. VectorShape'
    BY <2>1, ShapeIs, AppendProperties DEF VectorShape
  <2>3. \A o \in Objects :
           HoldsOf(variants', o) = HoldsOf(variants, o) + One(e, o) - One(None, o)
    <3>1. SUFFICES ASSUME NEW o \in Objects
                   PROVE  HoldsOf(variants', o) = HoldsOf(variants, o) + One(e, o) - One(None, o)
      OBVIOUS
    <3>2. HoldsOf(variants', o) = HoldsOf(variants, o) + One(e, o)
      BY <2>1, ShapeIs, HoldsAppended
    <3>3. HoldsOf(variants, o) \in Nat /\ One(e, o) \in Nat /\ One(None, o) = 0
      BY ShapeIs, RefsFinite, NoneHeld DEF One
    <3>4. QED
      BY <3>2, <3>3
  <2>4. \A o \in Objects : HoldsOf(variants, o) >= One(None, o)
    BY ShapeIs, RefsFinite, NoneHeld
  <2>5. (InteropTypeOK /\ VectorCounts)'
    BY <1>1, <2>1, <2>2, <2>3, <2>4, NoElementIs, ExchangedKeeps
  <2>6. QED
    BY <1>0, <2>2, <2>5 DEF VectorInv
<1>4. ASSUME NEW i \in DOMAIN variants, SetValue(i, e) \/ SetReference(i, e)
      PROVE  VectorInv'
  <2>1. /\ variants' = [variants EXCEPT ![i] = e] /\ Exchanged(e, variants[i])
        /\ e.object # Nobody => Passed(e)
    BY <1>4 DEF SetValue, SetReference
  <2>2. VectorShape'
    BY <2>1, ShapeIs, ExceptSeq DEF VectorShape
  <2>3. \A o \in Objects :
           HoldsOf(variants', o) = HoldsOf(variants, o) + One(e, o) - One(variants[i], o)
    BY <2>1, ShapeIs, HoldsReplaced
  <2>4. (InteropTypeOK /\ VectorCounts)'
    BY <1>1, <1>2, <2>1, <2>2, <2>3, ShapeIs, ExchangedKeeps
  <2>5. QED
    BY <1>0, <2>2, <2>4 DEF VectorInv
<1>5. QED
  BY <1>3, <1>4 DEF Stores

LEMMA RemoveKeeps ==
    ASSUME VectorInv, NEW i \in DOMAIN variants, RemoveElement(i)
    PROVE  VectorInv'
<1>1. variants' = RemoveAt(variants, i) /\ Exchanged(None, variants[i])
  BY DEF RemoveElement
<1>2. VectorShape'
  BY <1>1, ShapeIs, RemovedIs, VectorsAssumption DEF VectorShape
<1>3. \A o \in Objects :
         HoldsOf(variants', o) = HoldsOf(variants, o) + One(None, o) - One(variants[i], o)
  <2>1. SUFFICES ASSUME NEW o \in Objects
                 PROVE  HoldsOf(variants', o)
                          = HoldsOf(variants, o) + One(None, o) - One(variants[i], o)
    OBVIOUS
  <2>2. HoldsOf(variants', o) = HoldsOf(variants, o) - One(variants[i], o)
    BY <1>1, ShapeIs, HoldsRemoved
  <2>3. HoldsOf(variants, o) \in Nat /\ One(None, o) = 0 /\ One(variants[i], o) \in Nat
    BY ShapeIs, RefsFinite, NoneHeld DEF One
  <2>4. QED
    BY <2>2, <2>3
<1>4. \A o \in Objects : HoldsOf(variants, o) >= One(variants[i], o)
  BY ShapeIs, RefsFinite
<1>5. (InteropTypeOK /\ VectorCounts)'
  BY <1>1, <1>2, <1>3, <1>4, ShapeIs, NoElementIs, ExchangedKeeps
<1>6. GuidTypes'
  BY DEF RemoveElement, VectorInv, GuidTypes, guidVars
<1>7. QED
  BY <1>2, <1>5, <1>6 DEF VectorInv

\* A step of the objects alone: what users own stays counted.
LEMMA CountsKeep ==
    ASSUME VectorInv, NEW o \in Objects, UNCHANGED <<variants, guidVars>>, crashed' \in BOOLEAN,
           \/ UNCHANGED interopVars
           \/ Held(o) /\ \E n \in Nat, w \in Nat : n >= 1 /\ HandOut(o, n, w)
           \/ owned[o] > Stored(o) /\ Drop(o)
    PROVE  VectorInv'
<1>1. /\ counted \in [Objects -> Nat] /\ owned \in [Objects -> Nat]
      /\ wrapped \in [Objects -> Nat] /\ deleted \subseteq Objects
  BY InteropTypes DEF VectorInv
<1>2. GuidTypes' /\ VectorShape'
  BY DEF VectorInv, GuidTypes, guidVars, VectorShape
<1>3. \A p \in Objects : /\ HoldsOf(variants', p) = HoldsOf(variants, p)
                         /\ HoldsOf(variants, p) \in Nat
  BY ShapeIs, RefsFinite
<1>4. CASE UNCHANGED interopVars
  BY <1>2, <1>3, <1>4 DEF interopVars, VectorInv, InteropTypeOK, VectorCounts
<1>5. ASSUME Held(o), NEW n \in Nat, NEW w \in Nat, n >= 1, HandOut(o, n, w)
      PROVE  VectorInv'
  <2>1. /\ counted' = Add(counted, o, n) /\ owned' = Add(owned, o, 1)
        /\ wrapped' = Add(wrapped, o, w) /\ deleted' = deleted
    BY <1>5 DEF HandOut
  <2>2. /\ counted' \in [Objects -> Nat] /\ counted'[o] = counted[o] + n
        /\ \A p \in Objects \ {o} : counted'[p] = counted[p]
    <3>1. counted \in [Objects -> Nat] /\ counted' = Add(counted, o, n)
      BY <1>1, <2>1
    <3>2. QED
      BY <3>1 DEF Add
  <2>3. /\ owned' \in [Objects -> Nat] /\ owned'[o] = owned[o] + 1
        /\ \A p \in Objects \ {o} : owned'[p] = owned[p]
    <3>1. 1 \in Nat /\ owned \in [Objects -> Nat] /\ owned' = Add(owned, o, 1)
      BY <1>1, <2>1
    <3>2. QED
      BY <3>1 DEF Add
  <2>4. wrapped' \in [Objects -> Nat]
    BY <1>1, <2>1, AddAt
  <2>5. o \notin deleted
    BY <1>5 DEF Held, Alive
  <2>6. VectorCounts'
    BY <1>1, <1>3, <1>5, <2>1, <2>2, <2>3, <2>5 DEF VectorInv, VectorCounts
  <2>7. QED
    BY <1>1, <1>2, <2>1, <2>2, <2>3, <2>4, <2>6 DEF VectorInv, InteropTypeOK
<1>6. ASSUME owned[o] > Stored(o), Drop(o) PROVE VectorInv'
  <2>1. /\ counted' = [counted EXCEPT ![o] = @ - 1]
        /\ owned' = [owned EXCEPT ![o] = @ - 1]
        /\ deleted' = IF counted[o] = 1 THEN deleted \cup {o} ELSE deleted
        /\ wrapped' = wrapped /\ o \notin deleted
    BY <1>6 DEF Drop, Held, Alive
  <2>2. /\ owned[o] > HoldsOf(variants, o) /\ counted[o] >= owned[o]
        /\ owned[o] - 1 \in Nat /\ counted[o] - 1 \in Nat
    BY <1>1, <1>3, <1>6, StoredIs DEF VectorInv, VectorCounts
  <2>3. /\ counted' \in [Objects -> Nat] /\ counted'[o] = counted[o] - 1
        /\ \A p \in Objects \ {o} : counted'[p] = counted[p]
    BY <1>1, <2>1, <2>2
  <2>4. /\ owned' \in [Objects -> Nat] /\ owned'[o] = owned[o] - 1
        /\ \A p \in Objects \ {o} : owned'[p] = owned[p]
    BY <1>1, <2>1, <2>2
  <2>5. VectorCounts'
    BY <1>1, <1>3, <2>1, <2>2, <2>3, <2>4 DEF VectorInv, VectorCounts
  <2>6. deleted' \subseteq Objects
    BY <1>1, <2>1
  <2>7. QED
    BY <1>1, <1>2, <2>1, <2>3, <2>4, <2>5, <2>6 DEF VectorInv, InteropTypeOK
<1>7. QED
  BY <1>4, <1>5, <1>6

LEMMA ConvertedIs ==
    ASSUME NEW o \in Objects, Converted(o)
    PROVE  Held(o) /\ \E n \in Nat, w \in Nat : n >= 1 /\ HandOut(o, n, w)
<1>1. CASE Wrap(o)
  BY <1>1 DEF Wrap
<1>2. CASE Unwrap(o)
  <2>1. PICK n : n = IF o \in Native THEN 2 ELSE 1
    OBVIOUS
  <2>2. Held(o) /\ HandOut(o, n, 0) /\ n \in Nat /\ n >= 1
    BY <1>2, <2>1 DEF Unwrap
  <2>3. QED
    BY <2>2
<1>3. QED
  BY <1>1, <1>2 DEF Converted

LEMMA VectorStep == VectorInv /\ [VectorNext]_vectorVars => VectorInv'
<1> SUFFICES ASSUME VectorInv, [VectorNext]_vectorVars PROVE VectorInv'
  OBVIOUS
<1>1. CASE UNCHANGED vectorVars
  BY <1>1 DEF vectorVars, guidVars, interopVars, VectorInv, InteropTypeOK, VectorShape,
     VectorCounts, GuidTypes, HoldsOf, Refs
<1>2. ASSUME NEW e \in Alternatives, Stores(e) PROVE VectorInv'
  BY <1>2, StoresKeeps
<1>3. ASSUME NEW i \in DOMAIN variants, RemoveElement(i) PROVE VectorInv'
  BY <1>3, RemoveKeeps
<1>4. ASSUME NEW i \in DOMAIN variants, GetNative(i) \/ GetForeign(i) PROVE VectorInv'
  <2>1. variants[i].object \in Objects
    BY <1>4, ShapeIs, ElementIs DEF GetNative, GetForeign
  <2>2. PICK o \in Objects : o = variants[i].object
    BY <2>1
  <2>3. /\ UNCHANGED <<variants, guidVars>> /\ crashed' \in BOOLEAN
        /\ Copy(o) \/ Converted(o)
    BY <1>4, <2>2 DEF GetNative, GetForeign, VectorInv, GuidTypes
  <2>4. Held(o) /\ \E n \in Nat, w \in Nat : n >= 1 /\ HandOut(o, n, w)
    BY <2>3, ConvertedIs DEF Copy
  <2>5. QED
    BY <2>3, <2>4, CountsKeep
<1>5. ASSUME NEW i \in DOMAIN variants, GetBaseMistyped(i) PROVE VectorInv'
  BY <1>5 DEF GetBaseMistyped, guidVars, interopVars, VectorInv, InteropTypeOK, VectorShape,
     VectorCounts, GuidTypes, HoldsOf, Refs
<1>6. ASSUME NEW o \in Objects, Return(o) PROVE VectorInv'
  <2>1. /\ owned[o] > Stored(o) /\ Drop(o)
        /\ UNCHANGED <<variants, guidVars>> /\ crashed' \in BOOLEAN
    BY <1>6 DEF Return, VectorInv, GuidTypes
  <2>2. QED
    BY <2>1, CountsKeep
<1>7. QED
  BY <1>1, <1>2, <1>3, <1>4, <1>5, <1>6 DEF VectorNext, CppCalls, SwigCalls, Alternatives

LEMMA GuidStep == VectorInv /\ GuidNext => VectorInv'
<1> SUFFICES ASSUME VectorInv, GuidNext PROVE VectorInv'
  OBVIOUS
<1>1. UNCHANGED <<interopVars, variants, crashed>>
  BY DEF GuidNext, ToConst, GuidPushBack, CreateIDasGuidVector
<1>2. InteropTypeOK' /\ VectorShape' /\ VectorCounts'
  BY <1>1 DEF interopVars, VectorInv, InteropTypeOK, VectorShape, VectorCounts, HoldsOf, Refs
<1>3. GuidTypes'
  <2>1. CASE ToConst
    BY <1>1, <2>1 DEF ToConst, VectorInv, GuidTypes
  <2>2. ASSUME NEW g \in Guids, GuidPushBack(g) PROVE GuidTypes'
    <3>1. iids' \in BoundedSeq(Guids, MaxLength)
      <4>1. PICK n \in 0 .. MaxLength : iids \in [1 .. n -> Guids]
        BY DEF VectorInv, GuidTypes, BoundedSeq, SeqOf
      <4>2. n \in Nat /\ iids \in Seq(Guids) /\ Len(iids) = n
        <5>1. n \in Nat /\ iids \in Seq(Guids)
          BY <4>1, SeqDef, VectorsAssumption
        <5>2. Len(iids) \in Nat /\ DOMAIN iids = 1 .. Len(iids)
          BY <5>1, LenProperties
        <5>3. QED
          BY <4>1, <5>1, <5>2
      <4>3. /\ iids' \in Seq(Guids) /\ Len(iids') = n + 1 /\ n < MaxLength
        BY <2>2, <4>2, AppendProperties DEF GuidPushBack
      <4>4. n + 1 \in 0 .. MaxLength /\ iids' \in [1 .. n + 1 -> Guids]
        BY <4>2, <4>3, LenProperties, VectorsAssumption
      <4>5. QED
        BY <4>4 DEF BoundedSeq, SeqOf
    <3>2. QED
      BY <1>1, <2>2, <3>1 DEF GuidPushBack, VectorInv, GuidTypes
  <2>3. ASSUME NEW guids \in BoundedSeq(Guids, MaxLength), CreateIDasGuidVector(guids)
        PROVE  GuidTypes'
    BY <1>1, <2>3 DEF CreateIDasGuidVector, VectorInv, GuidTypes
  <2>4. QED
    BY <2>1, <2>2, <2>3 DEF GuidNext
<1>4. QED
  BY <1>2, <1>3 DEF VectorInv

LEMMA VectorInitInv == VectorInit => VectorInv
<1> SUFFICES ASSUME VectorInit PROVE VectorInv
  OBVIOUS
<1> USE VectorsAssumption
<1>1. variants = <<>> /\ iids = <<>> /\ constant = {} /\ crashed = FALSE
  BY DEF VectorInit
<1>2. \A o : HoldsOf(variants, o) = 0
  <2>1. \A o : Refs(variants, o) = {}
    BY <1>1 DEF Refs
  <2>2. QED
    BY <2>1, FS_EmptySet DEF HoldsOf
<1>3. /\ counted = [o \in Objects |-> 1] /\ owned = [o \in Objects |-> 1]
      /\ wrapped = [o \in Objects |-> 0] /\ deleted = {}
  BY DEF VectorInit, InteropInit
<1>4. InteropTypeOK /\ VectorCounts
  BY <1>2, <1>3 DEF InteropTypeOK, VectorCounts
<1>5. VectorShape
  BY <1>1 DEF VectorShape
<1>6. <<>> \in BoundedSeq(Guids, MaxLength)
  <2>1. 0 \in 0 .. MaxLength /\ <<>> \in [1 .. 0 -> Guids]
    OBVIOUS
  <2>2. QED
    BY <2>1 DEF BoundedSeq, SeqOf
<1>7. QED
  BY <1>1, <1>4, <1>5, <1>6 DEF VectorInv, GuidTypes

LEMMA VectorAlways == VectorSpec => []VectorInv
  BY VectorInitInv, VectorStep, GuidStep, PTL DEF VectorSpec

\* What GetType and the getters of either projection agree on.
LEMMA GetterNamesType ==
    ASSUME NEW e \in Alternatives, NEW t \in DOMAIN GetterOf
    PROVE  e.of \in Accepts(GetterOf[t]) <=> t = ToType(e)
<1>1. e.of \in Scalars \cup NativeRefs \cup ForeignRefs
  BY DEF Alternatives, CppProjection, SwigProjection
<1>2. t \in {"INT", "FLOAT", "BOOL", "STRING", "BASE", "COMPONENT"}
  BY DEF GetterOf
<1>3. CASE t = "INT"
  BY <1>1, <1>3 DEF Scalars, NativeRefs, ForeignRefs, GetterOf, Accepts, ToType
<1>4. CASE t = "FLOAT"
  BY <1>1, <1>4 DEF Scalars, NativeRefs, ForeignRefs, GetterOf, Accepts, ToType
<1>5. CASE t = "BOOL"
  BY <1>1, <1>5 DEF Scalars, NativeRefs, ForeignRefs, GetterOf, Accepts, ToType
<1>6. CASE t = "STRING"
  BY <1>1, <1>6 DEF Scalars, NativeRefs, ForeignRefs, GetterOf, Accepts, ToType
<1>7. CASE t = "BASE"
  BY <1>1, <1>7 DEF Scalars, NativeRefs, ForeignRefs, GetterOf, Accepts, ToType
<1>8. CASE t = "COMPONENT"
  BY <1>1, <1>8 DEF Scalars, NativeRefs, ForeignRefs, GetterOf, Accepts, ToType
<1>9. QED
  BY <1>2, <1>3, <1>4, <1>5, <1>6, <1>7, <1>8

LEMMA VectorInvTypes == VectorInv => VectorTypeOK
<1> SUFFICES ASSUME VectorInv PROVE VectorTypeOK
  OBVIOUS
<1>1. variants \in BoundedSeq(Alternatives, MaxLength)
  <2>1. Len(variants) \in 0 .. MaxLength /\ variants \in [1 .. Len(variants) -> Alternatives]
    BY ShapeIs, LenProperties, VectorsAssumption
  <2>2. QED
    BY <2>1 DEF BoundedSeq, SeqOf
<1>2. ASSUME NEW i \in DOMAIN variants, NEW t \in DOMAIN GetterOf
      PROVE  Reads(GetterOf[t], i) = "DAS_S_OK" <=> t = ToType(variants[i])
  <2>1. variants[i] \in Alternatives
    BY ShapeIs
  <2>2. Reads(GetterOf[t], i) = "DAS_S_OK" <=> variants[i].of \in Accepts(GetterOf[t])
    BY DEF Reads
  <2>3. QED
    BY <2>1, <2>2, GetterNamesType
<1>3. QED
  BY <1>1, <1>2 DEF VectorInv, GuidTypes, VectorTypeOK

\* Whatever is stored, replaced, removed and read through either projection, in
\* any order, GetType names the getter that works, and neither vector outgrows
\* its bound (IDasTypeInfo, DasVariantVectorImpl).
THEOREM VectorTypeCorrect == VectorSpec => []VectorTypeOK
  BY VectorAlways, VectorInvTypes, PTL

LEMMA VectorInvKeeps == VectorInv => DeletedUnowned
<1> SUFFICES ASSUME VectorInv, NEW o \in deleted PROVE owned[o] = 0
  BY DEF DeletedUnowned
<1>1. /\ o \in Objects /\ counted[o] = 0 /\ counted[o] >= owned[o] /\ owned[o] \in Nat
  BY InteropTypes DEF VectorInv, VectorCounts
<1>2. QED
  BY <1>1

\* Objects that a vector or a caller holds are not deleted, however elements
\* are stored, replaced and converted (DasVariantVectorImpl, DasPtr).
THEOREM VectorKeepsObjects == VectorSpec => []DeletedUnowned
  BY VectorInvKeeps, VectorAlways, PTL

-------------------------------------------------------------------------------
(***************************************************************************)
(* Strings.  First what the operators on them come to.  The function that  *)
(* Joined computes by recursion is there for every length, by induction.   *)
(***************************************************************************)
LEMMA EveryNumber ==
    ASSUME NEW T, 0 \in T, \A n \in Nat : n \in T => n + 1 \in T
    PROVE  \A n \in Nat : n \in T
<1> DEFINE bad == {n \in Nat : n \notin T}
           before == {ss \in Nat \X Nat : ss[1] < ss[2]}
<1> SUFFICES ASSUME bad # {} PROVE FALSE
  OBVIOUS
<1>1. IsWellFoundedOn(before, Nat)
  BY NatLessThanWellFounded DEF OpToRel
<1>2. PICK m \in bad : \A k \in bad : ~(<<k, m>> \in before)
  BY <1>1, WFMin
<1>3. m \in Nat /\ m # 0 /\ m - 1 \in Nat /\ (m - 1) + 1 = m
  OBVIOUS
<1>4. <<m - 1, m>> \in before
  BY <1>3
<1>5. m - 1 \notin bad
  BY <1>2, <1>4
<1>6. QED
  BY <1>3, <1>5

Joins(f, n, p) == f = [k \in 0 .. n |-> IF k = 0 THEN <<>> ELSE f[k - 1] \o p[k]]
JoinTo(n, p) == (CHOOSE f : Joins(f, n, p))[n]

LEMMA JoinsExist ==
    ASSUME NEW p PROVE \A n \in Nat : \E f : Joins(f, n, p)
<1> DEFINE T == {n \in Nat : \E f : Joins(f, n, p)}
<1>1. 0 \in T
  <2>1. PICK f : f = [k \in 0 .. 0 |-> <<>>]
    OBVIOUS
  <2>2. Joins(f, 0, p)
    BY <2>1 DEF Joins
  <2>3. QED
    BY <2>2
<1>2. ASSUME NEW n \in Nat, n \in T PROVE n + 1 \in T
  <2>1. PICK f : Joins(f, n, p)
    BY <1>2
  <2>2. PICK g : g = [k \in 0 .. n + 1 |-> IF k \in 0 .. n THEN f[k] ELSE f[n] \o p[n + 1]]
    OBVIOUS
  <2>3. ASSUME NEW k \in 0 .. n + 1
        PROVE  g[k] = IF k = 0 THEN <<>> ELSE g[k - 1] \o p[k]
    <3>1. CASE k \in 0 .. n
      <4>1. f[k] = IF k = 0 THEN <<>> ELSE f[k - 1] \o p[k]
        BY <2>1, <3>1 DEF Joins
      <4>2. g[k] = f[k] /\ (k # 0 => k - 1 \in 0 .. n /\ k - 1 \in 0 .. n + 1)
        BY <2>2, <3>1
      <4>3. QED
        BY <2>2, <4>1, <4>2
    <3>2. CASE k = n + 1
      <4>1. n + 1 \notin 0 .. n /\ (n + 1) - 1 = n /\ n \in 0 .. n /\ n \in 0 .. n + 1
            /\ n + 1 # 0
        OBVIOUS
      <4>2. g[n + 1] = f[n] \o p[n + 1]
        BY <2>2, <3>2, <4>1
      <4>3. g[n] = f[n]
        BY <2>2, <4>1
      <4>4. QED
        BY <3>2, <4>1, <4>2, <4>3
    <3>3. QED
      BY <3>1, <3>2
  <2>4. Joins(g, n + 1, p)
    BY <2>2, <2>3 DEF Joins
  <2>5. QED
    BY <2>4
<1>3. \A n \in Nat : n \in T
  BY <1>1, <1>2, EveryNumber
<1>4. QED
  BY <1>3

LEMMA JoinsAgree ==
    ASSUME NEW n \in Nat, NEW m \in Nat, n <= m, NEW p, NEW q, NEW f, NEW g,
           Joins(f, n, p), Joins(g, m, q), \A k \in 1 .. n : p[k] = q[k]
    PROVE  f[n] = g[n]
<1> DEFINE T == {k \in Nat : k <= n => f[k] = g[k]}
<1>1. 0 \in T
  <2>1. 0 \in 0 .. n /\ 0 \in 0 .. m
    OBVIOUS
  <2>2. f[0] = <<>> /\ g[0] = <<>>
    BY <2>1 DEF Joins
  <2>3. QED
    BY <2>2
<1>2. ASSUME NEW k \in Nat, k \in T PROVE k + 1 \in T
  <2>1. SUFFICES ASSUME k + 1 <= n PROVE f[k + 1] = g[k + 1]
    OBVIOUS
  <2>2. /\ k + 1 \in 0 .. n /\ k + 1 \in 0 .. m /\ k + 1 \in 1 .. n
        /\ k + 1 # 0 /\ (k + 1) - 1 = k /\ k <= n
    BY <2>1
  <2>3. f[k + 1] = f[k] \o p[k + 1]
    BY <2>2 DEF Joins
  <2>4. g[k + 1] = g[k] \o q[k + 1]
    BY <2>2 DEF Joins
  <2>5. QED
    BY <1>2, <2>2, <2>3, <2>4
<1>3. n \in T
  BY <1>1, <1>2, EveryNumber
<1>4. QED
  BY <1>3

LEMMA JoinToIs ==
    /\ \A p : JoinTo(0, p) = <<>>
    /\ \A p, q : \A n \in Nat :
         (\A k \in 1 .. n : p[k] = q[k]) =>
            JoinTo(n, p) = JoinTo(n, q) /\ JoinTo(n + 1, q) = JoinTo(n, p) \o q[n + 1]
<1>1. ASSUME NEW p PROVE JoinTo(0, p) = <<>>
  <2>1. PICK f : f = CHOOSE g : Joins(g, 0, p)
    OBVIOUS
  <2>2. Joins(f, 0, p)
    BY <2>1, JoinsExist
  <2>3. f[0] = <<>>
    BY <2>2 DEF Joins
  <2>4. QED
    BY <2>1, <2>3 DEF JoinTo
<1>2. ASSUME NEW p, NEW q, NEW n \in Nat, \A k \in 1 .. n : p[k] = q[k]
      PROVE  JoinTo(n, p) = JoinTo(n, q) /\ JoinTo(n + 1, q) = JoinTo(n, p) \o q[n + 1]
  <2>1. PICK f : f = CHOOSE h : Joins(h, n, p)
    OBVIOUS
  <2>2. PICK g : g = CHOOSE h : Joins(h, n + 1, q)
    OBVIOUS
  <2>3. PICK e : e = CHOOSE h : Joins(h, n, q)
    OBVIOUS
  <2>4. n + 1 \in Nat
    OBVIOUS
  <2>5. Joins(f, n, p) /\ Joins(g, n + 1, q) /\ Joins(e, n, q)
    BY <2>1, <2>2, <2>3, <2>4, JoinsExist
  <2>6. f[n] = g[n] /\ f[n] = e[n]
    BY <1>2, <2>4, <2>5, JoinsAgree
  <2>7. g[n + 1] = g[n] \o q[n + 1]
    <3>1. n + 1 \in 0 .. n + 1 /\ n + 1 # 0 /\ (n + 1) - 1 = n
      OBVIOUS
    <3>2. QED
      BY <2>5, <3>1 DEF Joins
  <2>8. JoinTo(n, p) = f[n] /\ JoinTo(n + 1, q) = g[n + 1] /\ JoinTo(n, q) = e[n]
    BY <2>1, <2>2, <2>3 DEF JoinTo
  <2>9. QED
    BY <2>6, <2>7, <2>8
<1>3. QED
  BY <1>1, <1>2

LEMMA JoinedIs == \A p : Joined(p) = JoinTo(Len(p), p)
  BY DEF Joined, JoinTo, Joins

LEMMA JoinedOne ==
    ASSUME NEW S, NEW p \in Seq(Seq(S)), NEW x \in Seq(S)
    PROVE  Joined(<<>>) = <<>> /\ Joined(p \o <<x>>) = Joined(p) \o x
<1>1. Joined(<<>>) = <<>>
  BY JoinedIs, JoinToIs
<1>2. <<x>> \in Seq(Seq(S)) /\ Len(<<x>>) = 1 /\ <<x>>[1] = x
  OBVIOUS
<1>3. Len(p) \in Nat
  BY LenProperties
<1> DEFINE q == p \o <<x>>
<1>4. /\ q \in Seq(Seq(S)) /\ Len(q) = Len(p) + 1
      /\ \A i \in 1 .. Len(p) + 1 : q[i] = IF i <= Len(p) THEN p[i] ELSE <<x>>[i - Len(p)]
  <2>1. /\ q \in Seq(Seq(S)) /\ Len(q) = Len(p) + Len(<<x>>)
        /\ \A i \in 1 .. Len(p) + Len(<<x>>) :
             q[i] = IF i <= Len(p) THEN p[i] ELSE <<x>>[i - Len(p)]
    BY <1>2, ConcatProperties
  <2>2. QED
    BY <1>2, <1>3, <2>1
<1> HIDE DEF q
<1>5. \A k \in 1 .. Len(p) : p[k] = q[k]
  BY <1>3, <1>4
<1>6. q[Len(p) + 1] = x
  BY <1>2, <1>3, <1>4
<1>7. JoinTo(Len(p) + 1, q) = JoinTo(Len(p), p) \o x
  BY <1>3, <1>5, <1>6, JoinToIs
<1>8. QED
  BY <1>1, <1>4, <1>7, JoinedIs DEF q

\* A sequence up to one place, and up to the next.
LEMMA OneUnitMore ==
    ASSUME NEW S, NEW s \in Seq(S), NEW n \in Nat, n + 1 <= Len(s)
    PROVE  /\ SubSeq(s, 1, n) \in Seq(S) /\ Len(SubSeq(s, 1, n)) = n /\ s[n + 1] \in S
           /\ SubSeq(s, 1, n + 1) = SubSeq(s, 1, n) \o <<s[n + 1]>>
<1>1. Len(s) \in Nat /\ \A i \in 1 .. Len(s) : s[i] \in S
  BY LenProperties, ElementOfSeq
<1>2. 1 \in 1 .. Len(s) /\ n + 1 \in 1 .. Len(s) /\ n + 1 \in 1 .. Len(s) /\ (n + 1) - 1 = n
  BY <1>1
<1>3. SubSeq(s, 1, n + 1) = SubSeq(s, 1, (n + 1) - 1) \o <<s[n + 1]>>
  BY <1>2, SubSeqRecursiveSecond
<1>4. \A i \in 1 .. n : s[i] \in S
  BY <1>1
<1>5. SubSeq(s, 1, n) \in Seq(S) /\ Len(SubSeq(s, 1, n)) = IF 1 <= n THEN n - 1 + 1 ELSE 0
  BY <1>4, SubSeqProperties
<1>6. QED
  BY <1>1, <1>2, <1>3, <1>5

LEMMA JoinedIsSeq ==
    ASSUME NEW S, NEW p \in Seq(Seq(S))
    PROVE  Joined(p) \in Seq(S)
<1> DEFINE T == {n \in Nat : n <= Len(p) => Joined(SubSeq(p, 1, n)) \in Seq(S)}
<1>1. 0 \in T
  <2>1. SubSeq(p, 1, 0) = <<>>
    BY SubSeqEmpty
  <2>2. Joined(<<>>) = <<>>
    BY JoinedIs, JoinToIs
  <2>3. <<>> \in Seq(S)
    OBVIOUS
  <2>4. QED
    BY <2>1, <2>2, <2>3
<1>2. ASSUME NEW n \in Nat, n \in T PROVE n + 1 \in T
  <2>1. SUFFICES ASSUME n + 1 <= Len(p) PROVE Joined(SubSeq(p, 1, n + 1)) \in Seq(S)
    OBVIOUS
  <2>2. n <= Len(p)
    BY <2>1, LenProperties
  <2>3. /\ SubSeq(p, 1, n) \in Seq(Seq(S)) /\ p[n + 1] \in Seq(S)
        /\ SubSeq(p, 1, n + 1) = SubSeq(p, 1, n) \o <<p[n + 1]>>
    BY <2>1, OneUnitMore
  <2>4. Joined(SubSeq(p, 1, n + 1)) = Joined(SubSeq(p, 1, n)) \o p[n + 1]
    BY <2>3, JoinedOne
  <2>5. Joined(SubSeq(p, 1, n)) \in Seq(S)
    BY <1>2, <2>2
  <2>6. QED
    BY <2>3, <2>4, <2>5, ConcatProperties
<1>3. Len(p) \in Nat
  BY LenProperties
<1>4. Len(p) \in T
  BY <1>1, <1>2, <1>3, EveryNumber
<1>5. SubSeq(p, 1, Len(p)) = p
  BY SubSeqFull
<1>6. Joined(SubSeq(p, 1, Len(p))) \in Seq(S)
  BY <1>3, <1>4
<1>7. QED
  BY <1>5, <1>6

LEMMA JoinedConcat ==
    ASSUME NEW S, NEW p \in Seq(Seq(S)), NEW q \in Seq(Seq(S))
    PROVE  Joined(p \o q) = Joined(p) \o Joined(q)
<1> DEFINE T == {n \in Nat : n <= Len(q) =>
                   Joined(p \o SubSeq(q, 1, n)) = Joined(p) \o Joined(SubSeq(q, 1, n))}
<1>1. 0 \in T
  <2>1. SubSeq(q, 1, 0) = <<>> /\ Joined(<<>>) = <<>>
    BY SubSeqEmpty, JoinedIs, JoinToIs
  <2>2. p \o <<>> = p /\ Joined(p) \o <<>> = Joined(p)
    BY JoinedIsSeq, ConcatEmptySeq
  <2>3. QED
    BY <2>1, <2>2
<1>2. ASSUME NEW n \in Nat, n \in T PROVE n + 1 \in T
  <2>1. SUFFICES ASSUME n + 1 <= Len(q)
                 PROVE  Joined(p \o SubSeq(q, 1, n + 1)) = Joined(p) \o Joined(SubSeq(q, 1, n + 1))
    OBVIOUS
  <2>2. PICK s, x : s = SubSeq(q, 1, n) /\ x = q[n + 1]
    OBVIOUS
  <2>3. s \in Seq(Seq(S)) /\ x \in Seq(S) /\ SubSeq(q, 1, n + 1) = s \o <<x>>
    BY <2>1, <2>2, OneUnitMore
  <2>4. n <= Len(q)
    BY <2>1, LenProperties
  <2>5. Joined(p \o s) = Joined(p) \o Joined(s)
    BY <1>2, <2>2, <2>4
  <2>6. <<x>> \in Seq(Seq(S))
    BY <2>3
  <2>7. p \o (s \o <<x>>) = (p \o s) \o <<x>> /\ p \o s \in Seq(Seq(S))
    BY <2>3, <2>6, ConcatAssociative, ConcatProperties
  <2>8. Joined((p \o s) \o <<x>>) = Joined(p \o s) \o x
    BY <2>3, <2>7, JoinedOne
  <2>9. PICK a \in Seq(S), b \in Seq(S) : a = Joined(p) /\ b = Joined(s)
    BY <2>3, JoinedIsSeq
  <2>10. (a \o b) \o x = a \o (b \o x)
    <3>1. x \in Seq(S)
      BY <2>3
    <3>2. QED
      BY <3>1, ConcatAssociative
  <2>11. Joined(s \o <<x>>) = Joined(s) \o x
    BY <2>3, JoinedOne
  <2>12. QED
    BY <2>3, <2>5, <2>7, <2>8, <2>9, <2>10, <2>11
<1>3. Len(q) \in Nat
  BY LenProperties
<1>4. Len(q) \in T
  BY <1>1, <1>2, <1>3, EveryNumber
<1>5. SubSeq(q, 1, Len(q)) = q
  BY SubSeqFull
<1>6. Joined(p \o SubSeq(q, 1, Len(q))) = Joined(p) \o Joined(SubSeq(q, 1, Len(q)))
  BY <1>3, <1>4
<1>7. QED
  BY <1>5, <1>6

-------------------------------------------------------------------------------
(***************************************************************************)
(* A text in UTF-16 and back, place by place.                              *)
(***************************************************************************)
Pair(c) == IF c \in Astral THEN <<c, Low>> ELSE <<c>>
Kept(u) == IF u = Low THEN <<>> ELSE <<u>>
Pairs(t) == [i \in DOMAIN t |-> Pair(t[i])]
Keeps(units) == [i \in DOMAIN units |-> Kept(units[i])]

Plain == UNION {Range(t) : t \in Texts}
Visible == Plain \cup {Low}
Unit == Plain \cup {Nul, Low}

LEMMA NamesDiffer == Nul # Low /\ Nul \in Unit /\ Low \in Unit /\ Low \in Visible
  BY DEF Nul, Low, Unit, Visible

LEMMA MappedConcat ==
    ASSUME NEW S, NEW a \in Seq(S), NEW b \in Seq(S)
    PROVE  /\ Low \in S => /\ Pairs(a) \in Seq(Seq(S)) /\ Pairs(b) \in Seq(Seq(S))
                           /\ Pairs(a \o b) = Pairs(a) \o Pairs(b)
           /\ Keeps(a) \in Seq(Seq(S)) /\ Keeps(b) \in Seq(Seq(S))
           /\ Keeps(a \o b) = Keeps(a) \o Keeps(b)
<1>1. ASSUME NEW s \in Seq(S)
      PROVE  /\ Low \in S => Pairs(s) \in Seq(Seq(S))
             /\ Keeps(s) \in Seq(Seq(S))
             /\ Len(Pairs(s)) = Len(s) /\ Len(Keeps(s)) = Len(s)
             /\ \A i \in 1 .. Len(s) : Pairs(s)[i] = Pair(s[i]) /\ Keeps(s)[i] = Kept(s[i])
  <2>1. Len(s) \in Nat /\ DOMAIN s = 1 .. Len(s) /\ \A i \in 1 .. Len(s) : s[i] \in S
    BY LenProperties, ElementOfSeq
  <2>2. /\ Pairs(s) = [i \in 1 .. Len(s) |-> Pair(s[i])]
        /\ Keeps(s) = [i \in 1 .. Len(s) |-> Kept(s[i])]
    BY <2>1 DEF Pairs, Keeps
  <2>3. Len(Pairs(s)) = Len(s) /\ Len(Keeps(s)) = Len(s)
    BY <2>1, <2>2
  <2>4. \A u \in S : Kept(u) \in Seq(S) /\ (Low \in S => Pair(u) \in Seq(S))
    BY DEF Kept, Pair
  <2>5. Keeps(s) \in [1 .. Len(s) -> Seq(S)]
    BY <2>1, <2>2, <2>4
  <2>6. Low \in S => Pairs(s) \in [1 .. Len(s) -> Seq(S)]
    BY <2>1, <2>2, <2>4
  <2>7. Keeps(s) \in Seq(Seq(S)) /\ (Low \in S => Pairs(s) \in Seq(Seq(S)))
    <3>1. Seq(Seq(S)) = UNION {[1 .. n -> Seq(S)] : n \in Nat}
      BY SeqDef
    <3>2. QED
      BY <2>1, <2>5, <2>6, <3>1
  <2>8. QED
    BY <2>2, <2>3, <2>7
<1>2. /\ Len(a) \in Nat /\ Len(b) \in Nat
      /\ a \o b \in Seq(S) /\ Len(a \o b) = Len(a) + Len(b)
      /\ \A i \in 1 .. Len(a) + Len(b) :
           (a \o b)[i] = IF i <= Len(a) THEN a[i] ELSE b[i - Len(a)]
  BY ConcatProperties, LenProperties
<1>3. Keeps(a \o b) = Keeps(a) \o Keeps(b)
  <2>1. PICK x \in Seq(Seq(S)), y \in Seq(Seq(S)), z \in Seq(Seq(S)) :
          x = Keeps(a) /\ y = Keeps(b) /\ z = Keeps(a \o b)
    BY <1>1, <1>2
  <2>2. /\ Len(x) = Len(a) /\ Len(y) = Len(b) /\ Len(z) = Len(a) + Len(b)
        /\ \A i \in 1 .. Len(a) : x[i] = Kept(a[i])
        /\ \A i \in 1 .. Len(b) : y[i] = Kept(b[i])
        /\ \A i \in 1 .. Len(a) + Len(b) : z[i] = Kept((a \o b)[i])
    BY <1>1, <1>2, <2>1
  <2>3. /\ x \o y \in Seq(Seq(S)) /\ Len(x \o y) = Len(x) + Len(y)
        /\ \A i \in 1 .. Len(x) + Len(y) :
             (x \o y)[i] = IF i <= Len(x) THEN x[i] ELSE y[i - Len(x)]
    BY ConcatProperties
  <2>4. ASSUME NEW i \in 1 .. Len(z) PROVE z[i] = (x \o y)[i]
    <3>1. CASE i <= Len(a)
      BY <1>2, <2>2, <2>3, <3>1
    <3>2. CASE i > Len(a)
      <4>1. i - Len(a) \in 1 .. Len(b) /\ ~(i <= Len(a)) /\ i \in 1 .. Len(a) + Len(b)
        BY <1>2, <2>2, <3>2
      <4>2. (a \o b)[i] = b[i - Len(a)] /\ (x \o y)[i] = y[i - Len(a)]
        BY <1>2, <2>2, <2>3, <4>1
      <4>3. QED
        BY <2>2, <4>1, <4>2
    <3>3. QED
      BY <1>2, <2>2, <3>1, <3>2
  <2>5. z = x \o y
    BY <1>2, <2>2, <2>3, <2>4, SeqEqual
  <2>6. QED
    BY <2>1, <2>5
<1>4. ASSUME Low \in S PROVE Pairs(a \o b) = Pairs(a) \o Pairs(b)
  <2>1. PICK x \in Seq(Seq(S)), y \in Seq(Seq(S)), z \in Seq(Seq(S)) :
          x = Pairs(a) /\ y = Pairs(b) /\ z = Pairs(a \o b)
    BY <1>1, <1>2, <1>4
  <2>2. /\ Len(x) = Len(a) /\ Len(y) = Len(b) /\ Len(z) = Len(a) + Len(b)
        /\ \A i \in 1 .. Len(a) : x[i] = Pair(a[i])
        /\ \A i \in 1 .. Len(b) : y[i] = Pair(b[i])
        /\ \A i \in 1 .. Len(a) + Len(b) : z[i] = Pair((a \o b)[i])
    BY <1>1, <1>2, <2>1
  <2>3. /\ x \o y \in Seq(Seq(S)) /\ Len(x \o y) = Len(x) + Len(y)
        /\ \A i \in 1 .. Len(x) + Len(y) :
             (x \o y)[i] = IF i <= Len(x) THEN x[i] ELSE y[i - Len(x)]
    BY ConcatProperties
  <2>4. ASSUME NEW i \in 1 .. Len(z) PROVE z[i] = (x \o y)[i]
    <3>1. CASE i <= Len(a)
      BY <1>2, <2>2, <2>3, <3>1
    <3>2. CASE i > Len(a)
      <4>1. i - Len(a) \in 1 .. Len(b) /\ ~(i <= Len(a)) /\ i \in 1 .. Len(a) + Len(b)
        BY <1>2, <2>2, <3>2
      <4>2. (a \o b)[i] = b[i - Len(a)] /\ (x \o y)[i] = y[i - Len(a)]
        BY <1>2, <2>2, <2>3, <4>1
      <4>3. QED
        BY <2>2, <4>1, <4>2
    <3>3. QED
      BY <1>2, <2>2, <3>1, <3>2
  <2>5. z = x \o y
    BY <1>2, <2>2, <2>3, <2>4, SeqEqual
  <2>6. QED
    BY <2>1, <2>5
<1>5. QED
  BY <1>1, <1>3, <1>4

LEMMA UnitsAre ==
    ASSUME NEW S, Low \in S, NEW a \in Seq(S), NEW b \in Seq(S)
    PROVE  /\ Units(a) \in Seq(S) /\ Units(b) \in Seq(S)
           /\ Units(a \o b) = Units(a) \o Units(b)
           /\ Units(<<>>) = <<>> /\ \A c \in S : Units(<<c>>) = Pair(c)
<1>1. \A t : Units(t) = Joined(Pairs(t))
  BY DEF Units, Pairs, Pair
<1>2. /\ Pairs(a) \in Seq(Seq(S)) /\ Pairs(b) \in Seq(Seq(S))
      /\ Pairs(a \o b) = Pairs(a) \o Pairs(b)
  BY MappedConcat
<1>3. Units(a) \in Seq(S) /\ Units(b) \in Seq(S)
  BY <1>1, <1>2, JoinedIsSeq
<1>4. Units(a \o b) = Units(a) \o Units(b)
  BY <1>1, <1>2, JoinedConcat
<1>5. Units(<<>>) = <<>>
  <2>1. Pairs(<<>>) = <<>>
    BY DEF Pairs
  <2>2. QED
    BY <1>1, <2>1, JoinedIs, JoinToIs
<1>6. ASSUME NEW c \in S PROVE Units(<<c>>) = Pair(c)
  <2>0. Pair(c) \in Seq(S)
    BY DEF Pair
  <2>1. PICK x \in Seq(S) : x = Pair(c)
    BY <2>0
  <2>2. Pairs(<<c>>) = <<x>>
    BY <2>1 DEF Pairs
  <2>3. <<>> \in Seq(Seq(S)) /\ <<x>> \in Seq(Seq(S)) /\ <<>> \o <<x>> = <<x>>
    BY ConcatEmptySeq
  <2>4. Joined(<<>> \o <<x>>) = Joined(<<>>) \o x /\ Joined(<<>>) = <<>>
    BY <2>3, JoinedOne
  <2>5. <<>> \o x = x
    BY ConcatEmptySeq
  <2>6. QED
    BY <1>1, <2>1, <2>2, <2>3, <2>4, <2>5
<1>7. QED
  BY <1>3, <1>4, <1>5, <1>6

LEMMA CharactersAre ==
    ASSUME NEW S, NEW a \in Seq(S), NEW b \in Seq(S)
    PROVE  /\ Characters(a) \in Seq(S) /\ Characters(b) \in Seq(S)
           /\ Characters(a \o b) = Characters(a) \o Characters(b)
           /\ Characters(<<>>) = <<>> /\ \A u \in S : Characters(<<u>>) = Kept(u)
<1>1. \A t : Characters(t) = Joined(Keeps(t))
  BY DEF Characters, Keeps, Kept
<1>2. /\ Keeps(a) \in Seq(Seq(S)) /\ Keeps(b) \in Seq(Seq(S))
      /\ Keeps(a \o b) = Keeps(a) \o Keeps(b)
  BY MappedConcat
<1>3. Characters(a) \in Seq(S) /\ Characters(b) \in Seq(S)
  BY <1>1, <1>2, JoinedIsSeq
<1>4. Characters(a \o b) = Characters(a) \o Characters(b)
  BY <1>1, <1>2, JoinedConcat
<1>5. Characters(<<>>) = <<>>
  <2>1. Keeps(<<>>) = <<>>
    BY DEF Keeps
  <2>2. QED
    BY <1>1, <2>1, JoinedIs, JoinToIs
<1>6. ASSUME NEW u \in S PROVE Characters(<<u>>) = Kept(u)
  <2>0. Kept(u) \in Seq(S)
    BY DEF Kept
  <2>1. PICK x \in Seq(S) : x = Kept(u)
    BY <2>0
  <2>2. Keeps(<<u>>) = <<x>>
    BY <2>1 DEF Keeps
  <2>3. <<>> \in Seq(Seq(S)) /\ <<x>> \in Seq(Seq(S)) /\ <<>> \o <<x>> = <<x>>
    BY ConcatEmptySeq
  <2>4. Joined(<<>> \o <<x>>) = Joined(<<>>) \o x /\ Joined(<<>>) = <<>>
    BY <2>3, JoinedOne
  <2>5. <<>> \o x = x
    BY ConcatEmptySeq
  <2>6. QED
    BY <1>1, <2>1, <2>2, <2>3, <2>4, <2>5
<1>7. QED
  BY <1>3, <1>4, <1>5, <1>6

LEMMA TextsArePlain ==
    /\ \A t \in Texts : t \in Seq(Plain) /\ Len(t) <= MaxUtf8
    /\ Nul \notin Plain /\ Low \notin Plain /\ Nul \notin Visible
<1>1. ASSUME NEW t \in Texts
      PROVE  t \in Seq(Plain) /\ Nul \notin Range(t) /\ Low \notin Range(t)
  <2>1. t \in Seq(Range(t) \ {Nul, Low})
    BY <1>1, StringAssumption
  <2>2. \A i \in DOMAIN t : t[i] \in Range(t) \ {Nul, Low}
    BY <2>1, LenProperties, ElementOfSeq
  <2>3. Nul \notin Range(t) /\ Low \notin Range(t)
    BY <2>2 DEF Range
  <2>4. Range(t) \ {Nul, Low} \subseteq Plain
    BY <1>1 DEF Plain
  <2>5. QED
    BY <2>1, <2>3, <2>4, SeqMonotonic
<1>2. Nul \notin Plain /\ Low \notin Plain
  BY <1>1 DEF Plain
<1>3. QED
  BY <1>1, <1>2, NamesDiffer, StringAssumption DEF Visible

LEMMA PlainIs ==
    /\ \A t \in Seq(Plain) : t \in Seq(Visible) /\ t \in Seq(Unit)
    /\ \A t \in Seq(Visible) : t \in Seq(Unit)
  BY SeqMonotonic DEF Visible, Unit

\* One character more: what that does to the units.
LEMMA UnitsMore ==
    ASSUME NEW t \in Seq(Plain), NEW c \in Plain
    PROVE  /\ Units(t) \in Seq(Visible) /\ Pair(c) \in Seq(Visible)
           /\ Units(t \o <<c>>) = Units(t) \o Pair(c)
<1>1. t \in Seq(Visible) /\ <<c>> \in Seq(Visible) /\ c \in Visible
  BY PlainIs DEF Visible
<1>2. /\ Units(t) \in Seq(Visible) /\ Units(<<c>>) \in Seq(Visible)
      /\ Units(t \o <<c>>) = Units(t) \o Units(<<c>>) /\ Units(<<c>>) = Pair(c)
  BY <1>1, NamesDiffer, UnitsAre
<1>3. QED
  BY <1>2

LEMMA CharactersMore ==
    ASSUME NEW u \in Seq(Unit), NEW c \in Plain
    PROVE  /\ Characters(u) \in Seq(Unit)
           /\ Characters(u \o <<c>>) = Characters(u) \o <<c>>
           /\ Characters(u \o Pair(c)) = Characters(u) \o <<c>>
<1>1. c \in Unit /\ Low \in Unit /\ c # Low
  BY TextsArePlain DEF Unit
<1>2. <<c>> \in Seq(Unit) /\ <<Low>> \in Seq(Unit)
  BY <1>1
<1>3. /\ Characters(u) \in Seq(Unit) /\ Characters(u \o <<c>>) = Characters(u) \o Characters(<<c>>)
      /\ Characters(<<c>>) = <<c>>
  BY <1>1, <1>2, CharactersAre DEF Kept
<1>4. Characters(u \o <<c, Low>>) = Characters(u) \o <<c>>
  <2>1. Characters(<<Low>>) = <<>>
    BY <1>1, <1>2, CharactersAre DEF Kept
  <2>2. <<c>> \o <<Low>> = <<c, Low>>
    <3>0. <<c>> \o <<Low>> \in Seq(Unit) /\ <<c, Low>> \in Seq(Unit)
      BY <1>1, <1>2, ConcatProperties
    <3>1. PICK a \in Seq(Unit), b \in Seq(Unit) : a = <<c>> \o <<Low>> /\ b = <<c, Low>>
      BY <3>0
    <3>2. /\ Len(<<c>>) = 1 /\ Len(<<Low>>) = 1 /\ <<c>>[1] = c /\ <<Low>>[1] = Low
          /\ Len(b) = 2 /\ b[1] = c /\ b[2] = Low
      BY <3>1
    <3>3. /\ Len(a) = Len(<<c>>) + Len(<<Low>>)
          /\ \A i \in 1 .. Len(<<c>>) + Len(<<Low>>) :
               a[i] = IF i <= Len(<<c>>) THEN <<c>>[i] ELSE <<Low>>[i - Len(<<c>>)]
      BY <1>2, <3>1, ConcatProperties
    <3>4. Len(a) = 2 /\ a[1] = c /\ a[2] = Low
      BY <3>2, <3>3
    <3>5. \A i \in 1 .. Len(a) : a[i] = b[i]
      BY <3>2, <3>4
    <3>6. QED
      BY <3>1, <3>2, <3>4, <3>5, SeqEqual
  <2>3. Characters(<<c>> \o <<Low>>) = Characters(<<c>>) \o Characters(<<Low>>)
    BY <1>2, CharactersAre
  <2>4. <<c>> \o <<>> = <<c>>
    BY <1>2, ConcatEmptySeq
  <2>5. <<c, Low>> \in Seq(Unit)
    BY <1>1
  <2>6. Characters(u \o <<c, Low>>) = Characters(u) \o Characters(<<c, Low>>)
    BY <2>5, CharactersAre
  <2>7. QED
    BY <1>3, <2>1, <2>2, <2>3, <2>4, <2>6
<1>5. QED
  BY <1>3, <1>4 DEF Pair

LEMMA EmptyText == Units(<<>>) = <<>> /\ Characters(<<>>) = <<>>
<1>1. <<>> \in Seq(Visible)
  OBVIOUS
<1>2. QED
  BY <1>1, NamesDiffer, UnitsAre, CharactersAre

LEMMA RoundTrip ==
    ASSUME NEW t \in Seq(Plain)
    PROVE  Units(t) \in Seq(Visible) /\ Characters(Units(t)) = t
<1> DEFINE T == {n \in Nat : n <= Len(t) =>
                   /\ Units(SubSeq(t, 1, n)) \in Seq(Visible)
                   /\ Characters(Units(SubSeq(t, 1, n))) = SubSeq(t, 1, n)}
<1>1. 0 \in T
  <2>1. SubSeq(t, 1, 0) = <<>> /\ <<>> \in Seq(Visible)
    BY SubSeqEmpty
  <2>2. QED
    BY <2>1, EmptyText
<1>2. ASSUME NEW n \in Nat, n \in T PROVE n + 1 \in T
  <2>1. SUFFICES ASSUME n + 1 <= Len(t)
                 PROVE  /\ Units(SubSeq(t, 1, n + 1)) \in Seq(Visible)
                        /\ Characters(Units(SubSeq(t, 1, n + 1))) = SubSeq(t, 1, n + 1)
    OBVIOUS
  <2>2. PICK s, c : s = SubSeq(t, 1, n) /\ c = t[n + 1]
    OBVIOUS
  <2>3. s \in Seq(Plain) /\ c \in Plain /\ SubSeq(t, 1, n + 1) = s \o <<c>>
    BY <2>1, <2>2, OneUnitMore
  <2>4. Units(s) \in Seq(Visible) /\ Characters(Units(s)) = s
    <3>1. n <= Len(t)
      BY <2>1, LenProperties
    <3>2. QED
      BY <1>2, <2>2, <3>1
  <2>5. /\ Pair(c) \in Seq(Visible) /\ Units(s \o <<c>>) = Units(s) \o Pair(c)
        /\ Units(s) \o Pair(c) \in Seq(Visible)
    BY <2>3, <2>4, UnitsMore, ConcatProperties
  <2>6. Characters(Units(s) \o Pair(c)) = Characters(Units(s)) \o <<c>>
    BY <2>3, <2>4, PlainIs, CharactersMore
  <2>7. QED
    BY <2>3, <2>4, <2>5, <2>6
<1>3. Len(t) \in Nat
  BY LenProperties
<1>4. Len(t) \in T
  BY <1>1, <1>2, <1>3, EveryNumber
<1>5. SubSeq(t, 1, Len(t)) = t
  BY SubSeqFull
<1>6. /\ Units(SubSeq(t, 1, Len(t))) \in Seq(Visible)
      /\ Characters(Units(SubSeq(t, 1, Len(t)))) = SubSeq(t, 1, Len(t))
  BY <1>3, <1>4
<1>7. QED
  BY <1>5, <1>6

(***************************************************************************)
(* The first m units of a text: they are the characters of a beginning of  *)
(* it, and its units if no pair was split.                                 *)
(***************************************************************************)
Begins(u, m, t, j) ==
    /\ Characters(SubSeq(u, 1, m)) = SubSeq(t, 1, j)
    /\ ~SplitsPair(SubSeq(u, 1, m)) => SubSeq(u, 1, m) = Units(SubSeq(t, 1, j))

LEMMA TakenIs ==
    ASSUME NEW t \in Seq(Plain), NEW m \in 0 .. Len(Units(t))
    PROVE  \E j \in 0 .. Len(t) : Begins(Units(t), m, t, j)
<1> DEFINE T == {n \in Nat : n <= Len(t) =>
                   \A k \in 0 .. Len(Units(SubSeq(t, 1, n))) :
                     \E j \in 0 .. n : Begins(Units(SubSeq(t, 1, n)), k, t, j)}
<1>1. 0 \in T
  <2>1. \A x : SubSeq(x, 1, 0) = <<>>
    BY SubSeqEmpty
  <2>2. Len(Units(SubSeq(t, 1, 0))) = 0
    <3>1. SubSeq(t, 1, 0) = <<>> /\ Len(<<>>) = 0
      BY <2>1
    <3>2. QED
      BY <3>1, EmptyText
  <2>3. Begins(Units(SubSeq(t, 1, 0)), 0, t, 0)
    BY <2>1, EmptyText DEF Begins
  <2>4. \A k \in 0 .. 0 : k = 0
    OBVIOUS
  <2>5. QED
    BY <2>2, <2>3, <2>4
<1>2. ASSUME NEW n \in Nat, n \in T PROVE n + 1 \in T
  <2>1. SUFFICES ASSUME n + 1 <= Len(t), NEW k \in 0 .. Len(Units(SubSeq(t, 1, n + 1)))
                 PROVE  \E j \in 0 .. n + 1 : Begins(Units(SubSeq(t, 1, n + 1)), k, t, j)
    OBVIOUS
  <2>2. PICK s, c : s = SubSeq(t, 1, n) /\ c = t[n + 1]
    OBVIOUS
  <2>3. s \in Seq(Plain) /\ c \in Plain /\ SubSeq(t, 1, n + 1) = s \o <<c>>
    BY <2>1, <2>2, OneUnitMore
  <2>4. PICK u : u = Units(s)
    OBVIOUS
  <2>5. u \in Seq(Visible) /\ Pair(c) \in Seq(Visible) /\ Units(s \o <<c>>) = u \o Pair(c)
    BY <2>3, <2>4, UnitsMore
  <2>6. Len(u) \in Nat /\ Len(Pair(c)) = IF c \in Astral THEN 2 ELSE 1
    BY <2>5, LenProperties DEF Pair
  <2>7. u \o Pair(c) \in Seq(Visible) /\ Len(u \o Pair(c)) = Len(u) + Len(Pair(c))
    BY <2>5, ConcatProperties
  <2>8. SubSeq(u, 1, Len(u)) = u /\ SubSeq(u \o Pair(c), 1, Len(u \o Pair(c))) = u \o Pair(c)
    BY <2>5, <2>7, SubSeqFull
  <2>9. Characters(u) = s
    BY <2>3, <2>4, RoundTrip
  <2>10. u \in Seq(Unit)
    BY <2>5, PlainIs
  <2>11. CASE k <= Len(u)
    <3>1. SubSeq(u \o Pair(c), 1, k) = SubSeq(u, 1, k)
      <4>1. CASE k = 0
        BY <4>1, SubSeqEmpty
      <4>2. CASE k # 0
        <5>1. 1 \in 1 .. Len(u) /\ k \in 1 .. Len(u)
          BY <2>6, <2>7, <2>11, <4>2
        <5>2. QED
          BY <2>5, <5>1, SubSeqOfConcat1
      <4>3. QED
        BY <4>1, <4>2
    <3>2. n <= Len(t) /\ k \in 0 .. Len(Units(SubSeq(t, 1, n)))
      BY <2>1, <2>2, <2>4, <2>6, <2>11, LenProperties
    <3>3. PICK j \in 0 .. n : Begins(Units(SubSeq(t, 1, n)), k, t, j)
      BY <1>2, <3>2
    <3>4. Begins(u \o Pair(c), k, t, j)
      BY <2>2, <2>4, <3>1, <3>3 DEF Begins
    <3>5. j \in 0 .. n + 1
      OBVIOUS
    <3>6. QED
      BY <2>3, <2>5, <3>4, <3>5
  <2>12. CASE k = Len(u \o Pair(c))
    <3>1. Characters(u \o Pair(c)) = s \o <<c>>
      BY <2>3, <2>9, <2>10, CharactersMore
    <3>2. Begins(u \o Pair(c), k, t, n + 1)
      BY <2>3, <2>5, <2>8, <2>12, <3>1 DEF Begins
    <3>3. n + 1 \in 0 .. n + 1
      OBVIOUS
    <3>4. QED
      BY <2>3, <2>5, <3>2, <3>3
  <2>13. CASE c \in Astral /\ k = Len(u) + 1
    <3>1. SubSeq(u \o <<c, Low>>, 1, k) = u \o <<c>>
      <4>1. PICK v \in Seq(Visible) : v = u \o <<c, Low>>
        BY <2>5, <2>7, <2>13 DEF Pair
      <4>2. Len(v) = Len(u) + 2 /\ v[Len(u) + 1] = c
        <5>1. /\ <<c, Low>> \in Seq(Visible) /\ Len(<<c, Low>>) = 2 /\ <<c, Low>>[1] = c
          BY <2>5, <2>13 DEF Pair
        <5>2. Len(u) + 1 \in 1 .. Len(u) + 2 /\ ~(Len(u) + 1 <= Len(u)) /\ (Len(u) + 1) - Len(u) = 1
          BY <2>6
        <5>3. QED
          BY <2>5, <4>1, <5>1, <5>2, ConcatProperties
      <4>3. SubSeq(v, 1, Len(u) + 1) = SubSeq(v, 1, Len(u)) \o <<c>>
        <5>1. PICK l \in Nat : l = Len(u)
          BY <2>6
        <5>2. l + 1 <= Len(v) /\ v[l + 1] = c
          BY <4>2, <5>1
        <5>3. SubSeq(v, 1, l + 1) = SubSeq(v, 1, l) \o <<v[l + 1]>>
          BY <5>2, OneUnitMore
        <5>4. QED
          BY <5>1, <5>2, <5>3
      <4>4. SubSeq(v, 1, Len(u)) = u
        <5>1. CASE Len(u) = 0
          <6>1. u = <<>>
            BY <2>5, <5>1, EmptySeq
          <6>2. QED
            BY <5>1, <6>1, SubSeqEmpty
        <5>2. CASE Len(u) # 0
          <6>1. 1 \in 1 .. Len(u) /\ Len(u) \in 1 .. Len(u)
            BY <2>6, <5>2
          <6>2. <<c, Low>> \in Seq(Visible)
            BY <2>5, <2>13 DEF Pair
          <6>3. SubSeq(v, 1, Len(u)) = SubSeq(u, 1, Len(u))
            BY <2>5, <4>1, <6>1, <6>2, SubSeqOfConcat1
          <6>4. QED
            BY <2>8, <6>3
        <5>3. QED
          BY <5>1, <5>2
      <4>5. QED
        BY <2>13, <4>1, <4>3, <4>4
    <3>2. Characters(u \o <<c>>) = s \o <<c>>
      BY <2>3, <2>9, <2>10, CharactersMore
    <3>3. SplitsPair(u \o <<c>>)
      <4>1. c \in Unit /\ Append(u, c) = u \o <<c>>
        BY <2>3, <2>10, AppendIsConcat DEF Unit
      <4>2. /\ Append(u, c) # <<>> /\ Len(Append(u, c)) = Len(u) + 1
            /\ Append(u, c)[Len(u) + 1] = c
        BY <2>10, <4>1, AppendProperties
      <4>3. QED
        BY <2>13, <4>1, <4>2 DEF SplitsPair, Last
    <3>4. Begins(u \o Pair(c), k, t, n + 1)
      BY <2>3, <2>13, <3>1, <3>2, <3>3 DEF Begins, Pair
    <3>5. n + 1 \in 0 .. n + 1
      OBVIOUS
    <3>6. QED
      BY <2>3, <2>5, <3>4, <3>5
  <2>14. k \in 0 .. Len(u \o Pair(c))
    BY <2>3, <2>5
  <2>15. QED
    BY <2>6, <2>7, <2>11, <2>12, <2>13, <2>14
<1>3. Len(t) \in Nat
  BY LenProperties
<1>4. Len(t) \in T
  BY <1>1, <1>2, <1>3, EveryNumber
<1>5. SubSeq(t, 1, Len(t)) = t
  BY SubSeqFull
<1>6. \A k \in 0 .. Len(Units(SubSeq(t, 1, Len(t)))) :
        \E j \in 0 .. Len(t) : Begins(Units(SubSeq(t, 1, Len(t))), k, t, j)
  BY <1>3, <1>4
<1>7. QED
  BY <1>5, <1>6

-------------------------------------------------------------------------------
(***************************************************************************)
(* A block that shows a text has it, and the terminator behind it.         *)
(***************************************************************************)
Shows(s, x) ==
    Len(x) < Len(s) /\ s[Len(x) + 1] = Nul /\ \A i \in 1 .. Len(x) : s[i] = x[i]

LEMMA ShowsCut ==
    ASSUME NEW s \in Seq(Unit), NEW x \in Seq(Visible), Shows(s, x)
    PROVE  Cut(s) = x /\ Terminated(s)
<1>1. /\ Len(s) \in Nat /\ DOMAIN s = 1 .. Len(s) /\ Len(x) \in Nat
      /\ \A i \in 1 .. Len(s) : s[i] \in Unit
      /\ \A i \in 1 .. Len(x) : x[i] \in Visible
  BY LenProperties, ElementOfSeq
<1> DEFINE ends == {i \in DOMAIN s : s[i] = Nul}
           end == Len(x) + 1
<1>2. end \in ends
  BY <1>1 DEF Shows
<1>3. \A i \in ends : end <= i
  <2>1. SUFFICES ASSUME NEW i \in 1 .. Len(s), s[i] = Nul, i < end PROVE FALSE
    BY <1>1
  <2>2. i \in 1 .. Len(x)
    BY <1>1, <2>1
  <2>3. s[i] = x[i] /\ x[i] \in Visible
    BY <1>1, <2>2 DEF Shows
  <2>4. QED
    BY <2>1, <2>3, TextsArePlain
<1>4. \A i \in ends : (\A j \in ends : i <= j) <=> i = end
  <2>1. ends \subseteq Nat /\ end \in Nat
    BY <1>1
  <2> HIDE DEF ends, end
  <2>2. QED
    BY <1>2, <1>3, <2>1
<1>5. (CHOOSE i \in ends : \A j \in ends : i <= j) = end
  <2> HIDE DEF ends, end
  <2>1. QED
    BY <1>2, <1>4
<1>6. Cut(s) = SubSeq(s, 1, end - 1)
  BY <1>2, <1>5 DEF Cut
<1>7. end - 1 = Len(x)
  BY <1>1
<1>8. SubSeq(s, 1, Len(x)) = x
  <2>1. \A i \in 1 .. Len(x) : s[i] \in Visible
    BY <1>1 DEF Shows
  <2>2. /\ SubSeq(s, 1, Len(x)) \in Seq(Visible)
        /\ Len(SubSeq(s, 1, Len(x))) = IF 1 <= Len(x) THEN Len(x) - 1 + 1 ELSE 0
        /\ \A i \in 1 .. Len(x) - 1 + 1 : SubSeq(s, 1, Len(x))[i] = s[1 + i - 1]
    BY <1>1, <2>1, SubSeqProperties
  <2>3. PICK y \in Seq(Visible) : y = SubSeq(s, 1, Len(x))
    BY <2>2
  <2>4. Len(y) = Len(x)
    BY <1>1, <2>2, <2>3
  <2>5. \A i \in 1 .. Len(y) : y[i] = x[i]
    BY <1>1, <2>2, <2>3, <2>4 DEF Shows
  <2>6. QED
    BY <2>3, <2>4, <2>5, SeqEqual
<1>9. Terminated(s)
  BY <1>2 DEF Terminated, Range
<1>10. QED
  BY <1>6, <1>7, <1>8, <1>9

LEMMA ShowsMore ==
    ASSUME NEW S, Nul \in S, NEW x \in Seq(S), NEW y \in Seq(S)
    PROVE  x \o (<<Nul>> \o y) \in Seq(S) /\ Shows(x \o (<<Nul>> \o y), x)
<1>1. PICK z \in Seq(S) : z = <<Nul>> \o y
  <2>1. <<Nul>> \in Seq(S)
    OBVIOUS
  <2>2. <<Nul>> \o y \in Seq(S)
    BY <2>1, ConcatProperties
  <2>3. QED
    BY <2>2
<1>2. Len(x) \in Nat /\ Len(y) \in Nat
  BY LenProperties
<1>3. Len(z) = 1 + Len(y) /\ z[1] = Nul
  <2>1. <<Nul>> \in Seq(S) /\ Len(<<Nul>>) = 1 /\ <<Nul>>[1] = Nul
    OBVIOUS
  <2>2. /\ Len(z) = Len(<<Nul>>) + Len(y)
        /\ \A i \in 1 .. Len(<<Nul>>) + Len(y) :
             z[i] = IF i <= Len(<<Nul>>) THEN <<Nul>>[i] ELSE y[i - Len(<<Nul>>)]
    BY <1>1, <2>1, ConcatProperties
  <2>3. QED
    BY <1>2, <2>1, <2>2
<1>4. /\ x \o z \in Seq(S) /\ Len(x \o z) = Len(x) + Len(z)
      /\ \A i \in 1 .. Len(x) + Len(z) :
           (x \o z)[i] = IF i <= Len(x) THEN x[i] ELSE z[i - Len(x)]
  BY ConcatProperties
<1>5. (x \o z)[Len(x) + 1] = Nul
  <2>1. Len(x) + 1 \in 1 .. Len(x) + Len(z) /\ ~(Len(x) + 1 <= Len(x))
        /\ (Len(x) + 1) - Len(x) = 1
    BY <1>2, <1>3
  <2>2. QED
    BY <1>3, <1>4, <2>1
<1>6. Shows(x \o z, x)
  BY <1>2, <1>3, <1>4, <1>5 DEF Shows
<1>7. QED
  BY <1>1, <1>4, <1>6

LEMMA ShowsSplit ==
    ASSUME NEW s \in Seq(Unit), NEW x \in Seq(Unit), Shows(s, x)
    PROVE  \E y \in Seq(Unit) : s = x \o (<<Nul>> \o y)
<1>1. /\ Len(s) \in Nat /\ Len(x) \in Nat /\ Len(x) < Len(s)
      /\ \A i \in 1 .. Len(s) : s[i] \in Unit
  BY LenProperties, ElementOfSeq DEF Shows
<1>2. Len(x) + 1 \in 1 .. Len(s) /\ Len(s) \in Len(x) + 1 .. Len(s) /\ s[Len(x) + 1] = Nul
  BY <1>1 DEF Shows
<1>3. SubSeq(s, Len(x) + 1, Len(s)) = <<Nul>> \o SubSeq(s, (Len(x) + 1) + 1, Len(s))
  BY <1>2, SubSeqRecursiveFirst
<1>4. SubSeq(s, 1, Len(x)) = x
  <2>1. \A i \in 1 .. Len(x) : s[i] \in Unit
    BY <1>1
  <2>2. /\ SubSeq(s, 1, Len(x)) \in Seq(Unit)
        /\ Len(SubSeq(s, 1, Len(x))) = IF 1 <= Len(x) THEN Len(x) - 1 + 1 ELSE 0
        /\ \A i \in 1 .. Len(x) - 1 + 1 : SubSeq(s, 1, Len(x))[i] = s[1 + i - 1]
    BY <1>1, <2>1, SubSeqProperties
  <2>3. PICK y \in Seq(Unit) : y = SubSeq(s, 1, Len(x))
    BY <2>2
  <2>4. Len(y) = Len(x)
    BY <1>1, <2>2, <2>3
  <2>5. \A i \in 1 .. Len(y) : y[i] = x[i]
    BY <1>1, <2>2, <2>3, <2>4 DEF Shows
  <2>6. QED
    BY <2>3, <2>4, <2>5, SeqEqual
<1>5. SubSeq(s, 1, Len(x)) \o SubSeq(s, Len(x) + 1, Len(s)) = SubSeq(s, 1, Len(s))
  <2>1. 1 \in 1 .. Len(s) + 1 /\ Len(x) \in 1 - 1 .. Len(s) /\ Len(s) \in Len(x) .. Len(s)
    BY <1>1
  <2>2. QED
    BY <2>1, ConcatAdjacentSubSeq
<1>6. SubSeq(s, 1, Len(s)) = s
  BY SubSeqFull
<1>7. SubSeq(s, (Len(x) + 1) + 1, Len(s)) \in Seq(Unit)
  <2>1. \A i \in (Len(x) + 1) + 1 .. Len(s) : s[i] \in Unit
    BY <1>1
  <2>2. (Len(x) + 1) + 1 \in Int /\ Len(s) \in Int
    BY <1>1
  <2>3. QED
    BY <2>1, <2>2, SubSeqProperties
<1>8. QED
  BY <1>3, <1>4, <1>5, <1>6, <1>7

LEMMA DiscardIs ==
    ASSUME NEW b \in Seq(Unit), NEW n \in Nat
    PROVE  /\ Discard(b, n) \in Seq(Unit)
           /\ Len(Discard(b, n)) >= n /\ Len(Discard(b, n)) >= Len(b)
           /\ n # Len(b) => Len(Discard(b, n)) > n /\ Discard(b, n)[n + 1] = Nul
<1>1. Len(b) \in Nat /\ DOMAIN b = 1 .. Len(b) /\ Nul \in Unit
  BY LenProperties, NamesDiffer
<1>2. PICK l \in Nat : l = Len(b)
  BY <1>1
<1>3. PICK d : d = Discard(b, n)
  OBVIOUS
<1>4. ASSUME n > l PROVE d \in Seq(Unit) /\ Len(d) = n + 1 /\ d[n + 1] = Nul
  <2>1. Blank(n + 1) \in [1 .. n + 1 -> Unit] /\ Blank(n + 1)[n + 1] = Nul
    BY <1>1 DEF Blank
  <2>2. Blank(n + 1) \in Seq(Unit) /\ Len(Blank(n + 1)) = n + 1
    <3>1. Len(Blank(n + 1)) = n + 1
      BY DEF Blank
    <3>2. Seq(Unit) = UNION {[1 .. k -> Unit] : k \in Nat} /\ n + 1 \in Nat
      BY SeqDef
    <3>3. QED
      BY <2>1, <3>1, <3>2
  <2>3. d = Blank(n + 1)
    BY <1>2, <1>3, <1>4 DEF Discard
  <2>4. QED
    BY <2>1, <2>2, <2>3
<1>5. ASSUME n < l PROVE d \in Seq(Unit) /\ Len(d) = l /\ d[n + 1] = Nul
  <2>1. n + 1 \in 1 .. Len(b)
    BY <1>2, <1>5
  <2>2. /\ [b EXCEPT ![n + 1] = Nul] \in Seq(Unit)
        /\ Len([b EXCEPT ![n + 1] = Nul]) = Len(b)
    BY <1>1, <2>1, ExceptSeq
  <2>3. [b EXCEPT ![n + 1] = Nul][n + 1] = Nul
    BY <1>1, <2>1
  <2>4. ~(n > l)
    BY <1>5
  <2>5. d = [b EXCEPT ![n + 1] = Nul]
    BY <1>2, <1>3, <1>5, <2>4 DEF Discard
  <2>6. QED
    BY <1>2, <2>2, <2>3, <2>5
<1>6. ASSUME n = l PROVE d = b
  <2>1. ~(n > l) /\ ~(n < l)
    BY <1>6
  <2>2. QED
    BY <1>2, <1>3, <2>1 DEF Discard
<1>7. /\ d \in Seq(Unit)
      /\ Len(d) >= n /\ Len(d) >= l
      /\ n # l => Len(d) > n /\ d[n + 1] = Nul
  <2>1. n > l \/ n < l \/ n = l
    OBVIOUS
  <2>2. CASE n > l
    BY <1>4, <2>2
  <2>3. CASE n < l
    BY <1>5, <2>3
  <2>4. CASE n = l
    BY <1>2, <1>6, <2>4
  <2>5. QED
    BY <2>1, <2>2, <2>3, <2>4
<1>8. QED
  BY <1>2, <1>3, <1>7

\* What a setter or a getter leaves in a block: the text, and behind it the
\* terminator of Discard or of ICU.
WithEnd(b, s) ==
    LET d == Discard(b, Len(s)) IN [i \in DOMAIN d |-> IF i <= Len(s) THEN s[i] ELSE d[i]]

LEMMA FilledIs ==
    ASSUME NEW b \in Seq(Unit), NEW s \in Seq(Unit)
    PROVE  \A f \in {Filled(b, s), WithEnd(b, s)} :
             /\ f \in Seq(Unit) /\ Len(f) \in Nat
             /\ Len(f) >= Len(s) /\ Len(f) >= Len(b)
             /\ \A i \in 1 .. Len(s) : f[i] = s[i]
             /\ Misuse(b, Len(s)) = "none" => Shows(f, s)
<1>1. /\ Len(b) \in Nat /\ Len(s) \in Nat /\ DOMAIN s = 1 .. Len(s)
      /\ \A i \in 1 .. Len(s) : s[i] \in Unit
  BY LenProperties, ElementOfSeq
<1>2. PICK d : d = Discard(b, Len(s))
  OBVIOUS
<1>3. /\ d \in Seq(Unit) /\ Len(d) >= Len(s) /\ Len(d) >= Len(b)
      /\ Len(s) # Len(b) => Len(d) > Len(s) /\ d[Len(s) + 1] = Nul
  BY <1>1, <1>2, DiscardIs
<1>4. Len(d) \in Nat /\ DOMAIN d = 1 .. Len(d) /\ \A i \in 1 .. Len(d) : d[i] \in Unit
  BY <1>3, LenProperties, ElementOfSeq
<1>5. Seq(Unit) = UNION {[1 .. k -> Unit] : k \in Nat}
  BY SeqDef
<1>6. ASSUME NEW f, DOMAIN f = 1 .. Len(d), f = [i \in 1 .. Len(d) |-> f[i]],
             \A i \in 1 .. Len(d) : f[i] \in Unit,
             \A i \in 1 .. Len(s) : f[i] = s[i],
             Len(s) + 1 \in 1 .. Len(d) => f[Len(s) + 1] \in {Nul, d[Len(s) + 1]}
      PROVE  /\ f \in Seq(Unit) /\ Len(f) \in Nat
             /\ Len(f) >= Len(s) /\ Len(f) >= Len(b)
             /\ \A i \in 1 .. Len(s) : f[i] = s[i]
             /\ Misuse(b, Len(s)) = "none" => Shows(f, s)
  <2>1. f \in [1 .. Len(d) -> Unit]
    BY <1>6
  <2>2. f \in Seq(Unit)
    BY <1>4, <1>5, <2>1
  <2>3. Len(f) = Len(d)
    BY <1>4, <1>6, <2>2, LenProperties
  <2>4. ASSUME Misuse(b, Len(s)) = "none" PROVE Shows(f, s)
    <3>1. Len(s) # Len(b)
      BY <2>4 DEF Misuse
    <3>2. Len(s) + 1 \in 1 .. Len(d) /\ d[Len(s) + 1] = Nul
      BY <1>1, <1>3, <1>4, <3>1
    <3>3. QED
      BY <1>1, <1>3, <1>6, <2>3, <3>1, <3>2 DEF Shows
  <2>5. QED
    BY <1>3, <1>4, <1>6, <2>2, <2>3, <2>4
<1>7. ASSUME NEW f, f = Filled(b, s)
      PROVE  /\ f \in Seq(Unit) /\ Len(f) \in Nat
             /\ Len(f) >= Len(s) /\ Len(f) >= Len(b)
             /\ \A i \in 1 .. Len(s) : f[i] = s[i]
             /\ Misuse(b, Len(s)) = "none" => Shows(f, s)
  <2>1. f = [i \in 1 .. Len(d) |-> IF i <= Len(s) THEN s[i] ELSE IF i = Len(s) + 1 THEN Nul
                                   ELSE d[i]]
    BY <1>2, <1>4, <1>7 DEF Filled
  <2>2. DOMAIN f = 1 .. Len(d) /\ f = [i \in 1 .. Len(d) |-> f[i]]
    BY <2>1
  <2>3. \A i \in 1 .. Len(d) : f[i] \in Unit
    BY <1>1, <1>4, <2>1, NamesDiffer
  <2>4. \A i \in 1 .. Len(s) : f[i] = s[i]
    BY <1>1, <1>3, <1>4, <2>1
  <2>5. Len(s) + 1 \in 1 .. Len(d) => f[Len(s) + 1] \in {Nul, d[Len(s) + 1]}
    BY <1>1, <2>1
  <2>6. QED
    BY <1>6, <2>2, <2>3, <2>4, <2>5
<1>8. ASSUME NEW f, f = WithEnd(b, s)
      PROVE  /\ f \in Seq(Unit) /\ Len(f) \in Nat
             /\ Len(f) >= Len(s) /\ Len(f) >= Len(b)
             /\ \A i \in 1 .. Len(s) : f[i] = s[i]
             /\ Misuse(b, Len(s)) = "none" => Shows(f, s)
  <2>1. f = [i \in 1 .. Len(d) |-> IF i <= Len(s) THEN s[i] ELSE d[i]]
    BY <1>2, <1>4, <1>8 DEF WithEnd
  <2>2. DOMAIN f = 1 .. Len(d) /\ f = [i \in 1 .. Len(d) |-> f[i]]
    BY <2>1
  <2>3. \A i \in 1 .. Len(d) : f[i] \in Unit
    BY <1>1, <1>4, <2>1
  <2>4. \A i \in 1 .. Len(s) : f[i] = s[i]
    BY <1>1, <1>3, <1>4, <2>1
  <2>5. Len(s) + 1 \in 1 .. Len(d) => f[Len(s) + 1] \in {Nul, d[Len(s) + 1]}
    BY <1>1, <2>1
  <2>6. QED
    BY <1>6, <2>2, <2>3, <2>4, <2>5
<1>9. QED
  BY <1>7, <1>8

\* A block filled with what shows a text shows it.
LEMMA FilledShows ==
    ASSUME NEW b \in Seq(Unit), NEW s \in Seq(Unit), NEW x \in Seq(Unit),
           Shows(s, x) \/ (s = x /\ Misuse(b, Len(s)) = "none")
    PROVE  Shows(Filled(b, s), x)
<1>1. CASE Shows(s, x)
  <2>1. PICK f : f = Filled(b, s)
    OBVIOUS
  <2>2. Len(f) \in Nat /\ Len(f) >= Len(s) /\ \A i \in 1 .. Len(s) : f[i] = s[i]
    BY <2>1, FilledIs
  <2>3. Len(s) \in Nat /\ Len(x) \in Nat /\ Len(x) < Len(s)
    BY <1>1, LenProperties DEF Shows
  <2>4. Len(x) + 1 \in 1 .. Len(s) /\ \A i \in 1 .. Len(x) : i \in 1 .. Len(s)
    BY <2>3
  <2>5. Shows(f, x)
    BY <1>1, <2>2, <2>3, <2>4 DEF Shows
  <2>6. QED
    BY <2>1, <2>5
<1>2. CASE s = x /\ Misuse(b, Len(s)) = "none"
  BY <1>2, FilledIs
<1>3. QED
  BY <1>1, <1>2

-------------------------------------------------------------------------------
(***************************************************************************)
(* The state: every block holds units; the text is a beginning of one that *)
(* was set; and what is neither expired nor lost shows it.                 *)
(***************************************************************************)
TextBegins == \E t \in Texts : \E j \in 0 .. Len(t) : text = SubSeq(t, 1, j)
BlocksHold ==
    /\ impl \in Seq(Unit) /\ u16 \in Seq(Unit) /\ u8 \in Seq(Unit)
    /\ u32 \in Seq(Unit) /\ wchars \in Seq(Unit)
    /\ aliased \in 0 .. Len(u16) /\ Len(u8) <= MaxUtf8
FlagsAre ==
    /\ wide16 \in BOOLEAN /\ made \in BOOLEAN
    /\ setter \in {"none", "SetUtf8", "SetUtf16", "SetSwigW", "SetW", "refused", "split"}
    /\ expired \subseteq {"U8", "U32", "W"}
    /\ stringFault \in {"none", "overrun", "null"}
StringTypes == TextBegins /\ BlocksHold /\ FlagsAre

WideReads == "W" \notin expired => Shows(wchars, Wide(text))
Utf8Reads == "U8" \notin expired /\ ~Terminated(u8) => \E y \in Seq(Unit) : u8 = y \o text
Utf32Reads == "U32" \notin expired => Shows(u32, text)
TextReads ==
    IF setter = "SetW" THEN Shows(Implemented, Units(text)) ELSE Implemented = Units(text)
Readable ==
    Usable /\ setter # "split" => WideReads /\ Utf8Reads /\ Utf32Reads /\ TextReads

StringInv == StringTypes /\ Readable

LEMMA TextIsPlain == TextBegins => text \in Seq(Plain)
<1>1. ASSUME NEW t \in Texts, NEW j \in 0 .. Len(t)
      PROVE  SubSeq(t, 1, j) \in Seq(Plain)
  <2>1. t \in Seq(Plain)
    BY TextsArePlain
  <2>2. Len(t) \in Nat /\ \A i \in 1 .. Len(t) : t[i] \in Plain
    BY <2>1, LenProperties, ElementOfSeq
  <2>3. \A i \in 1 .. j : t[i] \in Plain
    BY <2>2
  <2>4. j \in Int /\ 1 \in Int
    BY <2>2
  <2>5. QED
    BY <2>3, <2>4, SubSeqProperties
<1>2. QED
  BY <1>1 DEF TextBegins

LEMMA WholeText == \A t \in Texts : Len(t) \in 0 .. Len(t) /\ t = SubSeq(t, 1, Len(t))
<1>1. ASSUME NEW t \in Texts PROVE t = SubSeq(t, 1, Len(t)) /\ Len(t) \in Nat
  BY TextsArePlain, SubSeqFull, LenProperties
<1>2. QED
  BY <1>1

LEMMA UnitsAreUnits ==
    ASSUME NEW t \in Seq(Plain)
    PROVE  /\ t \in Seq(Unit) /\ Units(t) \in Seq(Unit) /\ Wide(t) \in Seq(Unit)
           /\ Characters(Units(t)) = t /\ Units(t) \in Seq(Visible) /\ Wide(t) \in Seq(Visible)
<1>1. t \in Seq(Unit) /\ t \in Seq(Visible)
  BY PlainIs
<1>2. Units(t) \in Seq(Visible) /\ Characters(Units(t)) = t
  BY RoundTrip
<1>3. Units(t) \in Seq(Unit)
  BY <1>2, PlainIs
<1>4. QED
  BY <1>1, <1>2, <1>3 DEF Wide

LEMMA WideIsUnits == \A s \in Seq(Unit) : Wide(s) \in Seq(Unit)
<1>1. ASSUME NEW s \in Seq(Unit) PROVE Units(s) \in Seq(Unit)
  BY NamesDiffer, UnitsAre
<1>2. QED
  BY <1>1 DEF Wide

LEMMA ImplementedIs == BlocksHold => Implemented \in Seq(Unit)
<1> SUFFICES ASSUME BlocksHold PROVE Implemented \in Seq(Unit)
  OBVIOUS
<1>1. Len(u16) \in Nat /\ \A i \in 1 .. Len(u16) : u16[i] \in Unit
  BY LenProperties, ElementOfSeq DEF BlocksHold
<1>2. aliased \in Int /\ 1 \in Int /\ \A i \in 1 .. aliased : u16[i] \in Unit
  BY <1>1 DEF BlocksHold
<1>3. SubSeq(u16, 1, aliased) \in Seq(Unit)
  BY <1>2, SubSeqProperties
<1>4. QED
  BY <1>3 DEF Implemented, BlocksHold

\* What the getters convert: the text, or after SetW what shows it.
LEMMA ConvertedShows ==
    ASSUME BlocksHold, TextBegins, TextReads
    PROVE  /\ Characters(Implemented) \in Seq(Unit)
           /\ \/ Characters(Implemented) = text
              \/ /\ Shows(Characters(Implemented), text)
                 /\ Shows(Wide(Characters(Implemented)), Wide(text))
<1>1. text \in Seq(Plain)
  BY TextIsPlain
<1>2. /\ text \in Seq(Unit) /\ Units(text) \in Seq(Unit) /\ Characters(Units(text)) = text
  BY <1>1, UnitsAreUnits
<1>3. Implemented \in Seq(Unit)
  BY ImplementedIs
<1>4. Characters(Implemented) \in Seq(Unit)
  BY <1>3, CharactersAre
<1>5. CASE Implemented = Units(text)
  BY <1>2, <1>4, <1>5
<1>6. CASE Shows(Implemented, Units(text))
  <2>1. PICK im \in Seq(Unit) : im = Implemented
    BY <1>3
  <2>2. PICK tu \in Seq(Unit) : tu = Units(text)
    BY <1>2
  <2>3. PICK end \in Seq(Unit) : end = <<Nul>>
    <3>1. <<Nul>> \in Seq(Unit)
      BY NamesDiffer
    <3>2. QED
      BY <3>1
  <2>4. PICK y \in Seq(Unit) : im = tu \o (<<Nul>> \o y)
    <3>1. Shows(im, tu)
      BY <1>6, <2>1, <2>2
    <3>2. QED
      BY <3>1, ShowsSplit
  <2>5. PICK z \in Seq(Unit) : z = Characters(y)
    BY CharactersAre
  <2>6. PICK ey \in Seq(Unit) : ey = end \o y
    BY ConcatProperties
  <2>7. PICK ez \in Seq(Unit) : ez = end \o z
    BY ConcatProperties
  <2>8. Characters(end) = end
    BY <2>3, NamesDiffer, CharactersAre DEF Kept
  <2>9. Characters(ey) = ez
    <3>1. Characters(end \o y) = Characters(end) \o Characters(y)
      BY CharactersAre
    <3>2. QED
      BY <2>5, <2>6, <2>7, <2>8, <3>1
  <2>10. Characters(Implemented) = text \o ez
    <3>1. Characters(tu \o ey) = Characters(tu) \o Characters(ey)
      BY CharactersAre
    <3>2. QED
      BY <1>2, <2>1, <2>2, <2>3, <2>4, <2>6, <2>9, <3>1
  <2>11. Shows(Characters(Implemented), text)
    BY <1>2, <2>3, <2>7, <2>10, NamesDiffer, ShowsMore
  <2>12. PICK w \in Seq(Unit) : w = Units(z)
    BY NamesDiffer, UnitsAre
  <2>13. Units(end) = end
    <3>1. Nul \notin Astral
      BY StringAssumption
    <3>2. QED
      BY <2>3, <3>1, NamesDiffer, UnitsAre DEF Pair
  <2>14. Units(ez) = end \o w
    <3>1. Units(end \o z) = Units(end) \o Units(z)
      BY NamesDiffer, UnitsAre
    <3>2. QED
      BY <2>7, <2>12, <2>13, <3>1
  <2>15. Units(text \o ez) = tu \o (<<Nul>> \o w)
    <3>1. Units(text \o ez) = Units(text) \o Units(ez)
      BY <1>2, NamesDiffer, UnitsAre
    <3>2. QED
      BY <2>2, <2>3, <2>14, <3>1
  <2>16. Shows(tu \o (<<Nul>> \o w), tu)
    BY NamesDiffer, ShowsMore
  <2>17. Shows(Wide(Characters(Implemented)), Wide(text))
    BY <2>2, <2>10, <2>11, <2>15, <2>16 DEF Wide
  <2>18. QED
    BY <1>4, <2>11, <2>17
<1>7. QED
  BY <1>5, <1>6 DEF TextReads

-------------------------------------------------------------------------------
(***************************************************************************)
(* The setters and the getters.                                            *)
(***************************************************************************)
LEMMA NewText ==
    ASSUME NEW t \in Texts, text' = t
    PROVE  TextBegins' /\ t \in Seq(Plain) /\ Len(t) <= MaxUtf8
<1>1. Len(t) \in 0 .. Len(t) /\ text' = SubSeq(t, 1, Len(t))
  BY WholeText
<1>2. QED
  BY <1>1, TextsArePlain DEF TextBegins

LEMMA SetUtf8Keeps ==
    ASSUME StringInv, NEW t \in Texts, SetUtf8(t) PROVE StringInv'
<1>1. TextBegins' /\ t \in Seq(Plain) /\ Len(t) <= MaxUtf8
  BY NewText DEF SetUtf8
<1>2. t \in Seq(Unit) /\ Units(t) \in Seq(Unit)
  BY <1>1, UnitsAreUnits
<1>3. 0 \in 0 .. Len(u16)
  BY LenProperties DEF StringInv, StringTypes, BlocksHold
<1>4. BlocksHold' /\ FlagsAre'
  BY <1>1, <1>2, <1>3 DEF StringInv, StringTypes, BlocksHold, FlagsAre, SetUtf8
<1>5. Utf8Reads'
  <2>1. <<>> \in Seq(Unit) /\ t = <<>> \o t
    BY <1>2, ConcatEmptySeq, EmptySeq
  <2>2. u8' = t /\ text' = t
    BY DEF SetUtf8
  <2>3. QED
    BY <2>1, <2>2 DEF Utf8Reads
<1>6. WideReads' /\ Utf32Reads'
  BY DEF SetUtf8, WideReads, Utf32Reads
<1>7. TextReads'
  BY DEF SetUtf8, TextReads, Implemented
<1>8. QED
  BY <1>1, <1>4, <1>5, <1>6, <1>7 DEF StringInv, StringTypes, Readable

LEMMA SetUtf16Keeps ==
    ASSUME StringInv, NEW t \in Texts, SetUtf16(t) PROVE StringInv'
<1>1. TextBegins' /\ t \in Seq(Plain)
  BY NewText DEF SetUtf16
<1>2. Units(t) \in Seq(Unit)
  BY <1>1, UnitsAreUnits
<1>3. 0 \in 0 .. Len(u16)
  BY LenProperties DEF StringInv, StringTypes, BlocksHold
<1>4. BlocksHold' /\ FlagsAre'
  BY <1>2, <1>3 DEF StringInv, StringTypes, BlocksHold, FlagsAre, SetUtf16, buffers
<1>5. WideReads' /\ Utf8Reads' /\ Utf32Reads'
  BY DEF SetUtf16, WideReads, Utf8Reads, Utf32Reads
<1>6. TextReads'
  BY DEF SetUtf16, TextReads, Implemented
<1>7. QED
  BY <1>1, <1>4, <1>5, <1>6 DEF StringInv, StringTypes, Readable

\* A foreign string whose terminator does not come within MaxSize is cut short.
LEMMA SizeIs ==
    ASSUME NEW u \in Seq(Unit) PROVE GetStringSize(u) \in 0 .. Len(u)
<1>1. Len(u) \in Nat /\ MaxSize \in Nat /\ MaxSize > 2
  BY LenProperties, StringAssumption
<1>2. QED
  BY <1>1 DEF GetStringSize

\* The beginning of a block that holds a text is the text.
LEMMA BeginningIs ==
    ASSUME NEW f \in Seq(Unit), NEW s \in Seq(Unit), Len(s) <= Len(f),
           \A i \in 1 .. Len(s) : f[i] = s[i]
    PROVE  SubSeq(f, 1, Len(s)) = s
<1>1. /\ Len(s) \in Nat /\ Len(f) \in Nat /\ \A i \in 1 .. Len(s) : f[i] \in Unit
  BY LenProperties, ElementOfSeq
<1>2. PICK n \in Nat : n = Len(s)
  BY <1>1
<1>3. /\ SubSeq(f, 1, n) \in Seq(Unit)
      /\ Len(SubSeq(f, 1, n)) = IF 1 <= n THEN n - 1 + 1 ELSE 0
      /\ \A i \in 1 .. n - 1 + 1 : SubSeq(f, 1, n)[i] = f[1 + i - 1]
  BY <1>1, <1>2, SubSeqProperties
<1>4. PICK y \in Seq(Unit) : y = SubSeq(f, 1, n)
  BY <1>3
<1>5. Len(y) = n /\ \A i \in 1 .. n : y[i] = f[i]
  <2>1. n - 1 + 1 = n /\ \A i \in 1 .. n : 1 + i - 1 = i
    OBVIOUS
  <2>2. Len(y) = n
    BY <1>3, <1>4
  <2>3. QED
    BY <1>3, <1>4, <2>1, <2>2
<1>6. y = s
  BY <1>2, <1>5, SeqEqual
<1>7. QED
  BY <1>2, <1>4, <1>6

LEMMA SetSwigWKeeps ==
    ASSUME StringInv, NEW t \in Texts, SetSwigW(t) PROVE StringInv'
<1>1. t \in Seq(Plain) /\ Len(t) \in Nat
  BY TextsArePlain, LenProperties
<1>2. Units(t) \in Seq(Unit)
  BY <1>1, UnitsAreUnits
<1>3. 0 \in 0 .. Len(u16) /\ u16 \in Seq(Unit)
  BY LenProperties DEF StringInv, StringTypes, BlocksHold
<1>4. WideReads' /\ Utf8Reads' /\ Utf32Reads'
  BY DEF SetSwigW, WideReads, Utf8Reads, Utf32Reads
<1>5. CASE wide16
  <2>1. text' = t /\ setter' = "SetSwigW" /\ impl' = Units(t) /\ aliased' = 0
        /\ UNCHANGED <<u16, stringFault>>
    BY <1>5 DEF SetSwigW
  <2>2. TextBegins'
    BY <2>1, NewText
  <2>3. BlocksHold' /\ FlagsAre'
    BY <1>2, <1>3, <2>1
    DEF StringInv, StringTypes, BlocksHold, FlagsAre, SetSwigW
  <2>4. TextReads'
    BY <2>1 DEF TextReads, Implemented
  <2>5. QED
    BY <1>4, <2>2, <2>3, <2>4 DEF StringInv, StringTypes, Readable
<1>6. CASE ~wide16
  <2>1. PICK m \in 0 .. Len(Units(t)) : m = GetStringSize(Units(t))
    BY <1>2, SizeIs
  <2>2. PICK j \in 0 .. Len(t) : Begins(Units(t), m, t, j)
    BY <1>1, TakenIs
  <2>3. PICK taken : taken = SubSeq(Units(t), 1, m)
    OBVIOUS
  <2>4. taken \in Seq(Unit) /\ Len(taken) = m
    <3>1. Len(Units(t)) \in Nat /\ \A i \in 1 .. Len(Units(t)) : Units(t)[i] \in Unit
      BY <1>2, LenProperties, ElementOfSeq
    <3>2. 1 \in Int /\ m \in Int /\ \A i \in 1 .. m : Units(t)[i] \in Unit
      BY <3>1
    <3>3. /\ SubSeq(Units(t), 1, m) \in Seq(Unit)
          /\ Len(SubSeq(Units(t), 1, m)) = IF 1 <= m THEN m - 1 + 1 ELSE 0
      BY <3>2, SubSeqProperties
    <3>4. (IF 1 <= m THEN m - 1 + 1 ELSE 0) = m
      BY <3>1
    <3>5. QED
      BY <2>3, <3>3, <3>4
  <2>5. /\ text' = Characters(taken)
        /\ setter' = IF SplitsPair(taken) THEN "split" ELSE "SetSwigW"
        /\ u16' = Filled(u16, taken) /\ aliased' = Len(taken) /\ impl' = <<>>
        /\ stringFault' = Misuse(u16, Len(taken))
    BY <1>6, <2>1, <2>3 DEF SetSwigW, Faults
  <2>6. text' = SubSeq(t, 1, j) /\ (~SplitsPair(taken) => taken = Units(text'))
    BY <2>2, <2>3, <2>5 DEF Begins
  <2>7. TextBegins'
    BY <2>6 DEF TextBegins
  <2>8. /\ u16' \in Seq(Unit) /\ Len(u16') \in Nat /\ Len(u16') >= Len(taken)
        /\ \A i \in 1 .. Len(taken) : u16'[i] = taken[i]
    BY <1>3, <2>4, <2>5, FilledIs
  <2>9. aliased' \in 0 .. Len(u16')
    BY <2>4, <2>5, <2>8
  <2>10. BlocksHold'
    <3>1. <<>> \in Seq(Unit)
      OBVIOUS
    <3>2. QED
      BY <2>5, <2>8, <2>9, <3>1 DEF StringInv, StringTypes, BlocksHold, SetSwigW
  <2>11. FlagsAre'
    BY <2>5 DEF StringInv, StringTypes, FlagsAre, SetSwigW, Misuse
  <2>12. ASSUME setter' # "split" PROVE TextReads'
    <3>1. taken = Units(text') /\ setter' = "SetSwigW"
      BY <2>5, <2>6, <2>12
    <3>2. CASE aliased' > 0
      <4>1. SubSeq(u16', 1, aliased') = taken
        BY <2>4, <2>5, <2>8, BeginningIs
      <4>2. QED
        BY <3>1, <3>2, <4>1 DEF TextReads, Implemented
    <3>3. CASE ~(aliased' > 0)
      <4>1. Len(taken) = 0
        BY <2>4, <2>5, <3>3
      <4>2. taken = <<>>
        BY <2>4, <4>1, EmptySeq
      <4>3. QED
        BY <2>5, <3>1, <3>3, <4>2 DEF TextReads, Implemented
    <3>4. QED
      BY <3>2, <3>3
  <2>13. QED
    BY <1>4, <2>7, <2>10, <2>11, <2>12 DEF StringInv, StringTypes, Readable
<1>7. QED
  BY <1>5, <1>6

LEMMA SetWKeeps ==
    ASSUME StringInv, NEW t \in Texts, SetW(t) PROVE StringInv'
<1>1. TextBegins' /\ t \in Seq(Plain) /\ text' = t
  BY NewText DEF SetW
<1>2. Units(t) \in Seq(Unit) /\ Wide(t) \in Seq(Unit)
  BY <1>1, UnitsAreUnits
<1>3. /\ impl \in Seq(Unit) /\ u16 \in Seq(Unit) /\ wchars \in Seq(Unit)
      /\ u8 \in Seq(Unit) /\ u32 \in Seq(Unit) /\ Len(u8) <= MaxUtf8
      /\ aliased \in 0 .. Len(u16) /\ Len(u16) \in Nat
  BY LenProperties DEF StringInv, StringTypes, BlocksHold
<1>4. wchars' = WithEnd(wchars, Wide(t)) /\ u16' = Filled(u16, Units(t))
  BY DEF SetW, WithEnd
<1>5. /\ wchars' \in Seq(Unit)
      /\ Misuse(wchars, Len(Wide(t))) = "none" => Shows(wchars', Wide(t))
  BY <1>2, <1>3, <1>4, FilledIs
<1>6. /\ u16' \in Seq(Unit) /\ Len(u16') \in Nat /\ Len(u16') >= Len(u16)
      /\ Misuse(u16, Len(Units(t))) = "none" => Shows(u16', Units(t))
  BY <1>2, <1>3, <1>4, FilledIs
<1>7. aliased' \in 0 .. Len(u16') /\ impl' \in Seq(Unit)
  <2>1. <<>> \in Seq(Unit)
    OBVIOUS
  <2>2. \/ aliased' = Len(u16') /\ impl' = <<>>
        \/ aliased' = aliased /\ impl' = impl
    BY DEF SetW
  <2>3. Len(u16') \in 0 .. Len(u16') /\ aliased \in 0 .. Len(u16')
    BY <1>3, <1>6
  <2>4. QED
    BY <1>3, <2>1, <2>2, <2>3
<1>8. BlocksHold'
  BY <1>3, <1>5, <1>6, <1>7 DEF BlocksHold, SetW
<1>9. FlagsAre'
  <2>1. stringFault' \in {"none", "overrun", "null"}
    BY DEF SetW, Faults, Worst, Misuse
  <2>2. setter' \in {"SetW", "refused"}
    BY DEF SetW
  <2>3. QED
    BY <2>1, <2>2 DEF StringInv, StringTypes, FlagsAre, SetW
<1>10. ASSUME Usable' PROVE WideReads' /\ Utf8Reads' /\ Utf32Reads' /\ TextReads'
  <2>1. Misuse(wchars, Len(Wide(t))) = "none" /\ Misuse(u16, Len(Units(t))) = "none"
    BY <1>10 DEF SetW, Faults, Usable, Worst, Misuse
  <2>2. setter' = "SetW" /\ impl' = <<>> /\ aliased' = Len(u16')
    BY <2>1 DEF SetW
  <2>3. WideReads'
    <3>1. wide16' = wide16
      BY DEF SetW
    <3>2. Wide(t)' = Wide(t)
      BY <3>1 DEF Wide
    <3>3. Wide(text)' = Wide(t)
      BY <1>1, <3>1 DEF Wide
    <3>4. QED
      BY <1>5, <2>1, <3>3 DEF WideReads
  <2>4. Utf8Reads' /\ Utf32Reads'
    BY DEF SetW, Utf8Reads, Utf32Reads
  <2>5. Shows(u16', Units(t))
    BY <1>6, <2>1
  <2>6. Len(u16') > 0
    <3>1. Len(Units(t)) \in Nat
      BY <1>2, LenProperties
    <3>2. QED
      BY <1>6, <2>5, <3>1 DEF Shows
  <2>7. SubSeq(u16', 1, Len(u16')) = u16'
    BY <1>6, SubSeqFull
  <2>8. Implemented' = u16'
    BY <2>2, <2>6, <2>7 DEF Implemented
  <2>9. QED
    BY <1>1, <2>2, <2>3, <2>4, <2>5, <2>8 DEF TextReads
<1>11. QED
  BY <1>1, <1>8, <1>9, <1>10 DEF StringInv, StringTypes, Readable

LEMMA GetUtf8Keeps ==
    ASSUME StringInv, GetUtf8 PROVE StringInv'
<1>1. TextBegins /\ BlocksHold /\ FlagsAre /\ Usable
  BY DEF StringInv, StringTypes, GetUtf8
<1>2. UNCHANGED <<wide16, text, setter, made, impl, aliased, u16, u32, wchars, stringFault>>
  BY DEF GetUtf8
<1>3. Implemented \in Seq(Unit) /\ Implemented' = Implemented
  BY <1>1, <1>2, ImplementedIs DEF Implemented
<1>4. PICK s \in Seq(Unit) : s = Characters(Implemented)
  BY <1>3, CharactersAre
<1>5. u8' = u8 \o s /\ Len(u8') <= MaxUtf8
  BY <1>4 DEF GetUtf8
<1>6. u8' \in Seq(Unit)
  BY <1>1, <1>5, ConcatProperties DEF BlocksHold
<1>7. TextBegins' /\ BlocksHold' /\ FlagsAre'
  BY <1>1, <1>2, <1>5, <1>6 DEF TextBegins, BlocksHold, FlagsAre, GetUtf8
<1>8. ASSUME setter # "split" PROVE WideReads' /\ Utf8Reads' /\ Utf32Reads' /\ TextReads'
  <2>1. WideReads /\ Utf32Reads /\ TextReads
    BY <1>1, <1>8 DEF StringInv, Readable
  <2>2. Wide(text)' = Wide(text)
    BY <1>2 DEF Wide
  <2>3. WideReads' /\ Utf32Reads' /\ TextReads'
    BY <1>2, <1>3, <2>1, <2>2 DEF WideReads, Utf32Reads, TextReads, GetUtf8
  <2>4. CASE s = text
    BY <1>1, <1>2, <1>5, <2>3, <2>4 DEF Utf8Reads, BlocksHold
  <2>5. CASE Shows(s, text)
    <3>1. /\ text \in Seq(Unit) /\ Len(text) \in Nat /\ Len(s) \in Nat /\ Len(u8) \in Nat
      BY <1>1, TextIsPlain, UnitsAreUnits, LenProperties DEF BlocksHold
    <3>2. /\ Len(u8 \o s) = Len(u8) + Len(s)
          /\ \A i \in 1 .. Len(u8) + Len(s) :
               (u8 \o s)[i] = IF i <= Len(u8) THEN u8[i] ELSE s[i - Len(u8)]
      BY <1>1, ConcatProperties DEF BlocksHold
    <3>3. PICK k \in Nat : k = Len(u8) + (Len(text) + 1)
      BY <3>1
    <3>4. /\ k \in 1 .. Len(u8) + Len(s) /\ ~(k <= Len(u8))
          /\ k - Len(u8) = Len(text) + 1
      BY <2>5, <3>1, <3>3 DEF Shows
    <3>5. (u8 \o s)[k] = Nul
      BY <2>5, <3>2, <3>4 DEF Shows
    <3>6. k \in DOMAIN u8' /\ u8'[k] = Nul
      BY <1>5, <1>6, <3>2, <3>4, <3>5, LenProperties
    <3>7. Terminated(u8)'
      BY <3>6 DEF Terminated, Range
    <3>8. QED
      BY <2>3, <3>7 DEF Utf8Reads
  <2>6. QED
    BY <1>1, <1>4, <2>1, <2>4, <2>5, ConvertedShows
<1>9. QED
  BY <1>2, <1>7, <1>8 DEF StringInv, StringTypes, Readable

LEMMA GetWKeeps ==
    ASSUME StringInv, GetW PROVE StringInv'
<1>1. TextBegins /\ BlocksHold /\ FlagsAre /\ Usable
  BY DEF StringInv, StringTypes, GetW
<1>2. UNCHANGED <<wide16, text, setter, made, impl, aliased, u16, u8, u32>>
  BY DEF GetW
<1>3. Implemented \in Seq(Unit) /\ Implemented' = Implemented
  BY <1>1, <1>2, ImplementedIs DEF Implemented
<1>4. PICK c \in Seq(Unit) : c = Characters(Implemented)
  BY <1>3, CharactersAre
<1>5. PICK s \in Seq(Unit) : s = Wide(c)
  BY WideIsUnits
<1>6. wchars' = Filled(wchars, s) /\ stringFault' = Misuse(wchars, Len(s))
      /\ expired' \subseteq expired /\ expired \ expired' \subseteq {"W"}
  BY <1>4, <1>5 DEF GetW, Faults
<1>7. wchars \in Seq(Unit)
  BY <1>1 DEF BlocksHold
<1>8. wchars' \in Seq(Unit)
  BY <1>6, <1>7, FilledIs
<1>9. TextBegins' /\ BlocksHold' /\ FlagsAre'
  BY <1>1, <1>2, <1>6, <1>8 DEF TextBegins, BlocksHold, FlagsAre, Misuse
<1>10. ASSUME Usable', setter # "split"
       PROVE  WideReads' /\ Utf8Reads' /\ Utf32Reads' /\ TextReads'
  <2>1. Utf8Reads /\ Utf32Reads /\ TextReads
    BY <1>1, <1>10 DEF StringInv, Readable
  <2>2. Wide(text)' = Wide(text)
    BY <1>2 DEF Wide
  <2>3. Utf8Reads' /\ Utf32Reads' /\ TextReads'
    <3>1. /\ "U8" \in expired' <=> "U8" \in expired
          /\ "U32" \in expired' <=> "U32" \in expired
      BY <1>6
    <3>2. Terminated(u8)' = Terminated(u8)
      BY <1>2 DEF Terminated
    <3>3. QED
      BY <1>2, <1>3, <2>1, <3>1, <3>2 DEF Utf8Reads, Utf32Reads, TextReads
  <2>4. Misuse(wchars, Len(s)) = "none"
    BY <1>6, <1>10 DEF Usable
  <2>5. Shows(s, Wide(text)) \/ s = Wide(text)
    BY <1>1, <1>4, <1>5, <2>1, ConvertedShows
  <2>6. Wide(text) \in Seq(Unit)
    BY <1>1, TextIsPlain, UnitsAreUnits
  <2>7. Shows(wchars', Wide(text))
    BY <1>6, <1>7, <2>4, <2>5, <2>6, FilledShows
  <2>8. WideReads'
    BY <2>2, <2>7 DEF WideReads
  <2>9. QED
    BY <2>3, <2>8
<1>11. QED
  BY <1>2, <1>9, <1>10 DEF StringInv, StringTypes, Readable

LEMMA UpdateUtf32CacheKeeps ==
    ASSUME StringInv, UpdateUtf32Cache PROVE StringInv'
<1>1. TextBegins /\ BlocksHold /\ FlagsAre /\ Usable
  BY DEF StringInv, StringTypes, UpdateUtf32Cache
<1>2. UNCHANGED <<wide16, text, setter, made, impl, aliased, u16, u8, wchars>>
  BY DEF UpdateUtf32Cache
<1>3. Implemented \in Seq(Unit) /\ Implemented' = Implemented
  BY <1>1, <1>2, ImplementedIs DEF Implemented
<1>4. PICK s \in Seq(Unit) : s = Characters(Implemented)
  BY <1>3, CharactersAre
<1>5. u32' = Filled(u32, s) /\ stringFault' = Misuse(u32, Len(s))
      /\ expired' = expired \ {"U32"}
  BY <1>4 DEF UpdateUtf32Cache, Faults
<1>6. u32 \in Seq(Unit)
  BY <1>1 DEF BlocksHold
<1>7. u32' \in Seq(Unit)
  BY <1>5, <1>6, FilledIs
<1>8. TextBegins' /\ BlocksHold' /\ FlagsAre'
  BY <1>1, <1>2, <1>5, <1>7 DEF TextBegins, BlocksHold, FlagsAre, Misuse
<1>9. ASSUME Usable', setter # "split"
      PROVE  WideReads' /\ Utf8Reads' /\ Utf32Reads' /\ TextReads'
  <2>1. WideReads /\ Utf8Reads /\ TextReads
    BY <1>1, <1>9 DEF StringInv, Readable
  <2>2. Wide(text)' = Wide(text)
    BY <1>2 DEF Wide
  <2>3. WideReads' /\ Utf8Reads' /\ TextReads'
    BY <1>2, <1>3, <1>5, <2>1, <2>2 DEF WideReads, Utf8Reads, TextReads
  <2>4. Misuse(u32, Len(s)) = "none"
    BY <1>5, <1>9 DEF Usable
  <2>5. Shows(s, text) \/ s = text
    BY <1>1, <1>4, <2>1, ConvertedShows
  <2>6. text \in Seq(Unit)
    BY <1>1, TextIsPlain, UnitsAreUnits
  <2>7. Shows(u32', text)
    BY <1>5, <1>6, <2>4, <2>5, <2>6, FilledShows
  <2>8. Utf32Reads'
    BY <1>2, <2>7 DEF Utf32Reads
  <2>9. QED
    BY <2>3, <2>8
<1>10. QED
  BY <1>2, <1>8, <1>9 DEF StringInv, StringTypes, Readable

LEMMA StringStep == StringInv /\ [StringNext]_stringVars => StringInv'
<1> SUFFICES ASSUME StringInv, [StringNext]_stringVars PROVE StringInv'
  OBVIOUS
<1>1. CASE Create \/ GetImpl
  <2>1. /\ UNCHANGED <<wide16, text, setter, impl, aliased, u16, u8, u32, wchars, stringFault>>
        /\ made' \in BOOLEAN /\ expired' \in {expired, {"U8", "U32", "W"}}
    BY <1>1 DEF Create, GetImpl, buffers, StringInv, StringTypes, FlagsAre
  <2>2. TextBegins' /\ BlocksHold' /\ FlagsAre'
    BY <2>1 DEF StringInv, StringTypes, TextBegins, BlocksHold, FlagsAre
  <2>3. /\ Implemented' = Implemented /\ Wide(text)' = Wide(text)
        /\ Usable' = Usable
    BY <2>1 DEF Implemented, Wide, Usable
  <2>4. ASSUME WideReads, Utf8Reads, Utf32Reads, TextReads
        PROVE  WideReads' /\ Utf8Reads' /\ Utf32Reads' /\ TextReads'
    BY <2>1, <2>3, <2>4 DEF WideReads, Utf8Reads, Utf32Reads, TextReads
  <2>5. QED
    BY <2>1, <2>2, <2>3, <2>4 DEF StringInv, StringTypes, Readable
<1>2. ASSUME NEW t \in Texts, SetUtf8(t) \/ SetUtf16(t) \/ SetSwigW(t) \/ SetW(t)
      PROVE  StringInv'
  BY <1>2, SetUtf8Keeps, SetUtf16Keeps, SetSwigWKeeps, SetWKeeps
<1>3. CASE GetUtf8 \/ GetW \/ UpdateUtf32Cache
  BY <1>3, GetUtf8Keeps, GetWKeeps, UpdateUtf32CacheKeeps
<1>4. CASE UNCHANGED stringVars
  <2>1. UNCHANGED <<wide16, text, setter, made, impl, aliased, u16, u8, u32, wchars, expired,
                    stringFault>>
    BY <1>4 DEF stringVars
  <2>2. Implemented' = Implemented /\ Wide(text)' = Wide(text)
    BY <2>1 DEF Implemented, Wide
  <2>3. StringTypes'
    BY <2>1 DEF StringInv, StringTypes, TextBegins, BlocksHold, FlagsAre
  <2>4. Readable'
    BY <2>1, <2>2
    DEF StringInv, Readable, Usable, WideReads, Utf8Reads, Utf32Reads, TextReads
  <2>5. QED
    BY <2>3, <2>4 DEF StringInv
<1>5. QED
  BY <1>1, <1>2, <1>3, <1>4 DEF StringNext

LEMMA StringInitInv == StringInit => StringInv
<1> SUFFICES ASSUME StringInit PROVE StringInv
  OBVIOUS
<1>1. <<>> \in Seq(Unit) /\ Len(<<>>) = 0
  OBVIOUS
<1>2. TextBegins
  <2>1. PICK t : t \in Texts
    BY StringAssumption
  <2>2. Len(t) \in Nat
    BY <2>1, TextsArePlain, LenProperties
  <2>3. SubSeq(t, 1, 0) = <<>>
    BY SubSeqEmpty
  <2>4. QED
    BY <2>1, <2>2, <2>3 DEF StringInit, TextBegins
<1>3. BlocksHold
  BY <1>1, StringAssumption DEF StringInit, BlocksHold
<1>4. FlagsAre
  BY DEF StringInit, FlagsAre
<1>5. Readable
  BY EmptyText
  DEF StringInit, Readable, WideReads, Utf8Reads, Utf32Reads, TextReads, Implemented
<1>6. QED
  BY <1>2, <1>3, <1>4, <1>5 DEF StringInv, StringTypes

LEMMA StringInvTypes == StringInv => StringTypeOK
<1> SUFFICES ASSUME StringInv PROVE StringTypeOK
  OBVIOUS
<1>1. PICK t \in Texts : \E j \in 0 .. Len(t) : text = SubSeq(t, 1, j)
  BY DEF StringInv, StringTypes, TextBegins
<1>2. PICK j \in 0 .. Len(t) : text = SubSeq(t, 1, j)
  BY <1>1
<1>3. t \in Seq(Plain) /\ Len(t) \in Nat /\ \A i \in 1 .. Len(t) : t[i] \in Plain
  BY TextsArePlain, LenProperties, ElementOfSeq
<1>4. /\ SubSeq(t, 1, j) \in Seq(Plain)
      /\ Len(SubSeq(t, 1, j)) = IF 1 <= j THEN j - 1 + 1 ELSE 0
  <2>1. 1 \in Int /\ j \in Int /\ \A i \in 1 .. j : t[i] \in Plain
    BY <1>3
  <2>2. QED
    BY <2>1, SubSeqProperties
<1>5. Len(text) = j /\ text \in Seq(Plain)
  BY <1>2, <1>3, <1>4
<1>6. SubSeq(text, 1, Len(text)) = text
  BY <1>5, SubSeqFull
<1>7. IsPrefix(text, t)
  BY <1>2, <1>3, <1>5, <1>6 DEF IsPrefix
<1>8. QED
  BY <1>7 DEF StringInv, StringTypes, BlocksHold, FlagsAre, StringTypeOK

\* What ends in a text has it as a suffix.
LEMMA EndIsSuffix ==
    ASSUME NEW S, NEW y \in Seq(S), NEW x \in Seq(S) PROVE IsSuffix(x, y \o x)
<1>1. /\ Len(x) \in Nat /\ Len(y) \in Nat
      /\ \A i \in 1 .. Len(x) : x[i] \in S
  BY LenProperties, ElementOfSeq
<1>2. PICK z \in Seq(S) : z = y \o x
  BY ConcatProperties
<1>3. /\ Len(z) = Len(y) + Len(x)
      /\ \A i \in 1 .. Len(y) + Len(x) : z[i] = IF i <= Len(y) THEN y[i] ELSE x[i - Len(y)]
  BY <1>2, ConcatProperties
<1>4. PICK r : r = Reverse(x)
  OBVIOUS
<1>5. PICK q : q = Reverse(z)
  OBVIOUS
<1>6. ASSUME NEW s \in Seq(S)
      PROVE  /\ Reverse(s) \in Seq(S) /\ Len(Reverse(s)) = Len(s)
             /\ \A i \in 1 .. Len(s) : Reverse(s)[i] = s[(Len(s) - i) + 1]
  <2>1. Len(s) \in Nat /\ \A i \in 1 .. Len(s) : s[i] \in S
    BY LenProperties, ElementOfSeq
  <2>2. \A i \in 1 .. Len(s) : (Len(s) - i) + 1 \in 1 .. Len(s)
    BY <2>1
  <2>3. Reverse(s) \in [1 .. Len(s) -> S]
    BY <2>1, <2>2 DEF Reverse
  <2>4. Len(Reverse(s)) = Len(s)
    BY <2>1 DEF Reverse
  <2>5. Seq(S) = UNION {[1 .. k -> S] : k \in Nat}
    BY SeqDef
  <2>6. \A i \in 1 .. Len(s) : Reverse(s)[i] = s[(Len(s) - i) + 1]
    BY DEF Reverse
  <2>7. QED
    BY <2>1, <2>3, <2>4, <2>5, <2>6
<1>7. /\ r \in Seq(S) /\ Len(r) = Len(x)
      /\ \A i \in 1 .. Len(x) : r[i] = x[(Len(x) - i) + 1]
  BY <1>4, <1>6
<1>8. /\ q \in Seq(S) /\ Len(q) = Len(z)
      /\ \A i \in 1 .. Len(z) : q[i] = z[(Len(z) - i) + 1]
  BY <1>2, <1>5, <1>6
<1>9. ASSUME NEW i \in 1 .. Len(x) PROVE q[i] = r[i]
  <2>1. i \in 1 .. Len(z) /\ (Len(z) - i) + 1 \in 1 .. Len(y) + Len(x)
        /\ ~((Len(z) - i) + 1 <= Len(y)) /\ ((Len(z) - i) + 1) - Len(y) = (Len(x) - i) + 1
    BY <1>1, <1>3
  <2>2. q[i] = z[(Len(z) - i) + 1]
    BY <1>8, <2>1
  <2>3. z[(Len(z) - i) + 1] = x[((Len(z) - i) + 1) - Len(y)]
    BY <1>3, <2>1
  <2>4. QED
    BY <1>7, <2>1, <2>2, <2>3
<1>10. Len(r) <= Len(q)
  BY <1>1, <1>3, <1>7, <1>8
<1>11. SubSeq(q, 1, Len(r)) = SubSeq(r, 1, Len(r))
  <2>1. PICK n \in Nat : n = Len(r)
    BY <1>1, <1>7
  <2>2. /\ \A i \in 1 .. n : q[i] \in S /\ r[i] \in S /\ q[i] = r[i]
    <3>1. Len(q) \in Nat /\ (\A i \in 1 .. Len(q) : q[i] \in S)
          /\ (\A i \in 1 .. Len(r) : r[i] \in S)
      BY <1>7, <1>8, LenProperties, ElementOfSeq
    <3>2. \A i \in 1 .. n : i \in 1 .. Len(q) /\ i \in 1 .. Len(r) /\ i \in 1 .. Len(x)
      BY <1>7, <1>10, <2>1, <3>1
    <3>3. QED
      BY <1>9, <3>1, <3>2
  <2>3. /\ SubSeq(q, 1, n) \in Seq(S) /\ SubSeq(r, 1, n) \in Seq(S)
        /\ Len(SubSeq(q, 1, n)) = IF 1 <= n THEN n - 1 + 1 ELSE 0
        /\ Len(SubSeq(r, 1, n)) = IF 1 <= n THEN n - 1 + 1 ELSE 0
        /\ \A i \in 1 .. n - 1 + 1 : SubSeq(q, 1, n)[i] = q[1 + i - 1]
        /\ \A i \in 1 .. n - 1 + 1 : SubSeq(r, 1, n)[i] = r[1 + i - 1]
    BY <2>1, <2>2, SubSeqProperties
  <2>4. PICK a \in Seq(S) : a = SubSeq(q, 1, n)
    BY <2>3
  <2>5. PICK b \in Seq(S) : b = SubSeq(r, 1, n)
    BY <2>3
  <2>6. n - 1 + 1 = n /\ \A i \in 1 .. n : 1 + i - 1 = i
    BY <2>1
  <2>7. Len(a) = n /\ Len(b) = n /\ \A i \in 1 .. n : a[i] = q[i] /\ b[i] = r[i]
    BY <2>3, <2>4, <2>5, <2>6
  <2>8. a = b
    BY <2>2, <2>7, SeqEqual
  <2>9. QED
    BY <2>1, <2>4, <2>5, <2>8
<1>12. QED
  BY <1>2, <1>4, <1>5, <1>10, <1>11 DEF IsSuffix, IsPrefix

LEMMA ReadableServes == StringInv => ReadersFindText
<1> SUFFICES ASSUME StringInv, Usable, setter # "split"
             PROVE  /\ "W" \notin expired => Cut(wchars) = Wide(text)
                    /\ "U8" \notin expired /\ ~Terminated(u8) => IsSuffix(text, u8)
                    /\ "U32" \notin expired => Cut(u32) = text
                    /\ IF setter = "SetW"
                       THEN Terminated(Implemented) /\ Cut(Implemented) = Units(text)
                       ELSE Implemented = Units(text)
  BY DEF ReadersFindText
<1>1. BlocksHold /\ TextBegins /\ WideReads /\ Utf8Reads /\ Utf32Reads /\ TextReads
  BY DEF StringInv, StringTypes, Readable
<1>2. /\ text \in Seq(Plain) /\ text \in Seq(Unit) /\ text \in Seq(Visible)
      /\ Wide(text) \in Seq(Visible) /\ Units(text) \in Seq(Visible)
  BY <1>1, TextIsPlain, UnitsAreUnits, PlainIs
<1>3. /\ wchars \in Seq(Unit) /\ u32 \in Seq(Unit) /\ Implemented \in Seq(Unit)
  BY <1>1, ImplementedIs DEF BlocksHold
<1>4. "W" \notin expired => Cut(wchars) = Wide(text)
  BY <1>1, <1>2, <1>3, ShowsCut DEF WideReads
<1>5. "U8" \notin expired /\ ~Terminated(u8) => IsSuffix(text, u8)
  BY <1>1, <1>2, EndIsSuffix DEF Utf8Reads
<1>6. "U32" \notin expired => Cut(u32) = text
  BY <1>1, <1>2, <1>3, ShowsCut DEF Utf32Reads
<1>7. IF setter = "SetW" THEN Terminated(Implemented) /\ Cut(Implemented) = Units(text)
      ELSE Implemented = Units(text)
  BY <1>1, <1>2, <1>3, ShowsCut DEF TextReads
<1>8. QED
  BY <1>4, <1>5, <1>6, <1>7

LEMMA StringAlways == StringSpec => []StringInv
  BY StringInitInv, StringStep, PTL DEF StringSpec

\* The string has its types, whatever the texts, the sizes and the encodings.
THEOREM StringTypeCorrect == StringSpec => []StringTypeOK
  BY StringAlways, StringInvTypes, PTL

\* Readers of a string find the text last set, in every encoding, whatever caches
\* the setters and getters before it left behind (DasStringCppImpl).
THEOREM ReadersAreServed == StringSpec => []ReadersFindText
  BY StringAlways, ReadableServes, PTL

-------------------------------------------------------------------------------
(***************************************************************************)
(* All of them.  Each part keeps its own invariant, whichever of them      *)
(* moves.  Where references of the two sides are exchanged the vector is   *)
(* empty, and those of foreign objects with both interfaces may be         *)
(* uncounted; everywhere else every reference is counted.                  *)
(***************************************************************************)
ExchangeInv == InteropInv /\ variants = <<>> /\ GuidTypes
HoldersInv == IF part = "interop" THEN ExchangeInv ELSE VectorInv
ObjectsInv ==
    CounterInv /\ StringInv /\ HoldersInv /\ JsonInv /\ ImagesInv /\ InfoInv

LEMMA ObjectsInitInv == Init => ObjectsInv
<1> SUFFICES ASSUME Init PROVE ObjectsInv
  OBVIOUS
<1>1. CounterInv /\ StringInv /\ JsonInv /\ ImagesInv /\ InfoInv /\ VectorInv
  BY CounterInitInv, StringInitInv, JsonInitInv, ImagesInitInv, InfoInitInv, VectorInitInv
  DEF Init
<1>2. InteropInv /\ variants = <<>>
  BY InteropInitInv DEF Init, VectorInit
<1>3. QED
  BY <1>1, <1>2 DEF ObjectsInv, HoldersInv, ExchangeInv, VectorInv

LEMMA HoldersStep == HoldersInv /\ [Next]_vars => HoldersInv'
<1> SUFFICES ASSUME HoldersInv, [Next]_vars PROVE HoldersInv'
  OBVIOUS
<1>1. part' = part
  BY DEF Next, vars
<1>2. CASE part = "interop"
  <2>1. /\ [InteropNext]_interopVars /\ UNCHANGED <<variants, crashed, guidVars>>
    BY <1>2 DEF Next, vars, vectorVars, guidVars
  <2>2. InteropInv'
    BY <1>2, <2>1, InteropStep DEF HoldersInv, ExchangeInv
  <2>3. variants' = <<>> /\ GuidTypes'
    BY <1>2, <2>1 DEF HoldersInv, ExchangeInv, GuidTypes, guidVars
  <2>4. QED
    BY <1>1, <1>2, <2>2, <2>3 DEF HoldersInv, ExchangeInv
<1>3. CASE part # "interop"
  <2>1. [VectorNext]_vectorVars \/ GuidNext
    BY <1>3 DEF Next, vars
  <2>2. VectorInv'
    BY <1>3, <2>1, VectorStep, GuidStep DEF HoldersInv
  <2>3. QED
    BY <1>1, <1>3, <2>2 DEF HoldersInv
<1>4. QED
  BY <1>2, <1>3

LEMMA ObjectsStep ==
    ObjectsInv /\ [Next]_vars =>
        /\ ObjectsInv'
        /\ [\A t \in Threads : depth[t] = 1 /\ deletes = 1 => depth'[t] <= 1]_counterVars
<1> SUFFICES ASSUME ObjectsInv, [Next]_vars
             PROVE  /\ ObjectsInv'
                    /\ [\A t \in Threads :
                          depth[t] = 1 /\ deletes = 1 => depth'[t] <= 1]_counterVars
  OBVIOUS
<1>1. /\ [CounterNext]_counterVars /\ [StringNext]_stringVars /\ [JsonNext]_jsonVars
      /\ [ImagesNext]_imageVars /\ [InfoNext]_infoVars
  BY DEF Next, vars
<1>2. /\ CounterInv'
      /\ [\A t \in Threads : depth[t] = 1 /\ deletes = 1 => depth'[t] <= 1]_counterVars
  BY <1>1, CounterStep DEF ObjectsInv
<1>3. StringInv' /\ JsonInv' /\ ImagesInv' /\ InfoInv'
  BY <1>1, StringStep, JsonStep, ImagesStep, InfoStep DEF ObjectsInv
<1>4. HoldersInv'
  BY HoldersStep DEF ObjectsInv
<1>5. QED
  BY <1>2, <1>3, <1>4 DEF ObjectsInv

LEMMA ObjectsAlways == Spec => []ObjectsInv
  BY ObjectsInitInv, ObjectsStep, PTL DEF Spec

\* Counters, strings, vectors, json, images and plugin information keep their
\* types, whichever of them moves.
THEOREM ObjectsTypeCorrect == Spec => []ObjectsTypeOK
<1>1. ASSUME ObjectsInv, part = "interop" PROVE VectorTypeOK
  <2>1. InteropTypeOK /\ variants = <<>> /\ GuidTypes
    BY <1>1 DEF ObjectsInv, HoldersInv, ExchangeInv, InteropInv
  <2>2. 0 \in 0 .. MaxLength /\ <<>> \in [1 .. 0 -> Alternatives] /\ DOMAIN <<>> = {}
    BY VectorsAssumption
  <2>3. variants \in BoundedSeq(Alternatives, MaxLength) /\ DOMAIN variants = {}
    BY <2>1, <2>2 DEF BoundedSeq, SeqOf
  <2>4. QED
    BY <2>1, <2>3 DEF VectorTypeOK, GuidTypes
<1>2. ASSUME ObjectsInv PROVE ObjectsTypeOK
  <2>1. VectorTypeOK
    BY <1>1, <1>2, VectorInvTypes DEF ObjectsInv, HoldersInv
  <2>2. CounterTypeOK /\ StringTypeOK /\ JsonTypeOK /\ ImagesTypeOK /\ InfoTypeOK
    BY <1>2, StringInvTypes, JsonInvTypes, ImagesInvTypes, LastingIsTyped
    DEF ObjectsInv, CounterInv
  <2>3. QED
    BY <2>1, <2>2 DEF ObjectsTypeOK
<1>3. QED
  BY <1>2, ObjectsAlways, PTL

\* No object is destroyed or deleted under a reference, readers of a string find
\* its text, references to members stay, and images made in their memory show
\* what is allocated.
THEOREM ObjectsAreSafe ==
    Spec => [](/\ ReferencedNotDestroyed /\ DeletedUnowned /\ ReadersFindText
               /\ MemberRefsStay /\ ImagesShowMemory)
<1>1. ASSUME ObjectsInv PROVE DeletedUnowned
  BY <1>1, CountedIsKept, VectorInvKeeps DEF ObjectsInv, HoldersInv, ExchangeInv
<1>2. ASSUME ObjectsInv
      PROVE  /\ ReferencedNotDestroyed /\ DeletedUnowned /\ ReadersFindText
             /\ MemberRefsStay /\ ImagesShowMemory
  BY <1>1, <1>2, AbandonedIsKept, ReadableServes, MembersInvStay, ImagesInvShows
  DEF ObjectsInv
<1>3. QED
  BY <1>2, ObjectsAlways, PTL

\* Nor does the destructor delete its object a second time.
THEOREM ObjectsDeleteOnce == Spec => DtorDoesNotDelete
  BY ObjectsInitInv, ObjectsStep, PTL DEF Spec, DtorDoesNotDelete
===============================================================================
