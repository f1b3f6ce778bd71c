--------------------------------- MODULE Images ---------------------------------
(***************************************************************************)
(* A block of memory that plugins share (IDasMemory.cpp) and the images    *)
(* made over it, clipped from each other or decoded into memory of their   *)
(* own (IDasImageImpl.cpp).  OpenCV frees what it allocated itself with    *)
(* the last picture that shows it; memory it was given is kept by p_memory_*)
(* alone.  Sizes and offsets are counted in pixels of four bytes.          *)
(***************************************************************************)
EXTENDS Integers, FiniteSets

CONSTANTS
    MaxBytes,   \* bound on the sizes of memory, in pixels
    MaxSide,    \* bound on the height and the width that a caller names
    IntLimit,   \* an int holds -IntLimit .. IntLimit - 1 pixels' bytes
    MaxImages,  \* bound on the images in use
    MaxResizes  \* bound on the blocks of one memory object

ASSUME ImagesAssumption ==
    /\ MaxBytes \in Nat /\ MaxSide \in Nat /\ IntLimit \in Nat \ {0}
    /\ MaxImages \in Nat /\ MaxResizes \in Nat

VARIABLES
    blocks,     \* what was allocated for each block so far; the last is up_data_
    size,       \* what Resize recorded
    offset,     \* where p_offset_data_ points in its block ...
    offsetIn,   \* ... and which block that is
    memoryHeld, \* a user holds the memory object
    memoryGone, \* its last reference is gone, and its last block freed
    images      \* images in use

imageVars == <<blocks, size, offset, offsetIn, memoryHeld, memoryGone, images>>
memoryState == <<blocks, size, offset, offsetIn>>

NoBlock == 0    \* an image with memory of its own
Sides == -MaxSide .. MaxSide
MaxPixels == MaxSide * MaxSide

(***************************************************************************)
(* upright: no side of it is negative.  sound is not in the program: the   *)
(* image lay within its block when it was made, or was tested where the    *)
(* test is one of the memory that is there.                                *)
(***************************************************************************)
ImageRecords ==
    [block : 0 .. MaxResizes + 1, from : -MaxBytes .. MaxBytes + MaxPixels,
     pixels : 0 .. MaxBytes + MaxPixels, upright : BOOLEAN, keeps : BOOLEAN, sound : BOOLEAN]

ImagesTypeOK ==
    /\ DOMAIN blocks = 1 .. Cardinality(DOMAIN blocks)
    /\ \A b \in DOMAIN blocks : blocks[b] \in 0 .. MaxBytes
    /\ size \in 0 .. MaxBytes /\ offset < size
    /\ offsetIn \in DOMAIN blocks
    /\ memoryHeld \in BOOLEAN /\ memoryGone \in BOOLEAN
    /\ images \subseteq ImageRecords

\* CreateIDasMemory.
ImagesInit ==
    /\ \E n \in 1 .. MaxBytes : blocks = [b \in {1} |-> n] /\ size = n
    /\ offset = 0 /\ offsetIn = 1
    /\ memoryHeld = TRUE /\ memoryGone = FALSE
    /\ images = {}

-------------------------------------------------------------------------------
Current == Cardinality(DOMAIN blocks)
HasRoom == Cardinality(images) < MaxImages

\* Nothing stops a negative offset, or one into a block that is no more.
SetOffset(n) ==
    /\ memoryHeld
    /\ n < size
    /\ offset' = n /\ offsetIn' = Current
    /\ UNCHANGED <<blocks, size, memoryHeld, memoryGone, images>>

(***************************************************************************)
(* Resize: the new block is as large as the old one, the larger size is    *)
(* what is recorded, and the offset pointer stays in the block freed here. *)
(***************************************************************************)
Resize(n) ==
    /\ memoryHeld /\ Current <= MaxResizes
    /\ n > size
    /\ blocks' = [b \in DOMAIN blocks \cup {Current + 1} |->
                    IF b \in DOMAIN blocks THEN blocks[b] ELSE size]
    /\ size' = n
    /\ UNCHANGED <<offset, offsetIn, memoryHeld, memoryGone, images>>

\* height * width * 4 is an int: past its range the builds wrap it around.
AsInt(n) ==
    IF n \in -IntLimit .. IntLimit - 1 THEN n
    ELSE ((n + IntLimit) % (2 * IntLimit)) - IntLimit

\* A faulty variant: the bytes of a pixel are forgotten; no action uses it.
FitsUnscaled(h, w) ==
    LET product == AsInt(h * w) IN
    /\ product # -IntLimit
    /\ product <= 4 * size /\ -product <= 4 * size

\* std::abs of it is compared with the size, as a size_t: the least int, which
\* abs leaves alone, is larger than every size.
FitsInSize(h, w) ==
    LET product == AsInt(h * w) IN
    /\ product # -IntLimit
    /\ product <= size /\ -product <= size

\* Where that test is one of the picture and of the memory there is.
Tested(h, w) ==
    /\ h >= 0 /\ w >= 0 /\ h * w < IntLimit
    /\ Current = 1 /\ offset = 0

\* Where the picture lies in memory that is there, tested or not.
Lies(h, w) ==
    /\ h >= 0 /\ w >= 0
    /\ offsetIn = Current /\ offset >= 0 /\ offset + h * w <= blocks[Current]

\* CreateIDasImageFromRgb888: tested against the whole size, taken from the
\* offset on; a side may be negative, and the product may not be the picture's.
CreateFromRgb888(h, w) ==
    /\ memoryHeld /\ HasRoom
    /\ FitsInSize(h, w)
    /\ images' = images \cup
          {[block |-> offsetIn, from |-> offset,
            pixels |-> IF h >= 0 /\ w >= 0 THEN h * w ELSE 0,
            upright |-> h >= 0 /\ w >= 0, keeps |-> TRUE,
            sound |-> Tested(h, w) \/ Lies(h, w)]}
    /\ UNCHANGED <<memoryState, memoryHeld, memoryGone>>

\* CreateIDasImageFromDecodedData clones what it is given; decoders allocate.
CreateOwn(n) ==
    /\ HasRoom
    /\ images' = images \cup
          {[block |-> NoBlock, from |-> 0, pixels |-> n, upright |-> TRUE,
            keeps |-> FALSE, sound |-> TRUE]}
    /\ UNCHANGED <<memoryState, memoryHeld, memoryGone>>

\* A rectangle of an image, which OpenCV refuses when it is not inside.
Clip(i, from, n) ==
    /\ HasRoom
    /\ i.upright /\ from + n <= i.pixels
    /\ images' = images \cup {[i EXCEPT !.from = @ + from, !.pixels = n]}
    /\ UNCHANGED <<memoryState, memoryHeld, memoryGone>>

\* The memory object goes with its user and the last image that keeps it.
Released(held, kept) == ~held /\ \A i \in kept : ~i.keeps
ReleaseMemory ==
    /\ memoryHeld
    /\ memoryHeld' = FALSE
    /\ memoryGone' = Released(FALSE, images)
    /\ UNCHANGED <<memoryState, images>>

ReleaseImage(i) ==
    /\ images' = images \ {i}
    /\ memoryGone' = (memoryGone \/ Released(memoryHeld, images'))
    /\ UNCHANGED <<memoryState, memoryHeld>>

ImagesNext ==
    \/ \E n \in -MaxBytes .. MaxBytes : SetOffset(n)
    \/ \E n \in 1 .. MaxBytes : Resize(n) \/ CreateOwn(n)
    \/ \E h, w \in Sides : CreateFromRgb888(h, w)
    \/ \E i \in images :
         \/ ReleaseImage(i)
         \/ \E from \in 0 .. MaxBytes, n \in 1 .. MaxBytes : Clip(i, from, n)
    \/ ReleaseMemory

ImagesSpec == ImagesInit /\ [][ImagesNext]_imageVars

-------------------------------------------------------------------------------
\* What an image shows is allocated: its block is not freed and it lies within it.
Shown(i) ==
    \/ i.block = NoBlock
    \/ /\ i.block = Current /\ ~memoryGone
       /\ i.upright /\ i.from >= 0 /\ i.from + i.pixels <= blocks[i.block]

(***************************************************************************)
(* Two things only make an image show what is not allocated: a Resize of   *)
(* its memory after it was made, and the test of its size when it was      *)
(* made.  The test suffices for memory that was neither resized nor given  *)
(* an offset, of a picture whose size an int can hold; an image that lies  *)
(* in its memory however it passed the test, and every clip of it, goes on *)
(* showing it in whatever order images and memory are released.            *)
(***************************************************************************)
ImagesShowMemory ==
    \A i \in images : i.sound /\ i.block \in {NoBlock, Current} => Shown(i)
===============================================================================
