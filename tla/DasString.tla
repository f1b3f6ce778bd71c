------------------------------- MODULE DasString -------------------------------
(***************************************************************************)
(* A string as plugins and runtimes share it (DasStringImpl.cpp): one text *)
(* kept in UTF-16 by ICU, set and read in four encodings through caches    *)
(* that are filled on demand and reused.  The text of impl_ may live in    *)
(* u16_buffer_ itself: SetW and SetSwigW give ICU that buffer to write in. *)
(*                                                                         *)
(* A character is a model value; the ones in Astral take two code units of *)
(* UTF-16 (and of wchar_t where it has 16 bits), one anywhere else.        *)
(***************************************************************************)
EXTENDS Naturals, Sequences, SequencesExt

CONSTANTS
    Texts,      \* the texts callers set: sequences of characters
    Astral,     \* the characters outside the basic plane
    MaxSize,    \* ANONYMOUS_DETAILS_MAX_SIZE, 4096 in the code
    MaxUtf8     \* bound on the length of the UTF-8 cache

Nul == "NUL"
Low == "low"    \* the second unit of any pair

ASSUME StringAssumption ==
    /\ Texts # {} /\ \A t \in Texts : t \in Seq(Range(t) \ {Nul, Low}) /\ Len(t) <= MaxUtf8
    /\ Astral \cap {Nul, Low} = {}
    /\ MaxSize \in Nat /\ MaxSize > 2
    /\ MaxUtf8 \in Nat

VARIABLES
    wide16,     \* this build's wchar_t has 16 bits
    text,       \* what the caller last set
    setter,     \* ... and how
    made,       \* the object is a DasStringCppImpl, not the null string
    impl,       \* code units ICU owns, when they are not in u16
    aliased,    \* 0, or how many units of u16 are the text of impl_
    u16,        \* u16_buffer_
    u8,         \* cached_utf8_string_
    u32,        \* cached_utf32_string_
    wchars,     \* cached_wchar_string_
    expired,    \* is_cache_expired_
    stringFault \* a write outside a buffer: what follows is undefined

stringVars == <<wide16, text, setter, made, impl, aliased, u16, u8, u32, wchars,
                expired, stringFault>>
buffers == <<u16, u8, u32, wchars>>

Joined(parts) ==
    LET join[n \in 0 .. Len(parts)] == IF n = 0 THEN <<>> ELSE join[n - 1] \o parts[n]
    IN  join[Len(parts)]
Units(t) ==
    Joined([i \in DOMAIN t |-> IF t[i] \in Astral THEN <<t[i], Low>> ELSE <<t[i]>>])
Characters(units) ==
    Joined([i \in DOMAIN units |-> IF units[i] = Low THEN <<>> ELSE <<units[i]>>])
Wide(t) == IF wide16 THEN Units(t) ELSE t

\* What a reader of a NUL-terminated string sees of it.
Cut(s) ==
    LET ends == {i \in DOMAIN s : s[i] = Nul}
    IN  IF ends = {} THEN s ELSE SubSeq(s, 1, (CHOOSE i \in ends : \A j \in ends : i <= j) - 1)
Terminated(s) == Nul \in Range(s)
Implemented == IF aliased > 0 THEN SubSeq(u16, 1, aliased) ELSE impl
Blank(n) == [i \in 1 .. n |-> Nul]

StringTypeOK ==
    /\ wide16 \in BOOLEAN /\ made \in BOOLEAN
    /\ \E t \in Texts : IsPrefix(text, t)
    /\ setter \in {"none", "SetUtf8", "SetUtf16", "SetSwigW", "SetW", "refused", "split"}
    /\ aliased \in 0 .. Len(u16)
    /\ Len(u8) <= MaxUtf8
    /\ expired \subseteq {"U8", "U32", "W"}
    /\ stringFault \in {"none", "overrun", "null"}

StringInit ==
    /\ wide16 \in BOOLEAN
    /\ text = <<>> /\ setter = "none" /\ made = FALSE
    /\ impl = <<>> /\ aliased = 0
    /\ u16 = <<>> /\ u8 = <<>> /\ u32 = <<>> /\ wchars = <<>>
    /\ expired = {"U8", "U32", "W"}
    /\ stringFault = "none"

-------------------------------------------------------------------------------
(***************************************************************************)
(* DiscardAndGetNullTerminateBufferPointer: a longer text gets a new block *)
(* with room for the terminator, a shorter one reuses the old block, whose *)
(* size stays.  A text exactly as long as the block is terminated behind   *)
(* its end, and the terminator of an empty text in a buffer never used is  *)
(* written through a null pointer.                                         *)
(***************************************************************************)
Discard(b, n) ==
    IF n > Len(b) THEN Blank(n + 1)
    ELSE IF n < Len(b) THEN [b EXCEPT ![n + 1] = Nul]
    ELSE b
Misuse(b, n) == IF n # Len(b) THEN "none" ELSE IF n = 0 THEN "null" ELSE "overrun"
Worst(f, g) == IF "null" \in {f, g} THEN "null" ELSE IF f = "none" THEN g ELSE f

\* A faulty variant: no terminator in a reused block; no action uses it.
FilledUnterminated(b, s) ==
    LET d == IF Len(s) > Len(b) THEN Blank(Len(s) + 1) ELSE b
    IN  [i \in DOMAIN d |-> IF i <= Len(s) THEN s[i] ELSE d[i]]

\* ICU's conversions into a block write the terminator if it has room for it.
Filled(b, s) ==
    LET d == Discard(b, Len(s))
    IN  [i \in DOMAIN d |-> IF i <= Len(s) THEN s[i] ELSE IF i = Len(s) + 1 THEN Nul ELSE d[i]]
Usable == stringFault = "none"
Faults(f) == stringFault' = f

(***************************************************************************)
(* How many units of a foreign string SetSwigW takes: all of them, or, if  *)
(* no terminator comes within MaxSize, fewer than MaxSize, by one to three *)
(* according to the last unit.                                             *)
(***************************************************************************)
GetStringSize(units) ==
    IF Len(units) < MaxSize THEN Len(units)
    ELSE IF units[MaxSize] \in Astral THEN MaxSize - 2
    ELSE IF units[MaxSize] = Low THEN MaxSize - 3
    ELSE MaxSize - 1

\* A pair is split where the one before the last was a pair too: the unit looked
\* at is not the one at which the text ends.
SplitsPair(units) == units # <<>> /\ Last(units) \in Astral

\* A new object replaces the one held; its first text is set at once.
Create ==
    /\ ~made
    /\ made' = TRUE
    /\ UNCHANGED <<wide16, text, setter, impl, aliased, buffers, expired, stringFault>>

\* A faulty variant: the cache of the wide string stays; no action uses it.
SetUtf8KeepsWide(t) ==
    /\ made /\ Usable
    /\ text' = t /\ setter' = "SetUtf8"
    /\ impl' = Units(t) /\ aliased' = 0
    /\ u8' = t
    /\ expired' = (expired \cup {"U32"}) \ {"U8"}
    /\ UNCHANGED <<wide16, made, u16, u32, wchars, stringFault>>

SetUtf8(t) ==
    /\ made /\ Usable
    /\ text' = t /\ setter' = "SetUtf8"
    /\ impl' = Units(t) /\ aliased' = 0
    /\ u8' = t
    /\ expired' = {"U32", "W"}
    /\ UNCHANGED <<wide16, made, u16, u32, wchars, stringFault>>

SetUtf16(t) ==
    /\ made /\ Usable
    /\ text' = t /\ setter' = "SetUtf16"
    /\ impl' = Units(t) /\ aliased' = 0
    /\ expired' = {"U8", "U32", "W"}
    /\ UNCHANGED <<wide16, made, buffers, stringFault>>

\* Where wchar_t has 16 bits the units are copied, otherwise ICU gets u16_buffer_.
SetSwigW(t) ==
    LET taken == SubSeq(Units(t), 1, GetStringSize(Units(t)))
    IN  /\ made /\ Usable
        /\ text' = IF wide16 THEN t ELSE Characters(taken)
        /\ setter' = IF ~wide16 /\ SplitsPair(taken) THEN "split" ELSE "SetSwigW"
        /\ IF wide16
           THEN /\ impl' = Units(t) /\ aliased' = 0
                /\ UNCHANGED <<u16, stringFault>>
           ELSE /\ u16' = Filled(u16, taken)
                /\ aliased' = Len(taken) /\ impl' = <<>>
                /\ Faults(Misuse(u16, Len(taken)))
        /\ expired' = {"U8", "U32", "W"}
        /\ UNCHANGED <<wide16, made, u8, u32, wchars>>

(***************************************************************************)
(* The wide string goes into its cache and, converted, into u16_buffer_;   *)
(* ICU is told that the whole buffer is text.  When the terminator has no  *)
(* room ICU's warning is taken for an error and the old text kept, in a    *)
(* buffer that already holds the new one.                                  *)
(***************************************************************************)
SetW(t) ==
    LET units == Units(t)
        faults == Worst(Misuse(wchars, Len(Wide(t))), Misuse(u16, Len(units)))
    IN  /\ made /\ Usable
        /\ text' = t
        /\ Faults(faults)
        /\ wchars' = LET d == Discard(wchars, Len(Wide(t)))
                     IN  [i \in DOMAIN d |-> IF i <= Len(Wide(t)) THEN Wide(t)[i] ELSE d[i]]
        /\ u16' = Filled(u16, units)
        /\ IF Misuse(u16, Len(units)) = "none"
           THEN setter' = "SetW" /\ impl' = <<>> /\ aliased' = Len(u16')
           ELSE setter' = "refused" /\ UNCHANGED <<impl, aliased>>
        /\ expired' = {"U8", "U32"}
        /\ UNCHANGED <<wide16, made, u8, u32>>

-------------------------------------------------------------------------------
\* The conversion appends to whatever the cache still holds.
GetUtf8 ==
    /\ made /\ Usable
    /\ "U8" \in expired
    /\ u8' = u8 \o Characters(Implemented)
    /\ Len(u8') <= MaxUtf8
    /\ expired' = expired \ {"U8"}
    /\ UNCHANGED <<wide16, text, setter, made, impl, aliased, u16, u32, wchars, stringFault>>

\* Where the terminator has no room the conversion counts as failed.
GetW ==
    LET s == Wide(Characters(Implemented))
    IN  /\ made /\ Usable
        /\ "W" \in expired
        /\ wchars' = Filled(wchars, s)
        /\ Faults(Misuse(wchars, Len(s)))
        /\ expired' = IF Misuse(wchars, Len(s)) = "none" THEN expired \ {"W"} ELSE expired
        /\ UNCHANGED <<wide16, text, setter, made, impl, aliased, u16, u8, u32>>

\* CBegin and CEnd; the range between them is the whole block.
UpdateUtf32Cache ==
    LET s == Characters(Implemented)
    IN  /\ made /\ Usable
        /\ "U32" \in expired
        /\ u32' = Filled(u32, s)
        /\ Faults(Misuse(u32, Len(s)))
        /\ expired' = expired \ {"U32"}
        /\ UNCHANGED <<wide16, text, setter, made, impl, aliased, u16, u8, wchars>>

\* The caller gets the ICU string, to read or to change: no cache may be kept.
GetImpl ==
    /\ made /\ Usable
    /\ expired' = {"U8", "U32", "W"}
    /\ UNCHANGED <<wide16, text, setter, made, impl, aliased, buffers, stringFault>>

StringNext ==
    \/ Create
    \/ \E t \in Texts : SetUtf8(t) \/ SetUtf16(t) \/ SetSwigW(t) \/ SetW(t)
    \/ GetUtf8 \/ GetW \/ UpdateUtf32Cache \/ GetImpl

StringSpec == StringInit /\ [][StringNext]_stringVars

-------------------------------------------------------------------------------
(***************************************************************************)
(* Readers get the text last set, however setters and getters of the four  *)
(* encodings alternate and reuse each other's buffers.  For UTF-16 after   *)
(* SetW it is longer, but terminated; in UTF-8 what the cache held before  *)
(* the conversion stands before it.  (Once a write went outside a buffer   *)
(* nothing is promised, nor of an overlong text that was cut in a pair.)   *)
(***************************************************************************)
ReadersFindText ==
    Usable /\ setter # "split" =>
        /\ "W" \notin expired => Cut(wchars) = Wide(text)
        /\ "U8" \notin expired /\ ~Terminated(u8) => IsSuffix(text, u8)
        /\ "U32" \notin expired => Cut(u32) = text
        /\ IF setter = "SetW" THEN Terminated(Implemented) /\ Cut(Implemented) = Units(text)
           ELSE Implemented = Units(text)
===============================================================================
