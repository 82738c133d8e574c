------------------------------ MODULE MCHelpers ------------------------------
(***************************************************************************)
(* The call harnesses of the pure helpers, checked side by side: the SRID  *)
(* of a record header set by gserialized_set_srid (through clamp_srid) and *)
(* read by gserialized_get_srid, uint32_interleave_2 at full width with   *)
(* its HAVE_PDEP variants, and                                             *)
(* lwmessage_truncate.  They share no state; a step is one call of one of  *)
(* them, and the others return to their initial states, so a state holds   *)
(* the last call only and each property is checked after every call of    *)
(* its helper.                                                             *)
(***************************************************************************)
EXTENDS Integers

CONSTANTS SRID_MAXIMUM, SRID_USER_MAXIMUM

VARIABLES
    srid, asked,    \* GserSrid: the header's SRID bytes, the SRID last set
    args,           \* InterleaveBits: the words of the last call
    call, result    \* MessageTruncate: the last call and what it returned

vars == <<srid, asked, args, call, result>>

\* SRID inputs around every edge of clamp_srid and of the 21-bit field.
MCSridInputs ==
    { -2147483647 - 1, -1000000, -2, -1, 0, 1, 2, 4326, 3857, 2147483647 }
    \cup ((2^19 - 4)..(2^19 + 4))            \* bit 19: sign of a 20-bit field
    \cup (998980..999020)                   \* around SRID_USER_MAXIMUM
    \cup (999980..1000020)                  \* around SRID_MAXIMUM
    \cup { 999 * k : k \in 1001..1004 }     \* multiples of the fold modulus
    \cup { 999 * k + 998 : k \in 1001..1003 }
    \cup ((2^20 - 4)..(2^20 + 4))            \* bit 20: the stored sign bit
    \cup ((2^21 - 2)..(2^21 + 2))
    \cup { 2^24, 2^24 + 4326 }

\* Full words: none, all and each single bit (the interleaves treat bits
\* independently), the float patterns of 1.0 and -1.0 (sign bit) and the
\* alternating words; for the 3-way interleave, the bits around its
\* 21-bit cut.
MCWords ==
    LET Q(q) == {i \in 0..15 : (q \div 2^i) % 2 = 1}
        W(hi, lo) == {16 + i : i \in Q(hi)} \cup Q(lo)
    IN  {{}, 0..31} \cup {{k} : k \in 0..31}
          \cup {W(\h3F80, 0), W(\hBF80, 0), W(\h5555, \h5555), W(\hAAAA, \hAAAA)}

MCWords3 == {{}, {0}, {1}, {20}, {21}, {31}, 0..20, 0..31}

\* Messages of 1 to 6 characters and every maxlength from 0 to 7: ranges
\* that fit, fit exactly and overflow by one or more, with maxlength below,
\* at and above the 3 characters of "...".
MCStrLens == 1..6

MCMaxLengths == 0..7

Srid == INSTANCE GserSrid WITH SridInputs <- MCSridInputs

Bits == INSTANCE InterleaveBits WITH Words <- MCWords, Words3 <- MCWords3

Trunc == INSTANCE MessageTruncate WITH StrLens <- MCStrLens, MaxLengths <- MCMaxLengths

Init == Srid!Init /\ Bits!Init /\ Trunc!Init

\* The harnesses that stay idle in a step return to their initial states.
SridIdle == asked' = Srid!SRID_UNKNOWN /\ srid' = Srid!gserialized_set_srid(Srid!SRID_UNKNOWN)

BitsIdle == args' = << >>

TruncIdle == call' = Trunc!NoCall /\ result' = Trunc!NoResult

Next == \/ Srid!Next /\ BitsIdle /\ TruncIdle
        \/ Bits!Next /\ SridIdle /\ TruncIdle
        \/ Trunc!Next /\ SridIdle /\ BitsIdle

Spec == Init /\ [][Next]_vars

\* gserialized_get_srid returns clamp_srid of the SRID last given to
\* gserialized_set_srid (GserSrid!SridRoundTrip).
SridRoundTrip == Srid!SridRoundTrip

\* An SRID above SRID_MAXIMUM lands in the reserved band
\* (GserSrid!ClampedAboveUserRange).
ClampedAboveUserRange == Srid!ClampedAboveUserRange

\* The default build's interleave is the Morton code of two full 32-bit
\* words (InterleaveBits!InterleaveFullWidth).
InterleaveFullWidth == Bits!InterleaveFullWidth

\* The 2-way PDEP interleave is the Morton code of its two 32-bit words
\* (InterleaveBits!Interleave2PdepIsMorton).
Interleave2PdepIsMorton == Bits!Interleave2PdepIsMorton

\* The 3-way PDEP interleave is the Morton code of the low 21 bits of its
\* arguments (InterleaveBits!Interleave3IsMorton).
Interleave3IsMorton == Bits!Interleave3IsMorton

\* With maxlength >= 3, lwmessage_truncate returns the range its description
\* promises (MessageTruncate!TruncateAsDocumented).
TruncateAsDocumented == Trunc!TruncateAsDocumented

\* The output and its NUL fit in the maxlength + 4 bytes allocated for it
\* (MessageTruncate!TruncateFitsAllocation).
TruncateFitsAllocation == Trunc!TruncateFitsAllocation
=============================================================================
