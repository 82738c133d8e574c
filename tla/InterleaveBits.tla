--------------------------- MODULE InterleaveBits ---------------------------
(***************************************************************************)
(* The bit interleaves of g_serialized.c at their full width: the          *)
(* shift-and-mask uint32_interleave_2 of the default build and the two     *)
(* _pdep_u64 variants compiled under HAVE_PDEP (0 in this source, so those *)
(* two are dead code here; they are checked against the Morton code on     *)
(* their own).  A uint64_t is the set of positions of its one bits, so     *)
(* 32-bit arguments, 64-bit masks and the bits a shift pushes past         *)
(* position 63 are all kept exactly (TLC integers hold 31 bits).           *)
(* MortonInterleave models the same loop over integers, for the 16-bit     *)
(* halves the comparator hashes.                                           *)
(***************************************************************************)
EXTENDS Integers, Sequences, FiniteSets

CONSTANTS
    Words,      \* uint32_t arguments of the 2-way interleaves, as sets of
                \* bit positions in 0..31
    Words3      \* arguments of the 3-way interleave

Pos32 == 0..31

Pos64 == 0..63

ASSUME Words \cup Words3 \subseteq SUBSET Pos32

\* The one bits of a 16-bit literal.
Bits16(q) == {i \in 0..15 : (q \div 2^i) % 2 = 1}

\* A 64-bit literal, written as its four 16-bit quarters, highest first.
Hex64(q3, q2, q1, q0) ==
    LET q == << q0, q1, q2, q3 >>
    IN  UNION {{16 * k + i : i \in Bits16(q[k + 1])} : k \in 0..3}

\* v << s on a uint64_t: bits shifted past position 63 are lost.
Shl(v, s) == {i + s : i \in v} \cap Pos64

-----------------------------------------------------------------------------
(* Default build.                                                          *)

\* static uint64_t B[5] and S[5]
B == << Hex64(\h5555, \h5555, \h5555, \h5555), Hex64(\h3333, \h3333, \h3333, \h3333),
        Hex64(\h0F0F, \h0F0F, \h0F0F, \h0F0F), Hex64(\h00FF, \h00FF, \h00FF, \h00FF),
        Hex64(\h0000, \hFFFF, \h0000, \hFFFF) >>

S == << 1, 2, 4, 8, 16 >>

\* Mutant of Spread: each step masks with the mask of the step before it.
Spread_maskshift(v, i) ==
    LET RECURSIVE Go(_, _)
        Go(w, j) == IF j < 0 THEN w
                    ELSE Go((w \cup Shl(w, S[j + 1])) \cap B[IF j = 4 THEN 5 ELSE j + 2], j - 1)
    IN  Go(v, i)

\* for ( i = 4; i >= 0; i-- ) x = (x | (x << S[i])) & B[i];
RECURSIVE Spread(_, _)
Spread(v, i) ==
    IF i < 0 THEN v
    ELSE Spread((v \cup Shl(v, S[i + 1])) \cap B[i + 1], i - 1)

\* return x | (y << 1);
uint32_interleave_2(u1, u2) == Spread(u1, 4) \cup Shl(Spread(u2, 4), 1)

-----------------------------------------------------------------------------
(* HAVE_PDEP build.                                                        *)

\* _pdep_u64(src, mask): bit k of src goes to the k-th lowest one bit of
\* mask (k from 0); the other bits of the result are 0.
pdep_u64(src, mask) == {m \in mask : Cardinality({j \in mask : j < m}) \in src}

\* Mutant of uint32_interleave_2_pdep: the x and y masks exchanged.
uint32_interleave_2_pdep_xy(u1, u2) ==
    pdep_u64(u1, Hex64(\hAAAA, \hAAAA, \hAAAA, \hAAAA))
      \cup pdep_u64(u2, Hex64(\h5555, \h5555, \h5555, \h5555))

uint32_interleave_2_pdep(u1, u2) ==
    pdep_u64(u1, Hex64(\h5555, \h5555, \h5555, \h5555))
      \cup pdep_u64(u2, Hex64(\hAAAA, \hAAAA, \hAAAA, \hAAAA))

\* Mutant of uint32_interleave_3: the y and z masks exchanged.
uint32_interleave_3_yz(u1, u2, u3) ==
    LET low21 == Hex64(\h0000, \h0000, \h001F, \hFFFF)
    IN  pdep_u64(u1 \cap low21, Hex64(\h9249, \h2492, \h4924, \h9249))
          \cup pdep_u64(u2 \cap low21, Hex64(\h4924, \h9249, \h2492, \h4924))
          \cup pdep_u64(u3 \cap low21, Hex64(\h2492, \h4924, \h9249, \h2492))

\* Only the low 21 bits of each argument are deposited.
uint32_interleave_3(u1, u2, u3) ==
    LET low21 == Hex64(\h0000, \h0000, \h001F, \hFFFF)
    IN  pdep_u64(u1 \cap low21, Hex64(\h9249, \h2492, \h4924, \h9249))
          \cup pdep_u64(u2 \cap low21, Hex64(\h2492, \h4924, \h9249, \h2492))
          \cup pdep_u64(u3 \cap low21, Hex64(\h4924, \h9249, \h2492, \h4924))

-----------------------------------------------------------------------------
\* Reference Morton codes: bit i of the j-th of n arguments at n * i + j.
Morton2(u1, u2) == {2 * i : i \in u1} \cup {2 * i + 1 : i \in u2}

Morton3(u1, u2, u3) ==
    {3 * i : i \in u1 \cap 0..20} \cup {3 * i + 1 : i \in u2 \cap 0..20}
      \cup {3 * i + 2 : i \in u3 \cap 0..20}

-----------------------------------------------------------------------------
(* One call at a time: a pair of words for the 2-way interleaves, or a     *)
(* triple for the 3-way one.                                               *)

VARIABLE args       \* the arguments of the last call

Init == args = << >>

Call2(a, b) == args' = << a, b >>

Call3(a, b, c) == args' = << a, b, c >>

Next == \/ \E a, b \in Words : Call2(a, b)
        \/ \E a, b, c \in Words3 : Call3(a, b, c)

Spec == Init /\ [][Next]_args

\* The default build's hash is the Morton code of the two full 32-bit
\* words: the high bits of a float word (its sign and exponent) survive
\* the 16-bit shift and the 64-bit masks, and none lands on a bit of the
\* other word.
InterleaveFullWidth ==
    Len(args) = 2 => uint32_interleave_2(args[1], args[2]) = Morton2(args[1], args[2])

\* The 2-way PDEP interleave deposits the first word on the even and the
\* second on the odd bit positions, bit i of each at 2i and 2i+1, over all
\* 32 bits: the masks are complementary and their ranks follow bit order.
Interleave2PdepIsMorton ==
    Len(args) = 2 =>
        uint32_interleave_2_pdep(args[1], args[2]) = Morton2(args[1], args[2])

\* The 3-way PDEP interleave puts bit i (i < 21) of its three arguments at
\* 3i, 3i+1 and 3i+2 and drops every higher bit: the masks are disjoint
\* and line up with the 21-bit cut.
Interleave3IsMorton ==
    Len(args) = 3 =>
        uint32_interleave_3(args[1], args[2], args[3]) = Morton3(args[1], args[2], args[3])
=============================================================================
