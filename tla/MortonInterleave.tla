-------------------------- MODULE MortonInterleave --------------------------
(***************************************************************************)
(* uint32_interleave_2 of g_serialized.c (the HAVE_PDEP = 0 build): the    *)
(* five shift-and-mask steps that spread the bits of two words so that x   *)
(* fills the even and y the odd bit positions of the result.               *)
(*                                                                         *)
(* TLC integers hold 31 bits, so the words are the upper 16 bits of the    *)
(* float patterns the comparator feeds in (their lower 16 bits are zero    *)
(* for the ordinates of the model) and the masks are the code's masks      *)
(* reduced modulo 2^32; on inputs below 2^15 every step is exact.          *)
(* GserCompare hashes with these operators; InterleaveBits checks the same *)
(* loop at full width.                                                     *)
(***************************************************************************)
EXTENDS Integers, Bitwise

\* static uint64_t B[5] and S[5]
B == << \h55555555, \h33333333, \h0F0F0F0F, \h00FF00FF, \h0000FFFF >>
S == << 1, 2, 4, 8, 16 >>

\* for ( i = 4; i >= 0; i-- ) v = (v | (v << S[i])) & B[i];
RECURSIVE Spread(_, _)
Spread(v, i) ==
    IF i < 0 THEN v
    ELSE Spread((v | (v * 2^S[i + 1])) & B[i + 1], i - 1)

uint32_interleave_2(u1, u2) == Spread(u1, 4) | (Spread(u2, 4) * 2)
=============================================================================
