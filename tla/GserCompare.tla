----------------------------- MODULE GserCompare -----------------------------
(***************************************************************************)
(* gserialized_cmp and gbox_get_sortable_hash of g_serialized.c: the       *)
(* B-tree comparator over serialized records.                              *)
(*                                                                         *)
(* Float words.  Every value hashed is a small natural (a sum of two box   *)
(* floats, or twice an ordinate), so its IEEE single pattern is exact and  *)
(* its lower 16 bits are zero; the interleave is applied to the upper 16   *)
(* bits, which orders the 64-bit hashes exactly as the code does.          *)
(*                                                                         *)
(* Out-of-bounds reads.  The fast path reads the type word through the    *)
(* cast of g1+8: pointer arithmetic on a GSERIALIZED pointer, size 12,    *)
(* hence byte 96 of the record.  On a record shorter than 100 bytes that  *)
(* is memory past the buffer; so is a y ordinate read past a short record. *)
(* What lies there is a "tail" [word, dbl] fixed when the buffer is        *)
(* allocated (an undefined read: any value the heap may hold).             *)
(***************************************************************************)
EXTENDS GserCodec

LOCAL Morton == INSTANCE MortonInterleave

\* IEEE single bit pattern of a natural below 2^24 (exact as a float).
FloatWord(v) ==
    IF v = 0 THEN 0
    ELSE LET e == CHOOSE e \in 0..23 : 2^e <= v /\ v < 2^(e + 1)
         IN  (127 + e) * 2^23 + (v - 2^e) * 2^(23 - e)

\* uint32_interleave_2(x.u, y.u), by the upper halves of the two words.
InterleaveFloats(fx, fy) ==
    LET wx == FloatWord(fx)
        wy == FloatWord(fy)
    IN  IF wx % 2^16 = 0 /\ wy % 2^16 = 0
        THEN Morton!uint32_interleave_2(wx \div 2^16, wy \div 2^16)
        ELSE Assert(FALSE, "hashed float with non-zero low half")

\* gbox_get_sortable_hash (cartesian): interleave xmax+xmin with ymax+ymin.
gbox_get_sortable_hash(b) ==
    InterleaveFloats(b.ext["x"][2] + b.ext["x"][1], b.ext["y"][2] + b.ext["y"][1])

Sign(v) == IF v > 0 THEN 1 ELSE IF v < 0 THEN -1 ELSE 0

\* Sign of the first position where two equally long tuples of numbers
\* differ, 0 when they agree.
LexSign(s1, s2) ==
    LET D == {i \in DOMAIN s1 : s1[i] # s2[i]}
    IN  IF D = {} THEN 0
        ELSE LET i == CHOOSE i \in D : \A j \in D : i <= j
             IN  Sign(s1[i] - s2[i])

-----------------------------------------------------------------------------
(* memcmp over the bodies.  A body starts 4-aligned in both records, so    *)
(* memcmp meets whole cells; a cell's bytes are those of its 32-bit word,  *)
(* least significant first (little-endian host).                           *)

LEBytes(w) == << w % 256, (w \div 256) % 256, (w \div 2^16) % 256, w \div 2^24 >>

\* High word of the double of a natural v below 2^20 (its low word is 0).
DoubleHi(v) ==
    IF v = 0 THEN 0
    ELSE LET e == CHOOSE e \in 0..19 : 2^e <= v /\ v < 2^(e + 1)
         IN  (1023 + e) * 2^20 + (v - 2^e) * 2^(20 - e)

CellBytes(c) ==
    CASE c.k = "u32" -> LEBytes(c.v)
      [] c.k = "f32" -> LEBytes(FloatWord(c.v))
      [] c.k = "lo"  -> << 0, 0, 0, 0 >>
      [] c.k = "hi"  -> LEBytes(DoubleHi(c.v))

memcmp(s1, s2, ncells) ==
    LexSign(FlattenSeq([i \in 1..ncells |-> CellBytes(s1[i])]),
            FlattenSeq([i \in 1..ncells |-> CellBytes(s2[i])]))

\* The bytes after the header (gserialized_header_size), as cells.
Body(g) ==
    LET h == (gserialized_header_size(g.flags) - 8) \div 4
    IN  SubSeq(g.data, h + 1, Len(g.data))

-----------------------------------------------------------------------------
(* The fast path's reads.                                                  *)

\* The word at g1+8 (typed pointer): byte 96 of the record, i.e. data byte 88.
TypeWordAt96(g, tl) == IF SIZE_GET(g) >= 100 THEN U32At(g.data, 88) ELSE tl.word

\* The double at data byte o: a stored double, a denormal (float 0) when
\* two other words are read as one, or the tail when past the record.
FastDouble(g, tl, o) ==
    LET i == o \div 4 + 1
    IN  IF i + 1 > Len(g.data) THEN tl.dbl
        ELSE IF g.data[i].k = "lo" /\ g.data[i + 1].k = "hi" THEN g.data[i].v
        ELSE 0

\* x.f = 2.0 * dptr[0]; y.f = 2.0 * dptr[1]; dptr = g->data + 8.
FastHash(g, tl) == InterleaveFloats(2 * FastDouble(g, tl, 8), 2 * FastDouble(g, tl, 16))

-----------------------------------------------------------------------------
\* The order of two non-empty records by their boxes: sortable hash, then
\* xmin, ymin, xmax, ymax.
SortKey(b) == << gbox_get_sortable_hash(b), b.ext["x"][1], b.ext["y"][1],
                 b.ext["x"][2], b.ext["y"][2] >>

\* Mutant of gbox_cmp_ladder: the ymin tie-break returns -1 both ways.
gbox_cmp_ladder_ymin_copy(box1, box2) ==
    LET s == LexSign(SortKey(box1), SortKey(box2))
    IN  IF /\ SubSeq(SortKey(box1), 1, 2) = SubSeq(SortKey(box2), 1, 2)
           /\ box1.ext["y"][1] # box2.ext["y"][1]
        THEN -1 ELSE s

\* The hash and tie-break steps of gserialized_cmp: 0 when all agree.
gbox_cmp_ladder(box1, box2) == LexSign(SortKey(box1), SortKey(box2))

\* gserialized_cmp of record g1 (with tail tl1) and g2 (with tail tl2).
gserialized_cmp(g1, tl1, g2, tl2) ==
    LET sz1 == SIZE_GET(g1)
        sz2 == SIZE_GET(g2)
        cmp_srid == gserialized_cmp_srid(g1.srid, g2.srid)
        fast == /\ sz1 > 16 /\ sz2 > 16
                /\ ~g1.flags.bbox /\ ~g2.flags.bbox
                /\ TypeWordAt96(g1, tl1) = POINTTYPE
                /\ TypeWordAt96(g2, tl2) = POINTTYPE
        fastcmp == IF fast /\ cmp_srid = 0
                   THEN Sign(FastHash(g1, tl1) - FastHash(g2, tl2)) ELSE 0
        b1 == Body(g1)
        b2 == Body(g2)
        bsz1 == 4 * Len(b1)
        bsz2 == 4 * Len(b2)
        cmp == memcmp(b1, b2, IF Len(b1) < Len(b2) THEN Len(b1) ELSE Len(b2))
        box1 == gserialized_get_gbox_p(g1)
        box2 == gserialized_get_gbox_p(g2)
        g1_is_empty == box1 = NoBox
        g2_is_empty == box2 = NoBox
        ladder == IF ~g1_is_empty /\ ~g2_is_empty
                  THEN gbox_cmp_ladder(box1, box2) ELSE 0
    IN  CASE fastcmp # 0                               -> fastcmp
          [] g1_is_empty /\ ~g2_is_empty               -> -1
          [] ~g1_is_empty /\ g2_is_empty               -> 1
          [] bsz1 = bsz2 /\ cmp_srid = 0 /\ cmp = 0    -> 0
          [] ladder # 0                                -> ladder
          [] bsz1 # bsz2 /\ cmp = 0                    -> IF bsz1 < bsz2 THEN -1 ELSE 1
          [] OTHER                                     -> IF cmp > 0 THEN 1 ELSE -1
=============================================================================
