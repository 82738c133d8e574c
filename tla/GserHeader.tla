----------------------------- MODULE GserHeader -----------------------------
(***************************************************************************)
(* Flag and header codec of the serialized geometry (g_serialized.c) and   *)
(* the SRID clamp of lwutil.c.                                             *)
(*                                                                         *)
(* The flag byte is abstracted to a record of its live bits; the macros    *)
(* that pack them (FLAGS_GET_Z, ...) live in liblwgeom.h, outside src/.    *)
(* The three SRID bytes are modelled byte for byte, with the int32 sign    *)
(* extension of gserialized_get_srid.                                      *)
(*                                                                         *)
(* Operators only; GserSrid is the state machine over the SRID field.     *)
(***************************************************************************)
EXTENDS Integers

CONSTANTS
    SRID_MAXIMUM,       \* liblwgeom.h: largest storable SRID
    SRID_USER_MAXIMUM   \* liblwgeom.h: largest SRID a user may pick

ASSUME /\ 0 < SRID_USER_MAXIMUM /\ SRID_USER_MAXIMUM + 1 < SRID_MAXIMUM
       /\ SRID_MAXIMUM < 2^20

SRID_UNKNOWN == 0

Flags == [z : BOOLEAN, m : BOOLEAN, bbox : BOOLEAN, geodetic : BOOLEAN]

B2N(b) == IF b THEN 1 ELSE 0

FLAGS_NDIMS(f) == 2 + B2N(f.z) + B2N(f.m)

\* gbox_serialized_size: 6 floats for a geodetic box, else 2 per dimension.
gbox_serialized_size(f) == IF f.geodetic THEN 24 ELSE 2 * FLAGS_NDIMS(f) * 4

\* The same size, as g_serialized.c computes it for peek_first_point.
gserialized1_box_size(f) == IF f.geodetic THEN 6 * 4 ELSE 2 * FLAGS_NDIMS(f) * 4

\* varsize (4) + srid (3) + flags (1), then the box when the flag says so.
gserialized_header_size(f) == 8 + (IF f.bbox THEN gbox_serialized_size(f) ELSE 0)

\* Mutant of clamp_srid: the fold drops the + 1 above the user maximum.
clamp_srid_no_offset(srid) ==
    CASE srid <= 0            -> SRID_UNKNOWN
      [] srid > SRID_MAXIMUM  -> SRID_USER_MAXIMUM +
                                   (srid % (SRID_MAXIMUM - SRID_USER_MAXIMUM - 1))
      [] OTHER                -> srid

\* clamp_srid: non-positive becomes unknown, above maximum is folded into
\* the reserved range just above the user maximum.
clamp_srid(srid) ==
    CASE srid <= 0            -> SRID_UNKNOWN
      [] srid > SRID_MAXIMUM  -> SRID_USER_MAXIMUM + 1 +
                                   (srid % (SRID_MAXIMUM - SRID_USER_MAXIMUM - 1))
      [] OTHER                -> srid

\* gserialized_set_srid: clamp, map unknown to 0, keep 21 bits in 3 bytes.
gserialized_set_srid(srid) ==
    LET s == clamp_srid(srid)
        w == IF s = SRID_UNKNOWN THEN 0 ELSE s
    IN  << (w \div 2^16) % 2^5, (w \div 2^8) % 2^8, w % 2^8 >>

\* Mutant of gserialized_get_srid: (srid<<12)>>12, a 20-bit sign extension.
gserialized_get_srid_shift12(b) ==
    LET v == b[1] * 2^16 + b[2] * 2^8 + b[3]
        s == IF v >= 2^19 THEN v - 2^20 ELSE v
    IN  IF s = 0 THEN SRID_UNKNOWN ELSE s

\* gserialized_get_srid: assemble the bytes, then (srid<<11)>>11 on an int32
\* brings bit 20 down as the sign.
gserialized_get_srid(b) ==
    LET v == b[1] * 2^16 + b[2] * 2^8 + b[3]
        s == IF v >= 2^20 THEN v - 2^21 ELSE v
    IN  IF s = 0 THEN SRID_UNKNOWN ELSE s

\* gserialized_cmp_srid: 0 when the three bytes agree, else 1.
gserialized_cmp_srid(b1, b2) == IF b1 = b2 THEN 0 ELSE 1

=============================================================================
