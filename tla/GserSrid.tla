------------------------------ MODULE GserSrid ------------------------------
(***************************************************************************)
(* One record header whose SRID is set again and again by                  *)
(* gserialized_set_srid, from a sample of int32 inputs chosen around every *)
(* boundary of clamp_srid and of the 21-bit field, and read back by        *)
(* gserialized_get_srid.                                                   *)
(***************************************************************************)
EXTENDS GserHeader

CONSTANT SridInputs     \* int32 values passed to gserialized_set_srid

ASSUME SridInputs \subseteq (-2147483647 - 1)..2147483647

VARIABLES
    srid,   \* the three SRID bytes of the record header
    asked   \* history: the SRID last passed to gserialized_set_srid

vars == <<srid, asked>>

Init == /\ asked = SRID_UNKNOWN
        /\ srid = gserialized_set_srid(SRID_UNKNOWN)

SetSrid(s) == /\ asked' = s
              /\ srid' = gserialized_set_srid(s)

Next == \E s \in SridInputs : SetSrid(s)

Spec == Init /\ [][Next]_vars

-----------------------------------------------------------------------------
TypeOK == /\ srid \in (0..31) \X (0..255) \X (0..255)
          /\ asked \in SridInputs \cup {SRID_UNKNOWN}

\* Reading the header back (gserialized_get_srid) yields exactly what
\* clamp_srid made of the value given to gserialized_set_srid: the byte
\* masks and the 21-bit sign extension lose nothing of the clamped range.
SridRoundTrip == gserialized_get_srid(srid) = clamp_srid(asked)

\* An SRID above SRID_MAXIMUM is folded by clamp_srid into the reserved
\* band (SRID_USER_MAXIMUM, SRID_MAXIMUM] and never lands on a user SRID.
ClampedAboveUserRange ==
    asked > SRID_MAXIMUM =>
        LET s == gserialized_get_srid(srid)
        IN  SRID_USER_MAXIMUM < s /\ s <= SRID_MAXIMUM
=============================================================================
