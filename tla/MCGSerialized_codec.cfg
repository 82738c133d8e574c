CONSTANTS
    SRID_MAXIMUM = 999999
    SRID_USER_MAXIMUM = 998999
    NoBox = NoBox
    NULL = NULL
    Slots = {s1}
    Geoms <- MCGeoms
    Srids <- MCSrids
    Tails <- MCTails
    lwgeom_needs_bbox <- MCNeedsBbox
SPECIFICATION Spec
INVARIANT TypeOK
INVARIANT EncodeSizeAgrees
INVARIANT OrdinatesAligned
INVARIANT RoundTrip
INVARIANT PeekAgreesWithDecode
INVARIANT IsEmptyAgrees
INVARIANT FirstPointAgrees
