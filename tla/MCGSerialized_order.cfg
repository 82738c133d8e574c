\* Three records of one SRID; no fast path.
CONSTANTS
    SRID_MAXIMUM = 999999
    SRID_USER_MAXIMUM = 998999
    NoBox = NoBox
    NULL = NULL
    Slots = {s1, s2, s3}
    Geoms <- MCCmpGeoms
    Srids <- MCOrderSrids
    Tails <- MCOrderTails
    lwgeom_needs_bbox <- MCSpecNeedsBbox
SPECIFICATION Spec
SYMMETRY SlotSymmetry
INVARIANT CmpTransitive
