CONSTANTS
    SRID_MAXIMUM = 999999
    SRID_USER_MAXIMUM = 998999
    NoBox = NoBox
    NULL = NULL
    Slots = {s1, s2}
    Geoms <- MCCmpGeoms
    Srids <- MCCmpSrids
    Tails <- MCCmpTails
    lwgeom_needs_bbox <- MCSpecNeedsBbox
SPECIFICATION Spec
SYMMETRY SlotSymmetry
INVARIANT CmpAntisymmetricSameSrid
