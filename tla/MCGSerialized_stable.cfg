\* One record at a time, over the codec's geometries (points, lines,
\* polygons whose ring counts need padding, collections, boxes stored or
\* not) and SRIDs 0, 4326 and 1000000: decode-then-encode byte stability.
CONSTANTS
    SRID_MAXIMUM = 999999
    SRID_USER_MAXIMUM = 998999
    NoBox = NoBox
    NULL = NULL
    Slots = {s1}
    Geoms <- MCGeoms
    Srids <- MCSrids
    Tails <- MCTails
    lwgeom_needs_bbox <- MCNeedsBbox
SPECIFICATION Spec
PROPERTY ReserializeKeepsBytes
