\* The default reporter, and a record handed over 8 bytes short of what
\* was written (its last double cut off).
CONSTANTS
    SRID_MAXIMUM = 999999
    SRID_USER_MAXIMUM = 998999
    NoBox = NoBox
    NULL = NULL
    Slots = {s1}
    MaxTrees = 2
    MaxLive = 10
    Truncations = {8}
    Reporters = {}
    Geoms <- MCGeoms
    PaDims <- MCPaDims
    lwgeom_needs_bbox <- MCNeedsBbox
SPECIFICATION Spec
INVARIANT DecodeWithinRecord
\* exit(1) in the reporter, or a NULL dereference, ends the process:
\* those states have no successor.
CHECK_DEADLOCK FALSE
