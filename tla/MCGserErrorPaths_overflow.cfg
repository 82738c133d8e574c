\* The default reporter only (exit on every error): the line writer's
\* unchecked M flag lets it copy more than the buffer holds.
CONSTANTS
    SRID_MAXIMUM = 999999
    SRID_USER_MAXIMUM = 998999
    NoBox = NoBox
    NULL = NULL
    Slots = {s1}
    MaxTrees = 2
    MaxLive = 10
    Truncations = {8}
    Reporters = {}
    Geoms <- MCGeoms
    PaDims <- MCPaDims
    lwgeom_needs_bbox <- MCNeedsBbox
SPECIFICATION Spec
INVARIANT EncodeWithinBuffer
\* exit(1) in the reporter, or a NULL dereference, ends the process:
\* those states have no successor.
CHECK_DEADLOCK FALSE
