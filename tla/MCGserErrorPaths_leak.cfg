\* A caller installs a reporter that returns (lwgeom_set_handlers): the
\* code goes on after each lwerror, into its "return NULL" paths.
CONSTANTS
    SRID_MAXIMUM = 999999
    SRID_USER_MAXIMUM = 998999
    NoBox = NoBox
    NULL = NULL
    Slots = {s1}
    MaxTrees = 2
    MaxLive = 10
    Truncations = {8}
    Reporters = {"return"}
    Geoms <- MCGeoms
    PaDims <- MCPaDims
    lwgeom_needs_bbox <- MCNeedsBbox
SPECIFICATION Spec
INVARIANT NoLeak
\* exit(1) in the reporter, or a NULL dereference, ends the process:
\* those states have no successor.
CHECK_DEADLOCK FALSE
