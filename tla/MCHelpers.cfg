\* SRID round trip and clamping, the interleaves, and lwmessage_truncate.
CONSTANTS
    SRID_MAXIMUM = 999999
    SRID_USER_MAXIMUM = 998999
SPECIFICATION Spec
INVARIANT SridRoundTrip
INVARIANT ClampedAboveUserRange
INVARIANT InterleaveFullWidth
INVARIANT Interleave2PdepIsMorton
INVARIANT Interleave3IsMorton
INVARIANT TruncateAsDocumented
INVARIANT TruncateFitsAllocation
