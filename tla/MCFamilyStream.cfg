\* Two sockets, one of which may be a leftover, and a buffer of one frame,
\* so that the second of two broadcasts may find it full.
CONSTANTS
    Conns = {1, 2}
    Fetches = {x}
    Buffer = 1
    MaxVersion = 2
    MaxMoves = 1
    MaxFaults = 1
SPECIFICATION Spec
INVARIANTS
    StreamsFollowMoves
PROPERTIES
    AvatarNeverRegresses
    ViewConverges
CHECK_DEADLOCK FALSE
