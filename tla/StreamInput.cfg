\* Two sessions whose threads expire each other's streams; messages over each of the limits.
SPECIFICATION Spec
CONSTANTS
    c1 = c1  c2 = c2
    Channels = {c1, c2}
    RequestIds = {1}
    Bodies <- LimitBodies
    kMaxStreamInputChunks = 3
    kMaxStreamInputBytes = 3
    kStreamInputTtlMs = 0
    MaxMessages = 2
    MaxClock = 1
SYMMETRY Interchangeable
CHECK_DEADLOCK FALSE
INVARIANTS WholeMessages RefusedForCause
