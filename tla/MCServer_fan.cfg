\* Two connections come, send, fail and go while outputs are given out.
CONSTANTS
    Conns = {c1, c2}
    Savers = {}
    OutCap = 2
    ListenerCap = 2
    ReaderCap = 1
    MaxWorld = 3
SYMMETRY Symmetry
SPECIFICATION Spec
INVARIANTS FanServesOpenQueues PushHasRoom NobodyMissesTheLatest DrainedIsCurrent
PROPERTIES NeverBack
CHECK_DEADLOCK FALSE
