\* Two connections, one of which is drained by its handler first.
CONSTANTS
    Conns = {c1, c2}
    Savers = {}
    OutCap = 1
    ListenerCap = 1
    ReaderCap = 1
    MaxWorld = 4
SPECIFICATION FairSpec
PROPERTIES EveryClientGetsState
CHECK_DEADLOCK FALSE
