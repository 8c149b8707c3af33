\* A save after an edit has been processed and no output is under way.
CONSTANTS
    Conns = {c1}
    Savers = {s1}
    OutCap = 2
    ListenerCap = 2
    ReaderCap = 1
    MaxWorld = 3
SPECIFICATION Spec
PROPERTIES SettledSaveHasEdit
CHECK_DEADLOCK FALSE
