\* A connection, two saves that may overlap, and a process that stops and starts.
CONSTANTS
    Conns = {c1}
    Savers = {s1, s2}
    OutCap = 1
    ListenerCap = 1
    ReaderCap = 1
    MaxWorld = 2
    Contents <- TwoContents
    MaxStops = 2
SPECIFICATION FairSystemSpec
INVARIANTS TypeOK
PROPERTIES ImplementsService ResumesAsSaved HandlersEnd
CHECK_DEADLOCK FALSE
