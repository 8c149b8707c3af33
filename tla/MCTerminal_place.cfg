\* The same users, and a pattern over a living cell.
CONSTANTS
    Width16 = 16
    BigStep = 3
    CacheCap = 2
    InitHeight = 2
    InitWidth = 2
    White <- Bright
    MaxChannel = 2
    Coarse = 2
    ViewHeight = 1
    WorldSize = 4
    Worlds <- TwoWorlds
    Pictures <- TwoPictures
    Users <- AllUsers
    Clicks <- TwoClicks
    WindowSizes <- TwoSizes
    MaxStray = 2
SPECIFICATION FairSpec
INVARIANTS PlaceableMeansFree
CHECK_DEADLOCK FALSE
