\* Users who move, place, paint, operate, choose and save.
CONSTANTS
    Width16 = 16
    BigStep = 3
    CacheCap = 2
    InitHeight = 2
    InitWidth = 2
    White <- Bright
    MaxChannel = 2
    Coarse = 2
    ViewHeight = 1
    WorldSize = 4
    Worlds <- TwoWorlds
    Pictures <- TwoPictures
    Users <- AllUsers
    Clicks <- TwoClicks
    WindowSizes <- TwoSizes
    MaxStray = 1
SPECIFICATION FairSpec
INVARIANTS TypeOK ScreenIsRedraw ClickHitsWhatIsShown SettledShowsServer SelectionIsVisible CacheAgrees
PROPERTIES StaysInWorld PatternIsPlacedWhole OutputsAreShown
CHECK_DEADLOCK FALSE
