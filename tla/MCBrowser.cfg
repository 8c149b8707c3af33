\* Users who move, resize and place on a 4x4 torus.
CONSTANTS
    axisLength = 4
    Fraction = 2
    RoundsBelow <- Of49
    Worlds <- TwoWorlds
    Pictures <- OnePicture
    Users <- AllUsers
    CellSizes <- ThreeSizes
    Sizes <- Canvases
    Drags <- SomeDrags
    Mice <- SomeMice
    Colour = 4
    ReadLimit = 1000
    MaxOutputs = 1
SPECIFICATION FairSpec
INVARIANTS TypeOK OneFrameAsked CanvasIsCurrent ClickHitsDrawnCell
PROPERTIES BoundariesFollow PatternIsDroppedWhole OutputIsDrawn
CHECK_DEADLOCK FALSE
