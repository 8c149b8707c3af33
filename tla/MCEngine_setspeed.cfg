\* A SetSpeed whose flag the ticker clears before it reads the speed.
CONSTANTS
    Clients = {c1}
    Ticker = ticker
    None = None
    Types <- OnlySetSpeed
    Speeds <- TwoSpeeds
    OutCap = 2
    MaxWorld = 1
SPECIFICATION FairSpec
PROPERTIES SpeedTakesEffect
CHECK_DEADLOCK FALSE
