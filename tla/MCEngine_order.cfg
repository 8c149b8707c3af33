\* Two outputs that overtake each other between unlock and send.
CONSTANTS
    Clients = {c1, c2}
    Ticker = ticker
    None = None
    Types <- WorldTypes
    Speeds <- OneSpeed
    OutCap = 2
    MaxWorld = 1
SPECIFICATION Spec
INVARIANTS OutputsInOrder
CHECK_DEADLOCK FALSE
