\* Two clients that edit, step, pause, play and set the speed, to zero as well.
CONSTANTS
    Clients = {c1, c2}
    Ticker = ticker
    None = None
    Types <- AllTypes
    Speeds <- WithZero
    OutCap = 1
    MaxWorld = 1
SYMMETRY Symmetry
SPECIFICATION Spec
INVARIANTS TypeOK EncoderAlone OutputHasOwnChange OutputHasOwnSetting AtMostOneLateGeneration NoPanicWhileRunning
CHECK_DEADLOCK FALSE
