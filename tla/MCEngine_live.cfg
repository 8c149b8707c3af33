\* Two clients that take the mutex again and again beside the ticker, with the
\* fairness of the Go scheduler.
CONSTANTS
    Clients = {c1, c2}
    Ticker = ticker
    None = None
    Types <- Rivals
    Speeds <- OneSpeed
    OutCap = 1
    MaxWorld = 0
SPECIFICATION FairSpec
PROPERTIES CallsReturn PlayingAdvances CancelCloses
CHECK_DEADLOCK FALSE
