CONSTANTS
    w1 = w1  w2 = w2  w3 = w3
    None = None
    Sockets = {w1, w2, w3}
    OutboxMax = 1
    MaxFrames = 0
    MaxFaults = 1
    MaxWakes = 1
    Overlap = TRUE
SPECIFICATION FairSpec
PROPERTIES Settles
CHECK_DEADLOCK FALSE
