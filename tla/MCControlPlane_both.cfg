CONSTANTS
    w1 = w1  w2 = w2  w3 = w3
    p1 = p1  p2 = p2  s1 = s1  s2 = s2  s3 = s3
    None = None
    Sockets = {w1, w2, w3}
    OutboxMax = 1
    MaxFrames = 2
    MaxFaults = 1
    MaxWakes = 1
    Overlap = FALSE
SPECIFICATION ControlPlaneSpec
INVARIANTS TypeOK LeavesInOrder NothingTypedIsForgotten NeverWedged OneSocket
PROPERTIES Settles SeatIsGivenUp EvaporatedIsSeenToLeave
CHECK_DEADLOCK FALSE
