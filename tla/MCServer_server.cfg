CONSTANTS
    p1 = p1  p2 = p2  p3 = p3
    r1 = r1  r2 = r2
    s1 = s1  s2 = s2  s3 = s3
    None = None
    Peers = {p1, p2, p3}
    RoomIds = {r1, r2}
    Sockets = {s1, s2, s3}
    Claims <- MovingClaims
    QueueMax = 1
    MaxFrames = 2
    MaxRestarts = 1
SPECIFICATION ServerSpec
INVARIANTS TypeOK NoGhostSeat InOrder BacklogKept IndexesAgree RosterTold
VIEW Observed
PROPERTIES GoneOnlyByLeaveOrGrace MovesAsPromised
