CONSTANTS
    p1 = p1  p2 = p2  p3 = p3
    r1 = r1  r2 = r2
    s1 = s1  s2 = s2  s3 = s3
    None = None
    Peers = {p1, p2}
    RoomIds = {r1}
    Sockets = {s1, s2, s3}
    Claims <- OneRoom
    QueueMax = 1
    MaxFrames = 1
    MaxRestarts = 0
SPECIFICATION Spec
INVARIANTS BlipLosesNothing
