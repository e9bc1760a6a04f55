CONSTANTS
    r1 = r1  r2 = r2
    None = None
    Rooms = {r1, r2}
    WitnessRing = 1
    MaxFrames = 1
    MaxReloads = 0
SPECIFICATION PatientSpec
INVARIANT NoCrossTalk
CHECK_DEADLOCK FALSE
