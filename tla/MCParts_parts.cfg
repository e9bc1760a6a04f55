CONSTANTS
    alice = alice  bob = bob  u1 = u1  u2 = u2  e1 = e1  e2 = e2  r1 = r1  r2 = r2
    None = None
    Rooms = {r1, r2}
    WitnessRing = 2
    MaxFrames = 2
    MaxReloads = 0
    Peers = {alice, bob}
    Coins = {u1, u2, e1, e2}
    Currency <- CurrencyOf
    Purses <- PursesOf
    Specs <- SpecsOf
    Ids = {"r1"}
    MaxCounters = 1
    MaxFaults = 1
SPECIFICATION PartsSpec
INVARIANTS PartsTypeOK SwapIsWhole LocksBackPromises FloodReaches TrustIsEarned VotesLand RecoveryKeepsStanding HonestIsTrusted ForkIsSeen
PROPERTIES NobodyPaysAlone Links KeepsWhatWorks
CHECK_DEADLOCK FALSE
