CONSTANTS
    alice = alice  bob = bob
    u1 = u1  u2 = u2  e1 = e1
    Peers = {alice, bob}
    Coins = {u1, u2, e1}
    Currency <- CurrencyOf
    Purses <- PursesOf
    Specs <- SpecsOf
    Ids = {r1}
    MaxCounters = 0
    MaxFaults = 1
SPECIFICATION Spec
INVARIANTS ReloadKeepsValue
CHECK_DEADLOCK FALSE
