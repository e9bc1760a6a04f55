SPECIFICATION MCSpec
CONSTANTS
    here = here
    there = there
    alice = alice
    bob = bob
    d1 = d1
    d2 = d2
    Exchanges = {here, there}
    Pools = {"AliceBob", "BobParis"}
    Home <- OnePoolEach
    Ids = {alice, bob}
    Nobody = Nobody
    Txs = {"t42"}
    Devices = {d1, d2}
    RateScale = 2
    Rates = {0, 2, 3}
    Amounts = {1}
    Expiries = {1}
    MaxBlock = 1
    MaxMoves = 1
    MaxFaults = 1
INVARIANTS TypeOK Accounted LegsAgree
PROPERTIES OnlyAbortOverdraws TradeEnds
