CONSTANTS
    h1 = h1  h2 = h2
    None = None
    Holders = {h1, h2}
    Total = 2
    MaxAsks = 1
    MaxFaults = 0
SPECIFICATION Spec
INVARIANTS GapIsNotWeather
CHECK_DEADLOCK FALSE
