CONSTANTS
    h1 = h1  h2 = h2
    None = None
    Holders = {h1, h2}
    Total = 2
    MaxAsks = 2
    MaxFaults = 1
SPECIFICATION FetchPollsSpec
INVARIANTS TypeOK KeptIsTheFile KeptOnce RetractedStaysGone PollsAgree
PROPERTIES UnansweredAskIsForgotten BallotsMoveForward
CHECK_DEADLOCK FALSE
