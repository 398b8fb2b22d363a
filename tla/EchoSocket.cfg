SPECIFICATION FairSpec
CONSTANTS
    Clients = {c1}
    NoClient = none
    MaxSplits = 1
    SetupMayFail = TRUE
    MaxKills = 1
    MaxStream = 6
INVARIANTS EchoInv
PROPERTIES DoneEndsBoth AnswerArrives
CHECK_DEADLOCK FALSE
