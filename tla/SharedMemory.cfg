SPECIFICATION FairSpec
CONSTANTS
    Languages = {"c", "cpp"}
    Sizes = {0, 3}
    Letters = {a}
    END = zero
    EOF = eofchar
    Blank = blank
    MaxSigints = 1
    MaxKills = 1
    MaxRuns = 2
INVARIANTS EchoInv SigintEndsText WaitsForReader
PROPERTIES EndReachesReader EofStopsWriter
CHECK_DEADLOCK FALSE
