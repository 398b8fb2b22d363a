SPECIFICATION VersionsSpec
CONSTANTS
    MAX_N = 10
    CreateMayFail = TRUE
    Languages = {"c", "cpp", "rust"}
INVARIANTS OnlyLateTestRaces EndsAtLimit
PROPERTIES EndsOrStrays VersionsTurns
CHECK_DEADLOCK FALSE
