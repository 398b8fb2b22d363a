SPECIFICATION ForkJoinSpec
CONSTANTS
    Programs = {"c_lab02_a", "cc_lab02_a", "r_lab02_a", "c_lab02_b", "cc_lab02_b", "r_lab02_b",
                "c_lab03_a", "cc_lab03_a", "r_lab03_a", "c_lab03_b", "cc_lab03_b", "r_lab03_b",
                "c_lab04", "cc_lab04", "r_lab04", "c_lab06", "cc_lab06"}
    Dim = 10
    N = 2
    Cols = 3
    NO_TH = 4
    N_MAX = 2
    Rounds = 3
    Planes = 3
    CreateMayFail = TRUE
INVARIANTS NoRace SectionsWhole
PROPERTY EndsComplete
