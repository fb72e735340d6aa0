CONSTANTS
    Agents = {a1, a2, a3}
    MaxTries = 2
    Faults = TRUE
SPECIFICATION Spec
SYMMETRY Symmetry
INVARIANTS
    TypeOK
    HeldIssueIsLabelled
    OnlyRacersDoubleWin
    LatestClaimantNeverLoses
CHECK_DEADLOCK FALSE
