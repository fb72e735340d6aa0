CONSTANTS
    Target = "wsl"
    MaxLive = 2
    MaxLimits = 2
    MaxBaseMoves = 1
    MaxReruns = 2
    MaxMishaps = 1
    CodexMayFail = FALSE
SPECIFICATION FairSpec
INVARIANTS
    AtMostOneSession
    DoneHasPR
PROPERTIES
    RecordedJobEnds
    OpenPRGetsDone
CHECK_DEADLOCK FALSE
