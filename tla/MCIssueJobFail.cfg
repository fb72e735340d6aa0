CONSTANTS
    Target = "wsl"
    MaxLive = 1
    MaxLimits = 0
    MaxBaseMoves = 0
    MaxReruns = 0
    MaxMishaps = 0
    CodexMayFail = TRUE
SPECIFICATION FairSpec
PROPERTIES
    FailedCodexIsBlocked
