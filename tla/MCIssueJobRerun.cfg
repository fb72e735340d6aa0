CONSTANTS
    Target = "wsl"
    MaxLive = 2
    MaxLimits = 0
    MaxBaseMoves = 1
    MaxReruns = 1
    MaxMishaps = 0
    CodexMayFail = FALSE
SPECIFICATION Spec
INVARIANTS
    NoMarkersPublished
