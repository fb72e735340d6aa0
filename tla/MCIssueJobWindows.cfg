CONSTANTS
    Target = "windows"
    MaxLive = 2
    MaxLimits = 1
    MaxBaseMoves = 0
    MaxReruns = 0
    MaxMishaps = 0
    CodexMayFail = FALSE
SPECIFICATION Spec
INVARIANTS
    AtMostOneSession
