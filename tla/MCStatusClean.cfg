CONSTANTS
    Target = "wsl"
    MaxLive = 2
    MaxLimits = 2
    MaxBaseMoves = 2
    MaxReruns = 0
    MaxMishaps = 0
    CodexMayFail = FALSE
SPECIFICATION StatusSpec
INVARIANTS
    TypeOK
    AlarmsAreReal
    NextPollAgrees
    NoMarkersPublished
    LabelsMatchFile
    OneResolverPerJob
PROPERTIES
    ImplementsLifecycle
