CONSTANTS
    NTasks = 3
    Decisions = {d1, d2}
    Campaigns = 2
    MaxConstraints = 2
    MaxMishaps = 1
SPECIFICATION FairSpec
INVARIANTS
    TypeOK
    DecisionsGateTasks
    DependenciesFirst
    StackIsAChain
    DoneIsComplete
    BlockedTogether
    OrphansHaveAFailure
PROPERTIES
    CampaignEnds
    OthersGetTheirTurn
CHECK_DEADLOCK FALSE
