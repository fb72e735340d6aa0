CONSTANTS
    NTasks = 2
    Decisions = {d1}
    Campaigns = 1
    MaxConstraints = 1
    MaxMishaps = 0
SPECIFICATION Spec
INVARIANTS
    PeopleGateTasks
CHECK_DEADLOCK FALSE
