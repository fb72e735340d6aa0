CONSTANTS
    N = 3
    Numbers = {0, 1, 3}
    MaxEdits = 1
    MaxMishaps = 1
SPECIFICATION FairSpec
INVARIANTS
    TypeOK
    StackedOnFinished
    StacksEnd
PROPERTIES
    ExecutableIsTaken
CHECK_DEADLOCK FALSE
