CONSTANTS
    Agents = {a1, a2}
    MaxTries = 1
    Faults = FALSE
SPECIFICATION Spec
INVARIANTS
    AtMostOneWorker
CHECK_DEADLOCK FALSE
