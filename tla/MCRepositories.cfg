SPECIFICATION Spec
CONSTANTS
  Repos = {ra, rb, rc}
  Registered = {ra, rb}
  Commands = {c1, c2}
  MaxMishaps = 1
INVARIANTS
  TypeOK
  UntouchedSurvive
  TornOnlyByOverlap
  SafePointIsSafe
  SessionRaceIsHarmless
PROPERTIES
  DaemonFollowsConfig
  DaemonOutlivesTornConfig
CHECK_DEADLOCK FALSE
