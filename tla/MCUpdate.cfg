SPECIFICATION Spec
CONSTANTS
  Commands = {c1}
  Daemon = daemon
  MaxRelease = 3
  MaxUpdates = 2
  MaxMishaps = 2
INVARIANTS
  TypeOK
  BinaryStaysWhole
PROPERTIES
  OnlyServedRequestsRemoved
  DaemonFollowsCommand
  UpdateEnds
CHECK_DEADLOCK FALSE
