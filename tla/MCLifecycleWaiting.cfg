CONSTANTS
  Client = {c1}
  NoLaunch = NoLaunch
  Period = 2
  IdleTimeout = 0
  Unserved = 2
  MaxProcs = 1
  Events = {"leave"}
  Failures = FALSE
  ReadFails = FALSE
SPECIFICATION Spec
PROPERTIES WaitsForClient
CHECK_DEADLOCK FALSE
