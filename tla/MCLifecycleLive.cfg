CONSTANTS
  Client = {c1, c2}
  c1 = c1
  c2 = c2
  NoLaunch = NoLaunch
  Period = 1
  IdleTimeout = 1
  Unserved = 0
  MaxProcs = 1
  Events = {"leave"}
  Failures = FALSE
  ReadFails = FALSE
SPECIFICATION MCSpec
PROPERTIES IdleStops FinishedGoes
CHECK_DEADLOCK FALSE
