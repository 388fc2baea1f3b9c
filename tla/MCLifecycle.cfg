CONSTANTS
  Client = {c1, c2}
  c1 = c1
  c2 = c2
  NoLaunch = NoLaunch
  Period = 1
  IdleTimeout = 1
  Unserved = 0
  MaxProcs = 2
  Events = {"leave", "stop", "init"}
  Failures = TRUE
  ReadFails = FALSE
SPECIFICATION MCSpec
INVARIANTS TypeOK LaunchKnown CgroupKept NothingSurvives
PROPERTIES EstablishedKept
SYMMETRY Symmetry
CHECK_DEADLOCK FALSE
