CONSTANTS
  N = 2
  Kinds = {"plain", "open", "close", "talk"}
  MaxInst = 2
  HostMayClose = TRUE
  MayLeave = TRUE
  BadReplies = TRUE
  ActivationFails = TRUE
  MayReplace = TRUE
SPECIFICATION MCSpec
INVARIANTS AnsweredOnce RegisteredFirst InOrder
PROPERTIES KeptForOpenURI
CHECK_DEADLOCK FALSE
