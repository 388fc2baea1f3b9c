CONSTANTS
  N = 2
  Kinds = {"plain", "open", "talk"}
  MaxInst = 2
  HostMayClose = FALSE
  MayLeave = TRUE
  BadReplies = FALSE
  ActivationFails = FALSE
  MayReplace = FALSE
  Runner = {1, 2}
  Stopper = {3}
  MaxStarts = 3
SPECIFICATION MCSpec
INVARIANTS NothingLeft
PROPERTIES AllAnswered LeftCloses Answered
CHECK_DEADLOCK FALSE
