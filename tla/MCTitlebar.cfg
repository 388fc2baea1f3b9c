SPECIFICATION MCSpec
CONSTANTS
  NumIds = 2
  MaxObjects = 2
  MaxServer = 1
  MaxEvents = 3
  Globals = {1}
  Points = {1}
  Header = 2
  Sizes = {0, 2, 3}
  IntMax = 4
  Tops = {1}
  MaxSide = 2
  Buffers = {1}
  Scales = {0, 2}
  MaxScale = 16
  MaxChanges = 1
  Modes <- MCModes
  Logicals <- MCLogicals
  MaxFds = 2
  MaxMessages = 3
  MaxSize = 2
  MaxCount = 3
INVARIANTS ObjectsAgree BarInputHidden BarAccounted ScreenFits DescriptorsArrive
PROPERTIES CommitFits Implements
CHECK_DEADLOCK FALSE
