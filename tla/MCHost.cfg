SPECIFICATION MCSpec
CONSTANTS
  Apps = {1, 2}
  Readers = {"portal", "talk"}
  Pids = {1, 2}
  MaxConns = 2
  MaxCalls = 2
  MaxSetupCalls = 2
  MaxAsks = 3
  MaxBus = 2
  MaxProcs = 3
  MaxMessages = 3
  MaxSize = 2
  Client = {1, 2}
  Token = {1, 2}
  File = {1}
  PrivateSeg <- Private
  HostSeg <- Host
  MaxForwarded = 2
  MaxDepth = 4
  Sandboxes = {1, 2}
  MaxEdits = 1
  Asked <- Asks
INVARIANTS OneConnection  RightIdentity HostReached BusHeard ResultsFit MeaningKept EntriesFollow
CHECK_DEADLOCK FALSE
