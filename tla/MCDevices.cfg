CONSTANTS
  d1 = d1
  d2 = d2
  n1 = n1
  n2 = n2
  l1 = l1
  l2 = l2
  gpu = gpu
  cam = cam
  Device = {d1, d2}
  Name = {n1, n2, l1, l2}
  Class = {gpu, cam}
  Entries <- MCEntries
  NoDevice = NoDevice
  Absent = Absent
  Failures = TRUE
  MaxHostChanges = 1
  MaxReloads = 1
  RescanRace = FALSE
SPECIFICATION Spec
INVARIANTS NodeRecorded LinkReady UnappliedPending OnlyGranted AllPublished
CHECK_DEADLOCK FALSE
