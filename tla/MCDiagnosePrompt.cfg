SPECIFICATION DiagnoseSpec
CONSTANTS
  MaxReaders = 4
  MaxBytes = 6
  ChanCap = 4
  BufCap = 2
  ReadTimeout = TRUE
  CanUnplug = FALSE
  NConfigs = 3
  Devices <- SomeDevices
  MayReject = {2}
  Quiet = FALSE
  Prompt = TRUE
  CanHang = TRUE
  LateWrites = FALSE
  CanInterrupt = FALSE
INVARIANTS
  NoFalsePositive
  CountMatches
CHECK_DEADLOCK FALSE
