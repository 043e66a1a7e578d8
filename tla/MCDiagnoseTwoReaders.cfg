SPECIFICATION DiagnoseSpec
CONSTANTS
  MaxReaders = 3
  MaxBytes = 4
  ChanCap = 4
  BufCap = 2
  ReadTimeout = TRUE
  CanUnplug = FALSE
  NConfigs = 2
  Devices <- FirstOnly
  MayReject = {}
  Quiet = FALSE
  Prompt = TRUE
  CanHang = FALSE
  LateWrites = FALSE
  CanInterrupt = FALSE
INVARIANTS
  WorkingConfigFound
CHECK_DEADLOCK FALSE
