SPECIFICATION FairDiagnose
CONSTANTS
  MaxReaders = 3
  MaxBytes = 4
  ChanCap = 4
  BufCap = 2
  ReadTimeout = TRUE
  CanUnplug = FALSE
  NConfigs = 2
  Devices <- FirstOnly
  MayReject = {2}
  Quiet = FALSE
  Prompt = TRUE
  CanHang = TRUE
  LateWrites = FALSE
  CanInterrupt = TRUE
INVARIANTS
  DiagnoseTypeOK
  ExitReleases
PROPERTIES
  Terminates
CHECK_DEADLOCK FALSE
