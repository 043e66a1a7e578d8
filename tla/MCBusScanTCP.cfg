SPECIFICATION Spec
CONSTANTS
  AddrMod = 4
  Jobs <- ScanTCP
  Buses <- AnyBus
  MaxFaults = 0
INVARIANTS
  NoPanic
CHECK_DEADLOCK FALSE
