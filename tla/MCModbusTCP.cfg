SPECIFICATION Spec
CONSTANTS
  Jobs <- TCPJobs
  Unit = 1
  Holding <- HoldingRegs
  Input <- InputRegs
  CRC <- crc16Modbus
  MaxFaults = 0
INVARIANTS
  Supported
CHECK_DEADLOCK FALSE
