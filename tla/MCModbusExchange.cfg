SPECIFICATION FairSpec
CONSTANTS
  Jobs <- AllJobs
  Unit = 1
  Holding <- HoldingRegs
  Input <- InputRegs
  CRC <- crc16Modbus
  MaxFaults = 2
INVARIANTS
  TypeOK
  SetIsPrefix
  OwnRegisters
  ErrorHasCause
PROPERTIES
  Ends
CHECK_DEADLOCK FALSE
