SPECIFICATION FairSpec
CONSTANTS
  AddrMod = 4
  Jobs <- AllJobs
  Buses <- AnyBus
  MaxFaults = 2
INVARIANTS
  TypeOK
  NoPhantom
  DamageIsLocal
  OwnFrame
  CatReadsAll
PROPERTIES
  Ends
CHECK_DEADLOCK FALSE
