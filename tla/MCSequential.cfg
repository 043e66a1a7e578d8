SPECIFICATION MCSpec
CONSTANTS
  Parts = {"frame", "records", "registers", "line", "address", "release"}
  ByteMod = 4
  Start = 3
  Stop = 2
  MaxLen = 9
  StorageMod = 256
  TariffMod = 64
  Telegrams <- Meters
  Radix = 4
  Inf <- MCInf
  Magnitude <- MCMagnitude
  Specs <- MCSpecs
  Texts <- MCTexts
  Contents <- MCContents
  Lines <- MCLines
  Ints <- MCInts
  Durations = {"2s"}
  Uris <- MCUris
  Upper <- MCUpper
  Typed <- MCTyped
  Decimals <- MCDecimals
  LockPaths <- MCLockPaths
  FileOf <- MCFileOf
  Holders <- MCHolders
  Systems <- MCSystems
INVARIANTS
  TypeOK
  Sound
  Decodable
  FrameFound
  ErrorNeedsHeader
  ParserTypeOK
  RecordsComplete
  HeaderRead
  SetThenCat
  DocumentedOrder
  BytesShown
  CountSuffices
  LineUnderstood
  ConfigsTested
  SpecExact
  LocksAccounted
  VerdictHonest
PROPERTIES
  StepsForward
CHECK_DEADLOCK FALSE
