SPECIFICATION MCSpec
CONSTANTS
  Parts = {"line"}
  ByteMod = 4
  Start = 3
  Stop = 2
  MaxLen = 9
  StorageMod = 256
  TariffMod = 64
  Telegrams <- Meters
  Radix = 4
  Inf <- MCInf
  Magnitude <- MCMagnitude
  Specs <- MCSpecs
  Texts <- MCTexts
  Contents <- MCContents
  Lines <- MCLines
  Ints <- MCInts
  Durations = {"2s"}
  Uris <- MCUris
  Upper <- MCUpper
  Typed <- MCTyped
  Decimals <- MCDecimals
  LockPaths <- MCLockPaths
  FileOf <- MCFileOf
  Holders <- MCHolders
  Systems <- MCSystems
INVARIANTS
  FlagsAnywhere
CHECK_DEADLOCK FALSE
