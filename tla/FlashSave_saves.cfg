CONSTANTS
  Uids = {"RCIN", "CONA", "CONL"}
  NumModules = 2
  Records <- MCRecords
  SerialAt = 1
  NumPages = 5
  MaxLosses = 1
  Contents <- MCContents
  d0 = d0
  d1 = d1
  Changed = {"CONL"}
  Default = d0
  TORN = TORN
  OTHERSIZE = OTHERSIZE
  ERASED = ERASED
  JUNK = JUNK
  MAIN = MAIN
  SERIAL = SERIAL
  NONE = NONE
SPECIFICATION FairSpec
INVARIANTS
  GivenBack
  PackedUntilPowerLoss
PROPERTIES
  ImplementsStore
  SavedForGood
