SPECIFICATION ClientSpec
CONSTANTS
  MaxU64 = 1000
  BPS = 10
  YEAR = 4
  EagerLossEvents = 1
  Batch = 1
  Users <- MCUsers
  Operator <- Op
  Pools = {0, 1}
  Casts <- MCCasts
  MaxLosses = 2
  MaxContracts = 2
  MaxCrashes = 2
INVARIANTS
  ClientTypeOK
  OneMeaning
  FreshIsTaken
  LandedNeverAgain
  PageIsOneMoment
  WalletSeesItsContracts
PROPERTIES
  ImplementsLedger
  SetUpConverges
