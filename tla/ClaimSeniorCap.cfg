CONSTANTS
  BPS = 4
  YEAR = 2
  MaxU64 = 8
  alice = alice
  Users <- MCOneUser
  NoConfig = NoConfig
  NoPool = NoPool
  PoolParams <- MCNoFloorPool
  MaxTimeScale = 1
  FaucetCaps = {4}
  Amounts = {2, 4}
  LossRates = {2}
  MaxClock = 2
  MaxLosses = 1
  NoCover = NoCover
  CoverParams <- MCCover
  CoverAmounts = {2}
  Terms = {1}
  MaxTerm = 2
  Nonces = {0}
SPECIFICATION Spec
PROPERTIES
  SeniorGainCapped
