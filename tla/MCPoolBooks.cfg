CONSTANTS
  BPS = 4
  YEAR = 2
  MaxU64 = 5
  alice = alice
  Users <- MCOneUser
  NoConfig = NoConfig
  NoPool = NoPool
  PoolParams <- MCParams
  MaxTimeScale = 2
  FaucetCaps = {4}
  Amounts = {0, 1, 2, 4}
  LossRates = {1, 2, 4}
  MaxClock = 2
  MaxLosses = 1
SPECIFICATION PoolSpec
INVARIANTS
  PoolTypeOK
  Solvent
  Conserved
  EmptyTrancheHasNothing
  ModelClockExact
  RoundTripNeverGains
  SeniorCanLeave
PROPERTIES
  JuniorFirst
  WipedPoolIsDead
  PriceFallsOnlyByLoss
  FloorHeld
