CONSTANTS
  BPS = 2
  YEAR = 2
  MaxU64 = 5
  alice = alice
  bob = bob
  Users <- MCOneUser
  NoConfig = NoConfig
  NoPool = NoPool
  PoolParams <- MCYieldPool
  MaxTimeScale = 2
  FaucetCaps = {2}
  Amounts = {2}
  LossRates = {1, 2, 3}
  MaxClock = 1
  MaxLosses = 2
  NoCover = NoCover
  CoverParams <- MCTwoTriggers
  CoverAmounts = {0, 1, 2}
  Terms = {0, 1, 2, 3}
  MaxTerm = 2
  Nonces = {0}
SPECIFICATION Spec
INVARIANTS
  CoverTypeOK
  IndexIsTime
  ClosedRightly
PROPERTIES
  KeepsLedger
