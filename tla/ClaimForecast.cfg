CONSTANTS
  BPS = 10
  YEAR = 4
  DAY_SECONDS = 1
  MaxU64 = 100000
  alice = alice
  bob = bob
  Users <- MCUsers
  Founder = alice
  Saver = bob
  Viewer = alice
  NoConfig = NoConfig
  NoPool = NoPool
  PoolParams <- MCPool
  MaxTimeScale = 2
  FaucetCaps = {100}
  Amounts = {25}
  LossRates = {2, 4}
  MaxClock = 1
  MaxLosses = 2
  NoCover = NoCover
  CoverParams <- MCCover
  CoverAmounts = {10}
  Terms = {1, 3}
  MaxTerm = 3
  Nonces = {0, 1, 2, 3}
  Deposited <- MCDeposited
  Provided = 40
  Purse = 70
  FirstCover = 20
  FirstDays = 2
  Tried = {10, 25, 60}
  TermDays = {1}
  Skews <- MCSkews
  MaxSent = 3
SPECIFICATION DeskSpec
INVARIANTS
  ForecastIsShown
