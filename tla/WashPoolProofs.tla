--------------------------- MODULE WashPoolProofs ---------------------------
(***************************************************************************)
(* Theorems about the tranche pool, for any number of users, any amounts   *)
(* and any clock.                                                          *)
(*                                                                         *)
(* First what the arithmetic of math.rs guarantees for every amount: the   *)
(* quotients round down, so each lemma is a bound on a quotient.           *)
(*                                                                         *)
(* Then PoolInv, which is inductive: the books agree only as long as the   *)
(* accrual splits the whole yield, which needs the parameters that         *)
(* create_pool accepted, and a pool starts with the empty vault only if    *)
(* nothing was ever put in before it existed.                              *)
(*                                                                         *)
(* Last the sums over all accounts: the base tokens add up to the supply   *)
(* of the mint, and the holders' shares to that of the tranche.  Each      *)
(* instruction touches a handful of accounts, and the sums follow value by *)
(* value; with them, senior holders can leave.                             *)
(***************************************************************************)
EXTENDS WashPool, FiniteSetTheorems, TLAPS

(* A rate as create_pool and init_protection accept it.                    *)
Rates(r) ==
  /\ r.yield_rate_bps \in 0 .. BPS
  /\ r.senior_rate_bps \in 0 .. BPS
  /\ r.perf_fee_bps \in 0 .. BPS

-----------------------------------------------------------------------------
(* Quotients.                                                              *)

(* A quotient that rounds down is a natural number, exact up to less than  *)
(* one divisor (every division of math.rs).                                *)
LEMMA QuotientBounds ==
  ASSUME NEW x \in Nat, NEW d \in Nat \ {0}
  PROVE  /\ x \div d \in Nat
         /\ (x \div d) * d <= x
         /\ x < (x \div d) * d + d
BY SMT

(* A quotient does not exceed a bound whose multiple bounds the dividend.  *)
LEMMA QuotientBelow ==
  ASSUME NEW x \in Nat, NEW d \in Nat \ {0}, NEW y \in Nat, x <= y * d
  PROVE  x \div d <= y
BY SMT

(* A factor of a product of naturals bounds it from the other factor.      *)
LEMMA ProductBelow ==
  ASSUME NEW x \in Nat, NEW y \in Nat, NEW z \in Nat, x <= y
  PROVE  x * z <= y * z
BY SMT

(* math::pro_rata never goes below zero, and gives nothing for nothing.    *)
LEMMA ProRataNatural ==
  ASSUME NEW amount \in Nat, NEW rate \in Nat, NEW dt \in Nat
  PROVE  /\ ProRata(amount, rate, dt) \in Nat
         /\ amount = 0 \/ dt = 0 => ProRata(amount, rate, dt) = 0
<1>1. BPS * YEAR \in Nat \ {0}
  BY ScaleAssumption, SMT
<1>2. amount * rate * dt \in Nat
  BY SMT
<1>3. amount = 0 \/ dt = 0 => amount * rate * dt = 0
  BY SMT
<1> QED
  BY <1>1, <1>2, <1>3, SMT DEF ProRata

(* math::mul_bps of at most 10 000 bps is a part of the amount.            *)
LEMMA MulBpsIsPart ==
  ASSUME NEW amount \in Nat, NEW bps \in 0 .. BPS
  PROVE  MulBps(amount, bps) \in 0 .. amount
<1>1. amount * bps \in Nat /\ amount * bps <= amount * BPS
  BY ScaleAssumption, SMT
<1> QED
  BY <1>1, ScaleAssumption, QuotientBounds, QuotientBelow DEF MulBps

-----------------------------------------------------------------------------
(* The waterfall.                                                          *)

(* math::accrue hands out the net yield completely, senior and junior; a   *)
(* tranche without shares gets nothing, and without time or assets there   *)
(* is nothing to hand out.                                                 *)
LEMMA AccrualSplits ==
  ASSUME NEW b \in PoolBalances, NEW r, Rates(r), NEW dt \in Nat
  PROVE  LET a == Accrual(b, r, dt)
         IN  /\ a.yield \in Nat
             /\ a.fee \in Nat
             /\ a.net \in Nat
             /\ a.gain \in [Tranches -> Nat]
             /\ a.gain["Senior"] + a.gain["Junior"] = a.net
             /\ \A t \in Tranches : b.supply[t] = 0 => a.gain[t] = 0
             /\ dt = 0 \/ b.assets = 0 => a.net = 0 /\ a.fee = 0
<1> DEFINE a == Accrual(b, r, dt)
           empty == \A t \in Tranches : b.supply[t] = 0
           due == SeniorDue(b, r, dt)
           senior == IF b.supply["Junior"] = 0 THEN a.net
                     ELSE IF b.supply["Senior"] = 0 THEN 0
                     ELSE Lesser(due, a.net)
<1>0. r.yield_rate_bps \in Nat /\ r.senior_rate_bps \in Nat /\ r.perf_fee_bps \in 0 .. BPS
  BY ScaleAssumption DEF Rates
<1>1. /\ b.assets \in Nat
      /\ b.nav \in [Tranches -> Nat]
      /\ b.supply \in [Tranches -> Nat]
  BY ScaleAssumption DEF PoolBalances, U64
<1>2. /\ a.yield = IF empty THEN 0 ELSE ProRata(b.assets, r.yield_rate_bps, dt)
      /\ a.fee = MulBps(a.yield, r.perf_fee_bps)
      /\ a.net = a.yield - a.fee
      /\ a.gain = [t \in Tranches |-> IF t = "Senior" THEN senior ELSE a.net - senior]
  BY DEF Accrual
<1>3. a.yield \in Nat /\ (empty \/ dt = 0 \/ b.assets = 0 => a.yield = 0)
  <2>1. /\ ProRata(b.assets, r.yield_rate_bps, dt) \in Nat
        /\ dt = 0 \/ b.assets = 0 => ProRata(b.assets, r.yield_rate_bps, dt) = 0
    BY <1>0, <1>1, ProRataNatural
  <2> QED
    BY <1>2, <2>1
<1>4. a.fee \in 0 .. a.yield
  BY <1>0, <1>2, <1>3, MulBpsIsPart
<1>5. a.net \in Nat /\ (empty \/ dt = 0 \/ b.assets = 0 => a.net = 0 /\ a.fee = 0)
  BY <1>2, <1>3, <1>4
<1>6. due \in Nat
  <2>1. b.nav["Senior"] \in Nat
    BY <1>1 DEF Tranches
  <2> QED
    BY <1>0, <2>1, ProRataNatural DEF SeniorDue
<1>7. senior \in 0 .. a.net
  BY <1>5, <1>6 DEF Lesser
<1> HIDE DEF a, senior
<1>8. a.gain \in [Tranches -> Nat] /\ a.gain["Senior"] + a.gain["Junior"] = a.net
  BY <1>2, <1>5, <1>7 DEF Tranches
<1>9. \A t \in Tranches : b.supply[t] = 0 => a.gain[t] = 0
  BY <1>2, <1>5, <1>7 DEF Tranches, senior
<1> QED
  BY <1>3, <1>4, <1>5, <1>8, <1>9 DEF a

(* math::apply_loss takes the whole loss, from junior first: senior loses  *)
(* only when junior loses everything.                                      *)
LEMMA LossSplits ==
  ASSUME NEW loss \in Nat, NEW b \in PoolBalances
  PROVE  LET split == ApplyLoss(loss, b)
         IN  /\ split \in [Tranches -> 0 .. loss]
             /\ split["Senior"] + split["Junior"] = loss
             /\ split["Junior"] <= b.nav["Junior"]
             /\ split["Senior"] > 0 => split["Junior"] = b.nav["Junior"]
<1> DEFINE junior == Lesser(loss, b.nav["Junior"])
<1>1. b.nav["Junior"] \in Nat
  BY ScaleAssumption DEF PoolBalances, U64, Tranches
<1>2. /\ junior \in 0 .. loss
      /\ junior <= b.nav["Junior"]
      /\ loss - junior > 0 => junior = b.nav["Junior"]
  BY <1>1 DEF Lesser
<1>3. ApplyLoss(loss, b) = [t \in Tranches |-> IF t = "Junior" THEN junior ELSE loss - junior]
  BY DEF ApplyLoss
<1> HIDE DEF junior
<1>4. /\ ApplyLoss(loss, b)["Junior"] = junior
      /\ ApplyLoss(loss, b)["Senior"] = loss - junior
  BY <1>3 DEF Tranches
<1>5. loss - junior \in 0 .. loss /\ (loss - junior) + junior = loss
  BY <1>2
<1>6. ApplyLoss(loss, b) \in [Tranches -> 0 .. loss]
  BY <1>2, <1>3, <1>5
<1> QED
  BY <1>2, <1>4, <1>5, <1>6

-----------------------------------------------------------------------------
(* Shares.                                                                 *)

(* A deposit never gets shares worth more than itself: the price of the    *)
(* shares that exist does not fall (math::shares_for_deposit).             *)
LEMMA DepositKeepsPrice ==
  ASSUME NEW amount \in Nat, NEW assets \in Nat, NEW supply \in Nat,
         supply = 0 => assets = 0
  PROVE  LET shares == SharesForDeposit(amount, assets, supply)
         IN  /\ shares \in Nat
             /\ shares * assets <= amount * supply
<1>1. CASE supply = 0
  BY <1>1, SMT DEF SharesForDeposit
<1>2. CASE supply # 0 /\ assets = 0
  BY <1>2, SMT DEF SharesForDeposit
<1>3. CASE supply # 0 /\ assets # 0
  <2>1. amount * supply \in Nat
    BY SMT
  <2> QED
    BY <1>3, <2>1, QuotientBounds DEF SharesForDeposit
<1> QED
  BY <1>1, <1>2, <1>3

(* A redemption never pays more than the shares are worth, all the shares  *)
(* are worth all the assets (math::amount_for_redeem).                     *)
LEMMA RedeemKeepsPrice ==
  ASSUME NEW shares \in Nat, NEW assets \in Nat, NEW supply \in Nat, shares <= supply
  PROVE  LET amount == AmountForRedeem(shares, assets, supply)
         IN  /\ amount \in 0 .. assets
             /\ amount * supply <= shares * assets
             /\ shares = supply /\ supply > 0 => amount = assets
<1>1. CASE supply = 0
  BY <1>1, SMT DEF AmountForRedeem
<1>2. CASE supply # 0
  <2>1. shares * assets \in Nat /\ shares * assets <= assets * supply
    BY SMT
  <2>2. (supply * assets) \div supply = assets
    BY <1>2, SMT
  <2> QED
    BY <1>2, <2>1, <2>2, QuotientBounds, QuotientBelow DEF AmountForRedeem
<1> QED
  BY <1>1, <1>2

(* A deposit redeemed at once does not gain, for every state of a tranche  *)
(* that leaves nothing behind when it is empty.                            *)
LEMMA RoundTrip ==
  ASSUME NEW amount \in Nat, NEW assets \in Nat, NEW supply \in Nat,
         supply = 0 => assets = 0
  PROVE  LET shares == SharesForDeposit(amount, assets, supply)
         IN  AmountForRedeem(shares, assets + amount, supply + shares) <= amount
<1> DEFINE shares == SharesForDeposit(amount, assets, supply)
<1>1. shares \in Nat /\ shares * assets <= amount * supply
  BY DepositKeepsPrice
<1> HIDE DEF shares
<1>2. AmountForRedeem(shares, assets + amount, supply + shares) <= amount
  <2>1. CASE supply + shares = 0
    BY <1>1, <2>1 DEF AmountForRedeem
  <2>2. CASE supply + shares # 0
    <3>1. shares * (assets + amount) \in Nat
      BY <1>1, SMT
    <3>2. shares * (assets + amount) <= amount * (supply + shares)
      BY <1>1, SMT
    <3> QED
      BY <1>1, <2>2, <3>1, <3>2, QuotientBelow DEF AmountForRedeem
  <2> QED
    BY <2>1, <2>2
<1> QED
  BY <1>2 DEF shares

-----------------------------------------------------------------------------
(* create_pool let the parameters of the pool through.                     *)
ParamsAccepted == pool # NoPool => ValidParams(pool.params)

(* Before the pool there is nothing in it, and no loss of it on record.    *)
NothingBeforePool == pool = NoPool => balances = NoBalances /\ lossCount = 0

PoolInv ==
  /\ PoolTypeOK
  /\ Solvent
  /\ EmptyTrancheHasNothing
  /\ ModelClockExact
  /\ EventsInOrder
  /\ ParamsAccepted
  /\ NothingBeforePool

-----------------------------------------------------------------------------
(* The accounts of the program are not wallets.                            *)
LEMMA AccountsApart ==
  /\ Accounts = Users \cup {"vault", "treasury", "pvault"}
  /\ \A u \in Users : u # "vault" /\ u # "treasury" /\ u # "pvault"
BY PoolAssumption DEF Accounts

(* PoolBalances of math.rs: naturals, and nothing but the three fields.    *)
LEMMA BalancesAreNatural ==
  ASSUME NEW b \in PoolBalances
  PROVE  /\ b.assets \in Nat
         /\ b.nav \in [Tranches -> Nat]
         /\ b.supply \in [Tranches -> Nat]
         /\ \A t \in Tranches : b.nav[t] \in Nat /\ b.supply[t] \in Nat
         /\ b = [assets |-> b.assets, nav |-> b.nav, supply |-> b.supply]
BY ScaleAssumption DEF PoolBalances, U64, Tranches

(* The Pool account, once created, has rates and a floor that create_pool  *)
(* accepted.                                                               *)
LEMMA PoolIsRecord ==
  ASSUME PoolInv, pool # NoPool
  PROVE  /\ pool \in Pool
         /\ pool.created_at \in 0 .. MaxClock
         /\ pool.params \in PoolParams
         /\ Rates(pool.params)
         /\ pool.params.min_junior_bps \in 0 .. BPS - 1
         /\ pool.params.time_scale \in Nat
<1>1. pool \in Pool /\ pool.params \in PoolParams /\ pool.created_at \in 0 .. MaxClock
  BY DEF PoolInv, PoolTypeOK, Pool
<1>2. pool.params \in [yield_rate_bps : Nat, senior_rate_bps : Nat,
                       min_junior_bps : Nat, perf_fee_bps : Nat, time_scale : Nat]
  BY <1>1, PoolAssumption
<1>3. ValidParams(pool.params)
  BY DEF PoolInv, ParamsAccepted
<1> QED
  BY <1>1, <1>2, <1>3, ScaleAssumption DEF ValidParams, Rates

(* What accrue_pool leaves to the rest of the handler, in a step that      *)
(* accrues or a state where one could: it moves the clock forward exactly, *)
(* keeps the books and takes nothing from a tranche.                       *)
LEMMA AccrualKeepsBooks ==
  ASSUME PoolInv, AccruePool \/ (pool # NoPool /\ AccrualFits)
  PROVE  /\ pool # NoPool
         /\ DtModel \in Nat
         /\ Due.net \in Nat /\ Due.fee \in Nat
         /\ Accrued \in PoolBalances
         /\ Accrued.assets = Accrued.nav["Senior"] + Accrued.nav["Junior"]
         /\ Accrued.supply = balances.supply
         /\ \A t \in Tranches : /\ Accrued.nav[t] >= balances.nav[t]
                                /\ Accrued.supply[t] = 0 => Accrued.nav[t] = 0
         /\ AccruedBase \in [Accounts -> Nat]
         /\ AccruedBase["vault"] = Accrued.assets
         /\ DtModel = 0 \/ balances.assets = 0 => Accrued = balances
<1>0. pool # NoPool /\ AccrualFits
  BY DEF AccruePool
<1>1. /\ pool # NoPool
      /\ balances \in PoolBalances
      /\ base \in [Accounts -> Nat]
      /\ Solvent
      /\ EmptyTrancheHasNothing
  BY <1>0, ScaleAssumption DEF PoolInv, PoolTypeOK, TokenAccounts, U64
<1>2. Rates(pool.params) /\ pool.params.time_scale \in Nat
  BY <1>1, PoolIsRecord
<1>3. Timestamp - lastAccrued \in Nat
  BY PoolAssumption DEF PoolInv, PoolTypeOK, Timestamp
<1>4. DtModel \in Nat
  BY <1>2, <1>3, SMT DEF DtModel
<1>5. /\ Due.net \in Nat
      /\ Due.fee \in Nat
      /\ Due.gain \in [Tranches -> Nat]
      /\ Due.gain["Senior"] + Due.gain["Junior"] = Due.net
      /\ \A t \in Tranches : balances.supply[t] = 0 => Due.gain[t] = 0
      /\ DtModel = 0 \/ balances.assets = 0 => Due.net = 0 /\ Due.fee = 0
  BY <1>1, <1>2, <1>4, AccrualSplits DEF Due
<1>6. /\ Accrued.assets = balances.assets + Due.net
      /\ Accrued.nav = [t \in Tranches |-> balances.nav[t] + Due.gain[t]]
      /\ Accrued.supply = balances.supply
      /\ Accrued = [assets |-> Accrued.assets, nav |-> Accrued.nav, supply |-> Accrued.supply]
  BY <1>1 DEF Accrued, AfterAccrual, PoolBalances
<1>7. Accrued \in PoolBalances
  BY <1>0 DEF AccrualFits
<1>8. Accrued.assets = Accrued.nav["Senior"] + Accrued.nav["Junior"]
  BY <1>1, <1>5, <1>6, BalancesAreNatural DEF Solvent, Tranches
<1>9. \A t \in Tranches : /\ Accrued.nav[t] >= balances.nav[t]
                          /\ Accrued.supply[t] = 0 => Accrued.nav[t] = 0
  BY <1>1, <1>5, <1>6, BalancesAreNatural DEF EmptyTrancheHasNothing, Tranches
<1>10. AccruedBase \in [Accounts -> Nat] /\ AccruedBase["vault"] = Accrued.assets
  BY <1>1, <1>5, <1>6, AccountsApart DEF AccruedBase, Solvent
<1>11. DtModel = 0 \/ balances.assets = 0 => Accrued = balances
  <2> SUFFICES ASSUME DtModel = 0 \/ balances.assets = 0 PROVE Accrued = balances
    OBVIOUS
  <2>1. Due.gain["Senior"] = 0 /\ Due.gain["Junior"] = 0
    BY <1>5 DEF Tranches
  <2>2. \A t \in Tranches : balances.nav[t] + Due.gain[t] = balances.nav[t]
    BY <1>1, <2>1, BalancesAreNatural DEF Tranches
  <2>3. Accrued.nav = balances.nav
    BY <1>1, <1>6, <2>2, BalancesAreNatural
  <2>4. Accrued.assets = balances.assets
    BY <1>1, <1>5, <1>6, BalancesAreNatural
  <2> QED
    BY <1>1, <1>6, <2>3, <2>4, BalancesAreNatural
<1> QED
  BY <1>1, <1>4, <1>5, <1>6, <1>7, <1>8, <1>9, <1>10, <1>11

(* The clock's part of every instruction that accrues, and of the loss     *)
(* records that it leaves as they are.                                     *)
LEMMA AccrualMovesClock ==
  ASSUME PoolInv, AccruePool
  PROVE  /\ modelTime' = modelTime + DtModel
         /\ modelTime' \in U64
         /\ modelTime' >= modelTime
         /\ lastAccrued' \in 0 .. MaxClock
         /\ lastAccrued' >= lastAccrued
         /\ lastAccrued' >= clock
         /\ pool' = pool => ModelClockExact'
         /\ events' = events => EventsInOrder'
<1>1. DtModel \in Nat /\ pool # NoPool
  BY AccrualKeepsBooks
<1>2. modelTime \in Nat /\ modelTime' = modelTime + DtModel /\ modelTime' \in U64
  BY ScaleAssumption DEF PoolInv, PoolTypeOK, AccruePool, AccrualFits, U64
<1>3. /\ lastAccrued \in 0 .. MaxClock
      /\ lastAccrued' = Timestamp
      /\ Timestamp \in 0 .. MaxClock
      /\ Timestamp >= lastAccrued
      /\ Timestamp >= clock
  BY PoolAssumption DEF PoolInv, PoolTypeOK, AccruePool, Timestamp
<1>4. pool' = pool => ModelClockExact'
  <2>1. modelTime = pool.params.time_scale * (lastAccrued - pool.created_at)
    BY <1>1 DEF PoolInv, ModelClockExact
  <2>2. pool.params.time_scale \in Nat /\ pool.created_at \in Nat
    BY <1>1, PoolIsRecord, PoolAssumption
  <2>3. modelTime + DtModel = pool.params.time_scale * (Timestamp - pool.created_at)
    BY <1>3, <2>1, <2>2, PoolAssumption, SMT DEF DtModel
  <2> QED
    BY <1>2, <1>3, <2>3 DEF ModelClockExact
<1>5. events' = events => EventsInOrder'
  <2>1. \A i \in DOMAIN events : events[i].model_time \in Nat
    BY ScaleAssumption DEF PoolInv, PoolTypeOK, LossEvent, U64
  <2> QED
    BY <1>1, <1>2, <2>1 DEF PoolInv, EventsInOrder
<1> QED
  BY <1>1, <1>2, <1>3, <1>4, <1>5

-----------------------------------------------------------------------------
(* PoolInv and the shapes a step can have.                                 *)

(* A step that leaves the pool alone and no token in or out of its vault.  *)
LEMMA IdleStep ==
  ASSUME PoolInv,
         UNCHANGED <<pool, balances, modelTime, lastAccrued, lossCount, events>>,
         clock' \in 0 .. MaxClock,
         config' \in Config \cup {NoConfig},
         base' \in TokenAccounts, base'["vault"] = base["vault"],
         minted' \in U64,
         held' \in ShareAccounts
  PROVE  PoolInv'
<1>1. PoolTypeOK'
  BY DEF PoolInv, PoolTypeOK
<1>2. Solvent'
  BY DEF PoolInv, Solvent
<1>3. EmptyTrancheHasNothing' /\ ModelClockExact' /\ EventsInOrder'
  BY DEF PoolInv, EmptyTrancheHasNothing, ModelClockExact, EventsInOrder
<1>4. ParamsAccepted' /\ NothingBeforePool'
  BY DEF PoolInv, ParamsAccepted, NothingBeforePool
<1> QED
  BY <1>1, <1>2, <1>3, <1>4 DEF PoolInv

(* A step that accrues, records no loss and ends with balances that agree  *)
(* with the vault.                                                         *)
LEMMA AccruedStep ==
  ASSUME PoolInv, AccruePool,
         UNCHANGED <<clock, config, pool, lossCount, events>>,
         balances' \in PoolBalances,
         balances'.assets = balances'.nav["Senior"] + balances'.nav["Junior"],
         base'["vault"] = balances'.assets,
         \A t \in Tranches : balances'.supply[t] = 0 => balances'.nav[t] = 0,
         base' \in TokenAccounts,
         minted' \in U64,
         held' \in ShareAccounts
  PROVE  PoolInv'
<1>1. PoolTypeOK'
  BY AccrualMovesClock DEF PoolInv, PoolTypeOK
<1>2. Solvent' /\ EmptyTrancheHasNothing'
  BY DEF Solvent, EmptyTrancheHasNothing
<1>3. ModelClockExact' /\ EventsInOrder'
  BY AccrualMovesClock
<1>4. ParamsAccepted' /\ NothingBeforePool'
  BY AccrualKeepsBooks DEF PoolInv, ParamsAccepted, NothingBeforePool
<1> QED
  BY <1>1, <1>2, <1>3, <1>4 DEF PoolInv

-----------------------------------------------------------------------------
(* PoolInv, instruction by instruction.                                    *)
LEMMA CreatePoolStep ==
  ASSUME PoolInv, NEW signer \in Users, NEW p \in PoolParams, CreatePool(signer, p)
  PROVE  PoolInv'
<1>1. /\ pool = NoPool
      /\ pool' = [operator |-> signer, created_at |-> clock, params |-> p]
      /\ ValidParams(p)
      /\ lastAccrued' = clock /\ modelTime' = 0 /\ lossCount' = 0
      /\ balances' = NoBalances
      /\ UNCHANGED <<clock, config, events, base, minted, held>>
  BY DEF CreatePool
<1>2. balances = NoBalances /\ lossCount = 0
  BY <1>1 DEF PoolInv, NothingBeforePool
<1>3. pool' \in Pool /\ pool' # NoPool
  BY <1>1, AbsentAssumption DEF PoolInv, PoolTypeOK, Pool
<1>4. UNCHANGED <<balances, lossCount>>
  BY <1>1, <1>2
<1>5. DOMAIN events = {}
  BY <1>2, SMT DEF PoolInv, PoolTypeOK
<1>6. PoolTypeOK'
  BY <1>1, <1>3, <1>4, ScaleAssumption DEF PoolInv, PoolTypeOK, U64
<1>7. Solvent' /\ EmptyTrancheHasNothing'
  BY <1>1, <1>4 DEF PoolInv, Solvent, EmptyTrancheHasNothing
<1>8. ModelClockExact'
  <2>1. clock - clock = 0 /\ p.time_scale \in Nat
    BY PoolAssumption DEF PoolInv, PoolTypeOK
  <2> QED
    BY <1>1, <2>1 DEF ModelClockExact
<1>9. EventsInOrder' /\ ParamsAccepted' /\ NothingBeforePool'
  BY <1>1, <1>3, <1>5 DEF EventsInOrder, ParamsAccepted, NothingBeforePool
<1> QED
  BY <1>6, <1>7, <1>8, <1>9 DEF PoolInv

(* The crank, accrue.rs.                                                   *)
LEMMA AccrueStep ==
  ASSUME PoolInv, Accrue
  PROVE  PoolInv'
<1>1. AccruePool /\ AccrualFits
  BY DEF Accrue, AccruePool
<1>2. minted' \in U64 /\ UNCHANGED <<clock, config, pool, lossCount, events, held>>
  BY <1>1 DEF Accrue, AccrualFits
<1>3. held' \in ShareAccounts
  BY <1>2 DEF PoolInv, PoolTypeOK
<1> QED
  BY <1>1, <1>2, <1>3, AccrualKeepsBooks, AccruedStep DEF Accrue

(* What a deposit does to the balances, after the accrual.                 *)
LEMMA DepositEffect ==
  ASSUME PoolInv, NEW owner \in Users, NEW t \in Tranches, NEW amount \in Amounts,
         Deposit(owner, t, amount)
  PROVE  \E shares \in Nat \ {0} :
           /\ shares * Accrued.nav[t] <= amount * Accrued.supply[t]
           /\ balances' = AfterDeposit(Accrued, t, amount, shares)
           /\ balances' \in PoolBalances
           /\ DepositAllowed(t, balances')
           /\ held' = [held EXCEPT ![t][owner] = @ + shares]
<1> DEFINE shares == SharesForDeposit(amount, Accrued.nav[t], Accrued.supply[t])
<1>1. AccruePool /\ shares > 0 /\ balances' = AfterDeposit(Accrued, t, amount, shares)
      /\ balances' \in PoolBalances /\ DepositAllowed(t, balances')
      /\ held' = [held EXCEPT ![t][owner] = @ + shares]
  BY DEF Deposit, DepositAccepts, DepositedShares, DepositedBooks, DepositedBase, DepositedHoldings
<1>2. Accrued.nav[t] \in Nat /\ Accrued.supply[t] \in Nat
      /\ (Accrued.supply[t] = 0 => Accrued.nav[t] = 0)
  BY <1>1, AccrualKeepsBooks, BalancesAreNatural
<1>3. amount \in Nat
  BY PoolAssumption, ScaleAssumption DEF U64
<1>4. shares \in Nat /\ shares * Accrued.nav[t] <= amount * Accrued.supply[t]
  BY <1>2, <1>3, DepositKeepsPrice
<1> HIDE DEF shares
<1>5. shares \in Nat \ {0}
  BY <1>1, <1>4
<1> WITNESS shares \in Nat \ {0}
<1> QED
  BY <1>1, <1>4

(* deposit.rs: the same amount goes into the vault, the assets and one     *)
(* tranche; the shares are never zero, so the tranche is not empty.        *)
LEMMA DepositStep ==
  ASSUME PoolInv, NEW owner \in Users, NEW t \in Tranches, NEW amount \in Amounts,
         Deposit(owner, t, amount)
  PROVE  PoolInv'
<1>1. PICK shares \in Nat \ {0} :
        /\ balances' = AfterDeposit(Accrued, t, amount, shares)
        /\ balances' \in PoolBalances
  BY DepositEffect
<1>2. AccruePool /\ AccrualFits
  BY DEF Deposit, DepositAccepts, DepositedShares, DepositedBooks, DepositedBase,
         DepositedHoldings, AccruePool
<1>3. /\ base' = [AccruedBase EXCEPT ![owner] = @ - amount, !["vault"] = @ + amount]
      /\ base' \in TokenAccounts /\ held' \in ShareAccounts /\ minted' \in U64
      /\ UNCHANGED <<clock, config, pool, lossCount, events>>
  BY <1>2 DEF Deposit, DepositAccepts, DepositedShares, DepositedBooks, DepositedBase,
              DepositedHoldings, AccrualFits
<1>4. amount \in Nat
  BY PoolAssumption, ScaleAssumption DEF U64
<1>5. base'["vault"] = Accrued.assets + amount
  BY <1>2, <1>3, <1>4, AccrualKeepsBooks, AccountsApart
<1>6. /\ balances'.assets = Accrued.assets + amount
      /\ balances'.nav = [Accrued.nav EXCEPT ![t] = @ + amount]
      /\ balances'.supply = [Accrued.supply EXCEPT ![t] = @ + shares]
  BY <1>1 DEF AfterDeposit
<1>7. /\ Accrued.assets \in Nat
      /\ Accrued.nav \in [Tranches -> Nat]
      /\ Accrued.supply \in [Tranches -> Nat]
  BY <1>2, AccrualKeepsBooks, BalancesAreNatural
<1>8. balances'.assets = balances'.nav["Senior"] + balances'.nav["Junior"]
  BY <1>2, <1>4, <1>6, <1>7, AccrualKeepsBooks DEF Tranches
<1>9. \A s \in Tranches : balances'.supply[s] = 0 => balances'.nav[s] = 0
  BY <1>2, <1>4, <1>6, <1>7, AccrualKeepsBooks
<1> QED
  BY <1>1, <1>2, <1>3, <1>5, <1>6, <1>8, <1>9, AccruedStep

(* What a redemption does to the balances, after the accrual.              *)
LEMMA RedeemEffect ==
  ASSUME PoolInv, NEW owner \in Users, NEW t \in Tranches, NEW shares \in Amounts,
         Redeem(owner, t, shares)
  PROVE  \E amount \in Nat :
           /\ amount <= Accrued.nav[t]
           /\ shares \in Nat /\ shares <= Accrued.supply[t]
           /\ amount * Accrued.supply[t] <= shares * Accrued.nav[t]
           /\ shares = Accrued.supply[t] => amount = Accrued.nav[t]
           /\ balances' = AfterRedeem(Accrued, t, shares, amount)
           /\ balances' \in PoolBalances
           /\ RedeemAllowed(t, balances')
           /\ base' = [AccruedBase EXCEPT !["vault"] = @ - amount, ![owner] = @ + amount]
<1> DEFINE amount == AmountForRedeem(shares, Accrued.nav[t], Accrued.supply[t])
<1>1. /\ AccruePool
      /\ shares > 0 /\ shares <= Accrued.supply[t]
      /\ balances' = AfterRedeem(Accrued, t, shares, amount)
      /\ balances' \in PoolBalances
      /\ RedeemAllowed(t, balances')
      /\ base' = [AccruedBase EXCEPT !["vault"] = @ - amount, ![owner] = @ + amount]
  BY DEF Redeem, RedeemAccepts, Redeemed, RedeemedBase
<1>2. Accrued.nav[t] \in Nat /\ Accrued.supply[t] \in Nat
  BY <1>1, AccrualKeepsBooks, BalancesAreNatural
<1>3. shares \in Nat
  BY PoolAssumption, ScaleAssumption DEF U64
<1>4. /\ amount \in 0 .. Accrued.nav[t]
      /\ amount * Accrued.supply[t] <= shares * Accrued.nav[t]
      /\ shares = Accrued.supply[t] /\ Accrued.supply[t] > 0 => amount = Accrued.nav[t]
  BY <1>1, <1>2, <1>3, RedeemKeepsPrice
<1> HIDE DEF amount
<1>5. amount \in Nat /\ amount <= Accrued.nav[t]
  BY <1>2, <1>4
<1> QED
  BY <1>1, <1>3, <1>4, <1>5

(* redeem.rs: the last shares take the last asset with them.               *)
LEMMA RedeemStep ==
  ASSUME PoolInv, NEW owner \in Users, NEW t \in Tranches, NEW shares \in Amounts,
         Redeem(owner, t, shares)
  PROVE  PoolInv'
<1>1. PICK amount \in Nat :
        /\ amount <= Accrued.nav[t]
        /\ shares \in Nat /\ shares <= Accrued.supply[t]
        /\ shares = Accrued.supply[t] => amount = Accrued.nav[t]
        /\ balances' = AfterRedeem(Accrued, t, shares, amount)
        /\ balances' \in PoolBalances
        /\ base' = [AccruedBase EXCEPT !["vault"] = @ - amount, ![owner] = @ + amount]
  BY RedeemEffect
<1>2. AccruePool /\ AccrualFits
  BY DEF Redeem, AccruePool
<1>3. /\ base' \in TokenAccounts /\ held' \in ShareAccounts /\ minted' \in U64
      /\ UNCHANGED <<clock, config, pool, lossCount, events>>
  BY <1>2 DEF Redeem, RedeemAccepts, AccrualFits
<1>4. base'["vault"] = Accrued.assets - amount
  BY <1>1, <1>2, AccrualKeepsBooks, AccountsApart
<1>5. /\ balances'.assets = Accrued.assets - amount
      /\ balances'.nav = [Accrued.nav EXCEPT ![t] = @ - amount]
      /\ balances'.supply = [Accrued.supply EXCEPT ![t] = @ - shares]
  BY <1>1 DEF AfterRedeem
<1>6. /\ Accrued.assets \in Nat
      /\ Accrued.nav \in [Tranches -> Nat]
      /\ Accrued.supply \in [Tranches -> Nat]
  BY <1>2, AccrualKeepsBooks, BalancesAreNatural
<1>7. balances'.assets = balances'.nav["Senior"] + balances'.nav["Junior"]
  BY <1>1, <1>2, <1>5, <1>6, AccrualKeepsBooks DEF Tranches
<1>8. \A s \in Tranches : balances'.supply[s] = 0 => balances'.nav[s] = 0
  BY <1>1, <1>2, <1>5, <1>6, AccrualKeepsBooks
<1> QED
  BY <1>1, <1>2, <1>3, <1>4, <1>5, <1>7, <1>8, AccruedStep

(* What a loss record does: the split the event names is taken from the    *)
(* balances the accrual of the same instruction left.                      *)
LEMMA LossEffect ==
  ASSUME PoolInv, NEW signer \in Users, NEW bps \in LossRates, RecordLoss(signer, bps)
  PROVE  \E amount \in Nat, split \in [Tranches -> Nat] :
           /\ amount <= Accrued.assets
           /\ split["Senior"] + split["Junior"] = amount
           /\ split["Junior"] <= Accrued.nav["Junior"]
           /\ split["Senior"] > 0 => split["Junior"] = Accrued.nav["Junior"]
           /\ balances' = AfterLoss(Accrued, split)
           /\ balances' \in PoolBalances
           /\ base' = [AccruedBase EXCEPT !["vault"] = @ - amount]
           /\ events' = [i \in DOMAIN events \cup {lossCount} |->
                           IF i = lossCount THEN LossRecord(amount, bps, split) ELSE events[i]]
<1> DEFINE amount == LossAmount(Accrued.assets, bps)
           split == ApplyLoss(amount, Accrued)
<1>1. /\ AccruePool
      /\ bps <= BPS
      /\ balances' = AfterLoss(Accrued, split)
      /\ balances' \in PoolBalances
      /\ base' = [AccruedBase EXCEPT !["vault"] = @ - amount]
      /\ events' = [i \in DOMAIN events \cup {lossCount} |->
                      IF i = lossCount THEN LossRecord(amount, bps, split) ELSE events[i]]
  BY DEF RecordLoss, LossAccepts, LossNow, LossSplit, BurnedBase
<1>2. Accrued \in PoolBalances /\ Accrued.assets \in Nat
  BY <1>1, AccrualKeepsBooks, BalancesAreNatural
<1>3. bps \in 0 .. BPS
  BY <1>1, PoolAssumption, ScaleAssumption
<1>4. amount \in Nat /\ amount <= Accrued.assets
  BY <1>2, <1>3, MulBpsIsPart DEF LossAmount
<1> HIDE DEF amount
<1>5. /\ split \in [Tranches -> 0 .. amount]
      /\ split["Senior"] + split["Junior"] = amount
      /\ split["Junior"] <= Accrued.nav["Junior"]
      /\ split["Senior"] > 0 => split["Junior"] = Accrued.nav["Junior"]
  BY <1>2, <1>4, LossSplits
<1> HIDE DEF split
<1>6. split \in [Tranches -> Nat]
  BY <1>4, <1>5
<1> QED
  BY <1>1, <1>4, <1>5, <1>6

(* record_loss.rs: what is burned from the vault is what the two tranches  *)
(* lose, and the record is the newest of all.                              *)
LEMMA RecordLossStep ==
  ASSUME PoolInv, NEW signer \in Users, NEW bps \in LossRates, lossCount < MaxLosses,
         RecordLoss(signer, bps)
  PROVE  PoolInv'
<1>1. PICK amount \in Nat, split \in [Tranches -> Nat] :
        /\ amount <= Accrued.assets
        /\ split["Senior"] + split["Junior"] = amount
        /\ balances' = AfterLoss(Accrued, split)
        /\ balances' \in PoolBalances
        /\ base' = [AccruedBase EXCEPT !["vault"] = @ - amount]
        /\ events' = [i \in DOMAIN events \cup {lossCount} |->
                        IF i = lossCount THEN LossRecord(amount, bps, split) ELSE events[i]]
  BY LossEffect
<1>2. /\ AccruePool
      /\ bps <= BPS
      /\ base' \in TokenAccounts /\ minted' \in U64
      /\ lossCount' = lossCount + 1
      /\ UNCHANGED <<clock, config, pool, held>>
  BY DEF RecordLoss, LossAccepts, LossNow, LossSplit, BurnedBase
<1> DEFINE e == LossRecord(amount, bps, split)
<1>3. /\ Accrued.assets \in U64
      /\ Accrued.assets \in Nat
      /\ \A t \in Tranches : Accrued.nav[t] \in Nat /\ Accrued.supply[t] \in Nat
  BY <1>2, AccrualKeepsBooks, BalancesAreNatural DEF PoolBalances
<1>4. e \in LossEvent /\ e.model_time = modelTime'
  <2>1. Timestamp \in 0 .. MaxClock
    BY PoolAssumption DEF PoolInv, PoolTypeOK, Timestamp
  <2>2. modelTime + DtModel \in U64 /\ modelTime' = modelTime + DtModel
    BY <1>2, AccrualMovesClock
  <2>3. amount \in U64 /\ split["Junior"] \in U64 /\ split["Senior"] \in U64
    BY <1>1, <1>3, ScaleAssumption DEF U64, Tranches
  <2>4. bps \in 0 .. BPS
    BY <1>2, PoolAssumption, ScaleAssumption
  <2> QED
    BY <1>3, <2>1, <2>2, <2>3, <2>4 DEF LossRecord, LossEvent
<1> HIDE DEF e
<1>5. /\ lossCount \in 0 .. MaxLosses
      /\ events \in [0 .. lossCount - 1 -> LossEvent]
  BY DEF PoolInv, PoolTypeOK
<1>6. events' \in [0 .. lossCount' - 1 -> LossEvent]
  <2>1. (0 .. lossCount - 1) \cup {lossCount} = 0 .. lossCount' - 1
    BY <1>2, <1>5, PoolAssumption
  <2> QED
    BY <1>1, <1>4, <1>5, <2>1 DEF e
<1>7. PoolTypeOK'
  <2>1. lossCount' \in 0 .. MaxLosses
    BY <1>2, <1>5, PoolAssumption
  <2>2. modelTime' \in U64 /\ lastAccrued' \in 0 .. MaxClock
    BY <1>2, AccrualMovesClock
  <2> QED
    BY <1>1, <1>2, <1>6, <2>1, <2>2 DEF PoolInv, PoolTypeOK
<1>8. /\ balances'.assets = Accrued.assets - amount
      /\ balances'.nav = [t \in Tranches |-> Accrued.nav[t] - split[t]]
      /\ balances'.supply = Accrued.supply
  BY <1>1 DEF AfterLoss
<1>9. Solvent'
  <2>1. base'["vault"] = Accrued.assets - amount
    BY <1>1, <1>2, AccrualKeepsBooks, AccountsApart
  <2>2. balances'.assets = balances'.nav["Senior"] + balances'.nav["Junior"]
    BY <1>1, <1>2, <1>3, <1>8, AccrualKeepsBooks DEF Tranches
  <2> QED
    BY <1>8, <2>1, <2>2 DEF Solvent
<1>10. EmptyTrancheHasNothing'
  <2> SUFFICES ASSUME NEW t \in Tranches, balances'.supply[t] = 0
               PROVE  balances'.nav[t] = 0
    BY DEF EmptyTrancheHasNothing
  <2>1. Accrued.nav[t] = 0 /\ split[t] \in Nat
    BY <1>2, <1>8, AccrualKeepsBooks
  <2>2. balances'.nav[t] \in Nat
    BY <1>1, ScaleAssumption DEF PoolBalances, U64
  <2> QED
    BY <1>8, <2>1, <2>2
<1>11. ModelClockExact'
  BY <1>2, AccrualMovesClock
<1>12. EventsInOrder'
  <2>1. \A i \in DOMAIN events : events[i].model_time \in Nat /\ events[i].model_time <= modelTime
    BY <1>5, ScaleAssumption DEF PoolInv, EventsInOrder, LossEvent, U64
  <2>2. modelTime \in Nat /\ modelTime' \in Nat /\ modelTime <= modelTime'
    BY <1>2, AccrualMovesClock, ScaleAssumption DEF PoolInv, PoolTypeOK, U64
  <2>3. DOMAIN events = 0 .. lossCount - 1 /\ DOMAIN events' = DOMAIN events \cup {lossCount}
    BY <1>1, <1>5
  <2>4. events'[lossCount] = e /\ \A i \in DOMAIN events : events'[i] = events[i]
    BY <1>1, <2>3, <1>5 DEF e
  <2>5. \A i \in DOMAIN events' : events'[i].model_time <= modelTime'
    BY <1>4, <2>1, <2>2, <2>3, <2>4
  <2>6. ASSUME NEW i \in DOMAIN events', NEW j \in DOMAIN events', i < j
        PROVE  events'[i].model_time <= events'[j].model_time
    <3>1. CASE j = lossCount
      BY <1>4, <2>4, <2>5, <3>1
    <3>2. CASE j # lossCount
      <4>1. i \in DOMAIN events /\ j \in DOMAIN events
        BY <1>5, <2>3, <2>6, <3>2
      <4> QED
        BY <2>4, <2>6, <4>1 DEF PoolInv, EventsInOrder
    <3> QED
      BY <3>1, <3>2
  <2> QED
    BY <2>5, <2>6 DEF EventsInOrder
<1>13. ParamsAccepted' /\ NothingBeforePool'
  BY <1>2, AccrualKeepsBooks DEF PoolInv, ParamsAccepted, NothingBeforePool
<1> QED
  BY <1>7, <1>9, <1>10, <1>11, <1>12, <1>13 DEF PoolInv

(* The wallets' own transfers and the clock.                               *)
LEMMA OutsideStep ==
  ASSUME PoolInv,
         \/ ClockMoves
         \/ \E u \in Users, cap \in FaucetCaps : InitConfig(u, cap)
         \/ \E u \in Users, amount \in Amounts : Faucet(u, amount)
         \/ \E amount \in Amounts : CollectFees(amount)
         \/ UNCHANGED poolVars
  PROVE  PoolInv'
<1> USE DEF PoolInv, PoolTypeOK
<1>1. CASE ClockMoves
  BY <1>1, IdleStep DEF ClockMoves
<1>2. ASSUME NEW u \in Users, NEW cap \in FaucetCaps, InitConfig(u, cap)
      PROVE  PoolInv'
  BY <1>2, IdleStep, PoolAssumption DEF InitConfig, Config
<1>3. ASSUME NEW u \in Users, NEW amount \in Amounts, Faucet(u, amount)
      PROVE  PoolInv'
  <2>1. base'["vault"] = base["vault"]
    BY <1>3, AccountsApart DEF Faucet, TokenAccounts
  <2> QED
    BY <1>3, <2>1, IdleStep DEF Faucet
<1>4. ASSUME NEW amount \in Amounts, CollectFees(amount)
      PROVE  PoolInv'
  <2>1. config.authority \in Users
    BY <1>4 DEF CollectFees, Config
  <2>2. base'["vault"] = base["vault"]
    BY <1>4, <2>1, AccountsApart DEF CollectFees, TokenAccounts
  <2> QED
    BY <1>4, <2>2, IdleStep DEF CollectFees
<1>5. CASE UNCHANGED poolVars
  BY <1>5, IdleStep DEF poolVars
<1> QED
  BY <1>1, <1>2, <1>3, <1>4, <1>5

(* PoolInv holds before any account exists.                                *)
LEMMA PoolInvInit == PoolInit => PoolInv
<1> SUFFICES ASSUME PoolInit PROVE PoolInv
  OBVIOUS
<1>1. 0 \in U64 /\ NoBalances \in PoolBalances
  BY ScaleAssumption DEF NoBalances, PoolBalances, U64
<1>2. 0 .. lossCount - 1 = {}
  BY DEF PoolInit
<1>3. PoolTypeOK
  BY <1>1, <1>2, PoolAssumption DEF PoolInit, PoolTypeOK, TokenAccounts, ShareAccounts
<1>4. Solvent /\ EmptyTrancheHasNothing
  BY AccountsApart DEF PoolInit, Solvent, EmptyTrancheHasNothing, NoBalances, Tranches
<1>5. ModelClockExact /\ EventsInOrder /\ ParamsAccepted /\ NothingBeforePool
  BY DEF PoolInit, ModelClockExact, EventsInOrder, ParamsAccepted, NothingBeforePool
<1> QED
  BY <1>3, <1>4, <1>5 DEF PoolInv

(* Every instruction of the pool keeps PoolInv.                            *)
LEMMA PoolInvNext == PoolInv /\ [PoolNext]_poolVars => PoolInv'
<1> SUFFICES ASSUME PoolInv, [PoolNext]_poolVars PROVE PoolInv'
  OBVIOUS
<1>1. ASSUME NEW u \in Users, NEW p \in PoolParams, CreatePool(u, p)
      PROVE  PoolInv'
  BY <1>1, CreatePoolStep
<1>2. CASE Accrue
  BY <1>2, AccrueStep
<1>3. ASSUME NEW u \in Users, NEW t \in Tranches, NEW amount \in Amounts, Deposit(u, t, amount)
      PROVE  PoolInv'
  BY <1>3, DepositStep
<1>4. ASSUME NEW u \in Users, NEW t \in Tranches, NEW shares \in Amounts, Redeem(u, t, shares)
      PROVE  PoolInv'
  BY <1>4, RedeemStep
<1>5. ASSUME lossCount < MaxLosses, NEW u \in Users, NEW bps \in LossRates, RecordLoss(u, bps)
      PROVE  PoolInv'
  BY <1>5, RecordLossStep
<1> QED
  BY <1>1, <1>2, <1>3, <1>4, <1>5, OutsideStep DEF PoolNext

-----------------------------------------------------------------------------
(* PoolInv holds in every state of the pool, whatever its parameters and   *)
(* however many users there are.                                           *)
THEOREM PoolInvariant == PoolSpec => []PoolInv
BY PoolInvInit, PoolInvNext, PTL DEF PoolSpec

(* Every account of the program keeps its type, so no instruction is ever  *)
(* left with a number it cannot store; the loss records are without gaps.  *)
THEOREM PoolTypeCorrect == PoolSpec => []PoolTypeOK
<1>1. PoolInv => PoolTypeOK
  BY DEF PoolInv
<1> QED
  BY <1>1, PoolInvariant, PTL

(* The vault holds exactly the assets, and the assets are what the two     *)
(* tranches have.                                                          *)
THEOREM PoolIsSolvent == PoolSpec => []Solvent
<1>1. PoolInv => Solvent
  BY DEF PoolInv
<1> QED
  BY <1>1, PoolInvariant, PTL

(* An empty tranche leaves nothing to the next depositor.                  *)
THEOREM EmptyTrancheHoldsNothing == PoolSpec => []EmptyTrancheHasNothing
<1>1. PoolInv => EmptyTrancheHasNothing
  BY DEF PoolInv
<1> QED
  BY <1>1, PoolInvariant, PTL

(* The model clock counts every second of the chain once.                  *)
THEOREM ModelClockIsExact == PoolSpec => []ModelClockExact
<1>1. PoolInv => ModelClockExact
  BY DEF PoolInv
<1> QED
  BY <1>1, PoolInvariant, PTL

(* The index of a loss record stands for its place in time.                *)
THEOREM EventsAreInOrder == PoolSpec => []EventsInOrder
<1>1. PoolInv => EventsInOrder
  BY DEF PoolInv
<1> QED
  BY <1>1, PoolInvariant, PTL

(* No round trip through a tranche gains, because an empty tranche holds   *)
(* nothing and the quotients round down both ways.                         *)
THEOREM RoundTripIsSafe == PoolSpec => []RoundTripNeverGains
<1>1. PoolInv => RoundTripNeverGains
  <2> SUFFICES ASSUME PoolInv, NEW t \in Tranches, NEW amount \in Amounts
               PROVE  LET shares == SharesForDeposit(amount, balances.nav[t], balances.supply[t])
                      IN  AmountForRedeem(shares, balances.nav[t] + amount,
                                          balances.supply[t] + shares) <= amount
    BY DEF RoundTripNeverGains
  <2>1. /\ balances.nav[t] \in Nat
        /\ balances.supply[t] \in Nat
        /\ balances.supply[t] = 0 => balances.nav[t] = 0
    BY BalancesAreNatural DEF PoolInv, PoolTypeOK, EmptyTrancheHasNothing
  <2>2. amount \in Nat
    BY PoolAssumption, ScaleAssumption DEF U64
  <2> QED
    BY <2>1, <2>2, RoundTrip
<1> QED
  BY <1>1, PoolInvariant, PTL

-----------------------------------------------------------------------------
(* What a step never does.                                                 *)

(* The steps that leave the balances and the loss records alone.           *)
LEMMA OutsideLeavesBalances ==
  ASSUME PoolInv,
         \/ ClockMoves
         \/ \E u \in Users, cap \in FaucetCaps : InitConfig(u, cap)
         \/ \E u \in Users, amount \in Amounts : Faucet(u, amount)
         \/ \E u \in Users, p \in PoolParams : CreatePool(u, p)
         \/ \E amount \in Amounts : CollectFees(amount)
         \/ UNCHANGED poolVars
  PROVE  /\ UNCHANGED <<balances, lossCount>>
         /\ pool # NoPool => UNCHANGED pool
BY DEF ClockMoves, InitConfig, Faucet, CreatePool, CollectFees, poolVars,
       PoolInv, NothingBeforePool

(* A share of a tranche is worth no less after a step that records no      *)
(* loss.                                                                   *)
LEMMA PriceStep ==
  ASSUME PoolInv, [PoolNext]_poolVars, lossCount' = lossCount, NEW t \in Tranches
  PROVE  balances'.nav[t] * balances.supply[t] >= balances.nav[t] * balances'.supply[t]
<1> DEFINE Goal == balances'.nav[t] * balances.supply[t] >= balances.nav[t] * balances'.supply[t]
           n == balances.nav[t]
           m == Accrued.nav[t]
           s == balances.supply[t]
<1>0. n \in Nat /\ s \in Nat
  BY BalancesAreNatural DEF PoolInv, PoolTypeOK
<1>1. CASE UNCHANGED balances
  BY <1>0, <1>1, SMT
<1>2. AccruePool => m \in Nat /\ m >= n /\ Accrued.supply[t] = s /\ Accrued \in PoolBalances
  BY AccrualKeepsBooks, BalancesAreNatural
<1>3. CASE Accrue
  <2>1. balances'.nav[t] = m /\ balances'.supply[t] = s /\ AccruePool
    BY <1>2, <1>3 DEF Accrue
  <2> QED
    BY <1>0, <1>2, <2>1, SMT
<1>4. ASSUME NEW u \in Users, NEW r \in Tranches, NEW amount \in Amounts, Deposit(u, r, amount)
      PROVE  Goal
  <2>0. AccruePool /\ amount \in Nat
    BY <1>4, PoolAssumption, ScaleAssumption
       DEF Deposit, DepositAccepts, DepositedShares, DepositedBooks, DepositedBase,
           DepositedHoldings, U64
  <2>1. PICK shares \in Nat \ {0} :
          /\ shares * Accrued.nav[r] <= amount * Accrued.supply[r]
          /\ balances' = AfterDeposit(Accrued, r, amount, shares)
    BY <1>4, DepositEffect
  <2>2. CASE r = t
    <3>1. balances'.nav[t] = m + amount /\ balances'.supply[t] = s + shares
      BY <1>2, <2>0, <2>1, <2>2, BalancesAreNatural DEF AfterDeposit
    <3>2. shares * m <= amount * s
      BY <1>2, <2>0, <2>1, <2>2
    <3>3. (m + amount) * s >= m * (s + shares)
      BY <1>0, <1>2, <2>0, <3>2, SMT
    <3>4. m * (s + shares) >= n * (s + shares)
      BY <1>0, <1>2, <2>0, SMT
    <3> HIDE DEF n, m, s
    <3>5. (m + amount) * s \in Int /\ m * (s + shares) \in Int /\ n * (s + shares) \in Int
      BY <1>0, <1>2, <2>0, SMT
    <3>6. (m + amount) * s >= n * (s + shares)
      BY <3>3, <3>4, <3>5, SMT
    <3> QED
      BY <3>1, <3>6 DEF n, s
  <2>3. CASE r # t
    <3>1. balances'.nav[t] = m /\ balances'.supply[t] = s
      BY <1>2, <2>0, <2>1, <2>3, BalancesAreNatural DEF AfterDeposit
    <3> QED
      BY <1>0, <1>2, <2>0, <3>1, SMT
  <2> QED
    BY <2>2, <2>3
<1>5. ASSUME NEW u \in Users, NEW r \in Tranches, NEW shares \in Amounts, Redeem(u, r, shares)
      PROVE  Goal
  <2>0. AccruePool
    BY <1>5 DEF Redeem
  <2>1. PICK amount \in Nat :
          /\ amount <= Accrued.nav[r]
          /\ shares \in Nat /\ shares <= Accrued.supply[r]
          /\ amount * Accrued.supply[r] <= shares * Accrued.nav[r]
          /\ balances' = AfterRedeem(Accrued, r, shares, amount)
    BY <1>5, RedeemEffect
  <2>2. CASE r = t
    <3>1. balances'.nav[t] = m - amount /\ balances'.supply[t] = s - shares
      BY <1>2, <2>0, <2>1, <2>2, BalancesAreNatural DEF AfterRedeem
    <3>2. amount * s <= shares * m /\ amount <= m /\ shares <= s
      BY <1>2, <2>0, <2>1, <2>2
    <3>3. (m - amount) * s >= m * (s - shares)
      BY <1>0, <1>2, <2>0, <2>1, <3>2, SMT
    <3>4. m * (s - shares) >= n * (s - shares)
      BY <1>0, <1>2, <2>0, <2>1, <3>2, SMT
    <3> HIDE DEF n, m, s
    <3>5. (m - amount) * s \in Int /\ m * (s - shares) \in Int /\ n * (s - shares) \in Int
      BY <1>0, <1>2, <2>0, <2>1, SMT
    <3>6. (m - amount) * s >= n * (s - shares)
      BY <3>3, <3>4, <3>5, SMT
    <3> QED
      BY <3>1, <3>6 DEF n, s
  <2>3. CASE r # t
    <3>1. balances'.nav[t] = m /\ balances'.supply[t] = s
      BY <1>2, <2>0, <2>1, <2>3, BalancesAreNatural DEF AfterRedeem
    <3> QED
      BY <1>0, <1>2, <2>0, <3>1, SMT
  <2> QED
    BY <2>2, <2>3
<1>6. ASSUME NEW u \in Users, NEW bps \in LossRates, RecordLoss(u, bps)
      PROVE  FALSE
  BY <1>6 DEF RecordLoss, LossAccepts, LossNow, LossSplit, BurnedBase, PoolInv, PoolTypeOK
<1> QED
  BY <1>1, <1>3, <1>4, <1>5, <1>6, OutsideLeavesBalances DEF PoolNext

(* No deposit, redemption or accrual lowers the price of a share           *)
(* (shares_for_deposit and amount_for_redeem round for the pool).          *)
THEOREM SharesAreNotDiluted == PoolSpec => PriceFallsOnlyByLoss
<1>1. PoolInv /\ [PoolNext]_poolVars =>
        (lossCount' = lossCount =>
           \A t \in Tranches :
             balances'.nav[t] * balances.supply[t] >= balances.nav[t] * balances'.supply[t])
  BY PriceStep
<1> QED
  BY <1>1, PoolInvariant, PTL DEF PoolSpec, PriceFallsOnlyByLoss

(* The step that adds a loss record takes the loss from junior first, and  *)
(* its record says what became of the balances.                            *)
LEMMA LossStep ==
  ASSUME PoolInv, [PoolNext]_poolVars, lossCount' # lossCount
  PROVE  LET e == events'[lossCount]
         IN  /\ e.senior_loss > 0 => balances'.nav["Junior"] = 0
             /\ e.junior_loss + e.senior_loss = e.amount
             /\ balances'.assets = e.assets_before - e.amount
             /\ balances'.nav["Senior"] >= balances.nav["Senior"] - e.senior_loss
<1>1. PICK u \in Users, bps \in LossRates : RecordLoss(u, bps)
  <2>1. ~ Accrue /\ ~ UNCHANGED poolVars
    BY DEF Accrue, poolVars
  <2>2. \A u \in Users, t \in Tranches, amount \in Amounts :
          ~ Deposit(u, t, amount) /\ ~ Redeem(u, t, amount)
    BY DEF Deposit, DepositAccepts, DepositedShares, DepositedBooks, DepositedBase,
           DepositedHoldings, Redeem
  <2> QED
    BY <2>1, <2>2, OutsideLeavesBalances DEF PoolNext
<1>2. PICK amount \in Nat, split \in [Tranches -> Nat] :
        /\ split["Senior"] + split["Junior"] = amount
        /\ split["Senior"] > 0 => split["Junior"] = Accrued.nav["Junior"]
        /\ balances' = AfterLoss(Accrued, split)
        /\ events' = [i \in DOMAIN events \cup {lossCount} |->
                        IF i = lossCount THEN LossRecord(amount, bps, split) ELSE events[i]]
  BY <1>1, LossEffect
<1>3. AccruePool
  BY <1>1 DEF RecordLoss, LossAccepts, LossNow, LossSplit, BurnedBase
<1>4. events'[lossCount] = LossRecord(amount, bps, split)
  BY <1>2
<1>5. /\ balances'.assets = Accrued.assets - amount
      /\ balances'.nav["Junior"] = Accrued.nav["Junior"] - split["Junior"]
      /\ balances'.nav["Senior"] = Accrued.nav["Senior"] - split["Senior"]
  BY <1>2 DEF AfterLoss, Tranches
<1>6. /\ Accrued.nav["Senior"] >= balances.nav["Senior"]
      /\ Accrued.nav["Senior"] \in Nat /\ Accrued.nav["Junior"] \in Nat
      /\ balances.nav["Senior"] \in Nat
  BY <1>3, AccrualKeepsBooks, BalancesAreNatural DEF PoolInv, PoolTypeOK, Tranches
<1>7. split["Senior"] \in Nat /\ split["Junior"] \in Nat
  BY <1>2 DEF Tranches
<1> QED
  BY <1>2, <1>4, <1>5, <1>6, <1>7 DEF LossRecord

(* A loss record takes from senior only what junior could not bear, and    *)
(* says of the balances what became of them (record_loss.rs).              *)
THEOREM JuniorLosesFirst == PoolSpec => JuniorFirst
<1>1. PoolInv /\ [PoolNext]_poolVars =>
        (lossCount' # lossCount =>
           LET e == events'[lossCount]
           IN  /\ e.senior_loss > 0 => balances'.nav["Junior"] = 0
               /\ e.junior_loss + e.senior_loss = e.amount
               /\ balances'.assets = e.assets_before - e.amount
               /\ balances'.nav["Senior"] >= balances.nav["Senior"] - e.senior_loss)
  BY LossStep
<1> QED
  BY <1>1, PoolInvariant, PTL DEF PoolSpec, JuniorFirst

(* A step that is no loss leaves junior its floor, or as large a part as   *)
(* the accrual did: what junior pays in or senior takes out only adds to   *)
(* junior's part.                                                          *)
LEMMA FloorStep ==
  ASSUME PoolInv, [PoolNext]_poolVars, pool # NoPool, balances' # balances,
         lossCount' = lossCount
  PROVE  \/ SubordinationOk(balances', pool.params.min_junior_bps)
         \/ balances'.nav["Junior"] * (Accrued.nav["Senior"] + Accrued.nav["Junior"])
              >= Accrued.nav["Junior"] * (balances'.nav["Senior"] + balances'.nav["Junior"])
<1> DEFINE S == Accrued.nav["Senior"]
           J == Accrued.nav["Junior"]
           Goal == \/ SubordinationOk(balances', pool.params.min_junior_bps)
                   \/ balances'.nav["Junior"] * (S + J)
                        >= J * (balances'.nav["Senior"] + balances'.nav["Junior"])
<1>1. AccruePool => S \in Nat /\ J \in Nat /\ Accrued \in PoolBalances
  BY AccrualKeepsBooks, BalancesAreNatural DEF Tranches
<1>2. CASE Accrue
  <2>1. balances' = Accrued /\ AccruePool
    BY <1>2 DEF Accrue
  <2>2. J * (S + J) \in Int
    BY <1>1, <2>1
  <2> QED
    BY <2>1, <2>2
<1>3. ASSUME NEW u \in Users, NEW t \in Tranches, NEW amount \in Amounts, Deposit(u, t, amount)
      PROVE  Goal
  <2>0. AccruePool /\ amount \in Nat
    BY <1>3, PoolAssumption, ScaleAssumption
       DEF Deposit, DepositAccepts, DepositedShares, DepositedBooks, DepositedBase,
           DepositedHoldings, U64
  <2>1. PICK shares \in Nat \ {0} :
          /\ balances' = AfterDeposit(Accrued, t, amount, shares)
          /\ DepositAllowed(t, balances')
    BY <1>3, DepositEffect
  <2>2. CASE t = "Senior"
    BY <2>1, <2>2 DEF DepositAllowed
  <2>3. CASE t = "Junior"
    <3>1. balances'.nav["Junior"] = J + amount /\ balances'.nav["Senior"] = S
      BY <1>1, <2>0, <2>1, <2>3, BalancesAreNatural DEF AfterDeposit, Tranches
    <3> HIDE DEF S, J
    <3>2. (J + amount) * (S + J) = J * (S + (J + amount)) + amount * S
      BY <1>1, <2>0, SMT
    <3>3. amount * S \in Nat /\ J * (S + (J + amount)) \in Nat
      BY <1>1, <2>0
    <3> QED
      BY <3>1, <3>2, <3>3
  <2> QED
    BY <2>2, <2>3 DEF Tranches
<1>4. ASSUME NEW u \in Users, NEW t \in Tranches, NEW shares \in Amounts, Redeem(u, t, shares)
      PROVE  Goal
  <2>0. AccruePool
    BY <1>4 DEF Redeem
  <2>1. PICK amount \in Nat :
          /\ amount <= Accrued.nav[t]
          /\ balances' = AfterRedeem(Accrued, t, shares, amount)
          /\ RedeemAllowed(t, balances')
    BY <1>4, RedeemEffect
  <2>2. CASE t = "Junior"
    BY <2>1, <2>2 DEF RedeemAllowed
  <2>3. CASE t = "Senior"
    <3>1. balances'.nav["Junior"] = J /\ balances'.nav["Senior"] = S - amount /\ amount <= S
      BY <1>1, <2>0, <2>1, <2>3, BalancesAreNatural DEF AfterRedeem, Tranches
    <3> HIDE DEF S, J
    <3>2. J * (S + J) = J * ((S - amount) + J) + J * amount
      BY <1>1, <2>0, <2>1, SMT
    <3>3. J * amount \in Nat /\ J * ((S - amount) + J) \in Nat
      BY <1>1, <2>0, <2>1, <3>1
    <3> QED
      BY <3>1, <3>2, <3>3
  <2> QED
    BY <2>2, <2>3 DEF Tranches
<1>5. ASSUME NEW u \in Users, NEW bps \in LossRates, RecordLoss(u, bps)
      PROVE  FALSE
  BY <1>5 DEF RecordLoss, LossAccepts, LossNow, LossSplit, BurnedBase, PoolInv, PoolTypeOK
<1> QED
  BY <1>2, <1>3, <1>4, <1>5, OutsideLeavesBalances DEF PoolNext

(* Deposits and redemptions do not thin out junior below its floor, on the *)
(* balances of their moment (the checks of deposit.rs and redeem.rs).      *)
THEOREM FloorIsHeld == PoolSpec => FloorHeld
<1>1. PoolInv /\ [PoolNext]_poolVars =>
        (/\ pool # NoPool /\ balances' # balances
         /\ lossCount' = lossCount
         => \/ SubordinationOk(balances', pool.params.min_junior_bps)
            \/ balances'.nav["Junior"] * (Accrued.nav["Senior"] + Accrued.nav["Junior"])
                 >= Accrued.nav["Junior"] * (balances'.nav["Senior"] + balances'.nav["Junior"]))
  BY FloorStep
<1> QED
  BY <1>1, PoolInvariant, PTL DEF PoolSpec, FloorHeld

(* No instruction moves a pool whose tranches are both wiped out.          *)
LEMMA DeadStep ==
  ASSUME PoolInv, [PoolNext]_poolVars,
         \A t \in Tranches : WipedOut(balances.nav[t], balances.supply[t])
  PROVE  balances' = balances /\ lossCount' = lossCount
<1>1. \A t \in Tranches : balances.nav[t] = 0 /\ balances.supply[t] \in Nat \ {0}
  BY BalancesAreNatural DEF WipedOut, PoolInv, PoolTypeOK
<1>2. balances.assets = 0
  BY <1>1 DEF PoolInv, Solvent, Tranches
<1>3. AccruePool => Accrued = balances
  BY <1>2, AccrualKeepsBooks
<1>4. CASE Accrue
  BY <1>3, <1>4 DEF Accrue
<1>5. ASSUME NEW u \in Users, NEW t \in Tranches, NEW amount \in Amounts, Deposit(u, t, amount)
      PROVE  FALSE
  <2>1. SharesForDeposit(amount, balances.nav[t], balances.supply[t]) > 0
    BY <1>3, <1>5 DEF Deposit, DepositAccepts, DepositedShares, DepositedBooks, DepositedBase,
                      DepositedHoldings
  <2> QED
    BY <1>1, <2>1 DEF SharesForDeposit
<1>6. ASSUME NEW u \in Users, NEW t \in Tranches, NEW shares \in Amounts, Redeem(u, t, shares)
      PROVE  FALSE
  <2>1. AmountForRedeem(shares, balances.nav[t], balances.supply[t]) > 0
    BY <1>3, <1>6 DEF Redeem, RedeemAccepts, Redeemed
  <2>2. shares * 0 = 0 /\ 0 \div balances.supply[t] = 0
    BY <1>1, PoolAssumption, ScaleAssumption, SMT DEF U64
  <2> QED
    BY <1>1, <2>1, <2>2 DEF AmountForRedeem
<1>7. ASSUME NEW u \in Users, NEW bps \in LossRates, RecordLoss(u, bps)
      PROVE  FALSE
  <2>1. LossAmount(0, bps) > 0 /\ bps <= BPS
    BY <1>2, <1>3, <1>7 DEF RecordLoss, LossAccepts, LossNow, LossSplit, BurnedBase
  <2>2. bps \in 0 .. BPS
    BY <2>1, PoolAssumption, ScaleAssumption
  <2> QED
    BY <2>1, <2>2, MulBpsIsPart DEF LossAmount
<1> QED
  BY <1>4, <1>5, <1>6, <1>7, OutsideLeavesBalances DEF PoolNext

(* Two wiped out tranches stop the pool for good: no yield, no deposit, no *)
(* redemption, no loss.                                                    *)
THEOREM WipedPoolStaysDead == PoolSpec => WipedPoolIsDead
<1>1. PoolInv /\ [PoolNext]_poolVars =>
        ((\A t \in Tranches : WipedOut(balances.nav[t], balances.supply[t]))
           => balances' = balances /\ lossCount' = lossCount)
  BY DeadStep
<1> QED
  BY <1>1, PoolInvariant, PTL DEF PoolSpec, WipedPoolIsDead
-----------------------------------------------------------------------------
(* Totals of any function.  Adding up by counting units (Totals.tla) makes *)
(* every fact about a sum a fact about the cardinality of a union: none of *)
(* them needs an induction.                                                *)

(* The units of one argument are as many as its value.                     *)
LEMMA UnitsOfOne ==
  ASSUME NEW x, NEW n \in Nat
  PROVE  /\ IsFiniteSet({x} \X (1 .. n))
         /\ Cardinality({x} \X (1 .. n)) = n
<1>1. IsFiniteSet({x}) /\ Cardinality({x}) = 1
  BY FS_Singleton
<1>2. IsFiniteSet(1 .. n) /\ Cardinality(1 .. n) = n
  BY FS_Interval
<1>3. /\ IsFiniteSet({x} \X (1 .. n))
      /\ Cardinality({x} \X (1 .. n)) = Cardinality({x}) * Cardinality(1 .. n)
  BY <1>1, <1>2, FS_Product
<1> QED
  BY <1>1, <1>2, <1>3

(* A function with natural values on a finite set has a total.             *)
LEMMA TotalIsNatural ==
  ASSUME NEW S, IsFiniteSet(S), NEW f, \A x \in S : f[x] \in Nat
  PROVE  IsFiniteSet(Units(f, S)) /\ Total(f, S) \in Nat
<1> DEFINE T == {{x} \X (1 .. f[x]) : x \in S}
           h == [x \in S |-> {x} \X (1 .. f[x])]
<1>1. h \in Surjection(S, T)
  BY DEF Surjection
<1>2. IsFiniteSet(T)
  BY <1>1, FS_Surjection
<1>3. \A x \in S : IsFiniteSet({x} \X (1 .. f[x]))
  BY UnitsOfOne
<1>4. IsFiniteSet(UNION T)
  BY <1>2, <1>3, FS_UNION
<1> QED
  BY <1>4, FS_CardinalityType DEF Units, Total

(* Only the values on the set count.                                       *)
LEMMA TotalOfSame ==
  ASSUME NEW S, NEW f, NEW g, \A x \in S : f[x] = g[x]
  PROVE  Total(f, S) = Total(g, S)
<1>1. Units(f, S) = Units(g, S)
  BY DEF Units
<1> QED
  BY <1>1 DEF Total

(* One argument adds its value to the total of the others.                 *)
LEMMA TotalSplits ==
  ASSUME NEW S, IsFiniteSet(S), NEW f, \A y \in S : f[y] \in Nat, NEW x \in S
  PROVE  Total(f, S) = Total(f, S \ {x}) + f[x]
<1> DEFINE U == Units(f, S \ {x})
           V == {x} \X (1 .. f[x])
<1>1. Units(f, S) = U \cup V
  BY DEF Units
<1>2. U \cap V = {}
  BY DEF Units
<1>3. IsFiniteSet(S \ {x})
  BY FS_RemoveElement
<1>4. IsFiniteSet(U) /\ Cardinality(U) \in Nat
  BY <1>3, TotalIsNatural DEF Total
<1>5. IsFiniteSet(V) /\ Cardinality(V) = f[x]
  BY UnitsOfOne
<1> HIDE DEF U, V
<1>6. Cardinality(U \cup V) = Cardinality(U) + Cardinality(V) - Cardinality(U \cap V)
  BY <1>4, <1>5, FS_Union
<1>7. Cardinality(U \cap V) = 0
  BY <1>2, FS_EmptySet
<1> QED
  BY <1>1, <1>4, <1>5, <1>6, <1>7 DEF Total, U

(* A total is no less than any of its values.                              *)
LEMMA TotalAbove ==
  ASSUME NEW S, IsFiniteSet(S), NEW f, \A y \in S : f[y] \in Nat, NEW x \in S
  PROVE  f[x] <= Total(f, S)
<1>1. IsFiniteSet(S \ {x})
  BY FS_RemoveElement
<1>2. Total(f, S \ {x}) \in Nat
  BY <1>1, TotalIsNatural
<1> QED
  BY <1>2, TotalSplits

(* Nor than any two of them together.                                      *)
LEMMA TotalAboveTwo ==
  ASSUME NEW S, IsFiniteSet(S), NEW f, \A z \in S : f[z] \in Nat,
         NEW x \in S, NEW y \in S, x # y
  PROVE  f[x] + f[y] <= Total(f, S)
<1>1. IsFiniteSet(S \ {x})
  BY FS_RemoveElement
<1>2. f[y] <= Total(f, S \ {x}) /\ Total(f, S \ {x}) \in Nat
  BY <1>1, TotalAbove, TotalIsNatural
<1> QED
  BY <1>2, TotalSplits

(* A change of one value changes the total by as much.                     *)
LEMMA TotalUpdates ==
  ASSUME NEW S, IsFiniteSet(S),
         NEW f, \A y \in S : f[y] \in Nat,
         NEW g, \A y \in S : g[y] \in Nat,
         NEW x \in S, \A y \in S \ {x} : g[y] = f[y]
  PROVE  Total(g, S) = Total(f, S) + (g[x] - f[x])
<1>1. IsFiniteSet(S \ {x})
  BY FS_RemoveElement
<1>2. Total(f, S \ {x}) \in Nat /\ Total(g, S \ {x}) = Total(f, S \ {x})
  BY <1>1, TotalIsNatural, TotalOfSame
<1> QED
  BY <1>2, TotalSplits

(* What one argument loses another one gains: the total is the same.       *)
LEMMA TotalOfTransfer ==
  ASSUME NEW S, IsFiniteSet(S),
         NEW f, \A z \in S : f[z] \in Nat,
         NEW g, \A z \in S : g[z] \in Nat,
         NEW x \in S, NEW y \in S, x # y,
         NEW n \in Int, g[x] = f[x] - n, g[y] = f[y] + n,
         \A z \in S \ {x, y} : g[z] = f[z]
  PROVE  Total(g, S) = Total(f, S)
<1> DEFINE m == [z \in S |-> IF z = x THEN g[x] ELSE f[z]]
<1>1. \A z \in S : m[z] \in Nat
  OBVIOUS
<1>2. m[x] = g[x] /\ m[y] = f[y] /\ \A z \in S \ {x} : m[z] = f[z]
  OBVIOUS
<1>3. \A z \in S \ {y} : g[z] = m[z]
  OBVIOUS
<1> HIDE DEF m
<1>4. Total(m, S) = Total(f, S) + (m[x] - f[x])
  BY <1>1, <1>2, TotalUpdates
<1>5. Total(g, S) = Total(m, S) + (g[y] - m[y])
  BY <1>1, <1>3, TotalUpdates
<1>6. Total(f, S) \in Nat /\ f[x] \in Nat /\ f[y] \in Nat
  BY TotalIsNatural
<1> QED
  BY <1>2, <1>4, <1>5, <1>6

(* Where every value is zero, so is the total.                             *)
LEMMA TotalOfZeros ==
  ASSUME NEW S, NEW f, \A x \in S : f[x] = 0
  PROVE  Total(f, S) = 0
<1>1. 1 .. 0 = {}
  OBVIOUS
<1>2. Units(f, S) = {}
  BY <1>1 DEF Units
<1> QED
  BY <1>2, FS_EmptySet DEF Total

-----------------------------------------------------------------------------

(* The wallets and the program's three accounts are finitely many.         *)
LEMMA AccountsAreFinite == IsFiniteSet(Accounts) /\ IsFiniteSet(Users)
<1>1. IsFiniteSet(Users)
  BY PoolAssumption
<1>2. IsFiniteSet({"vault"}) /\ IsFiniteSet({"treasury"}) /\ IsFiniteSet({"pvault"})
  BY FS_Singleton
<1>3. IsFiniteSet({"vault"} \cup {"treasury"})
  BY <1>2, FS_Union
<1>4. IsFiniteSet(({"vault"} \cup {"treasury"}) \cup {"pvault"})
  BY <1>2, <1>3, FS_Union
<1>5. IsFiniteSet(Users \cup (({"vault"} \cup {"treasury"}) \cup {"pvault"}))
  BY <1>1, <1>4, FS_Union
<1>6. Accounts = Users \cup (({"vault"} \cup {"treasury"}) \cup {"pvault"})
  BY DEF Accounts
<1> QED
  BY <1>1, <1>5, <1>6

(* A token account holds a natural number.                                 *)
LEMMA TokensAreNatural ==
  ASSUME NEW b \in TokenAccounts
  PROVE  DOMAIN b = Accounts /\ \A a \in Accounts : b[a] \in Nat
BY ScaleAssumption DEF TokenAccounts, U64

(* accrue_pool mints the net yield into the vault and the fee into the     *)
(* treasury: what is minted is what the accounts get.                      *)
LEMMA AccrualConserves ==
  ASSUME PoolInv, AccruePool \/ (pool # NoPool /\ AccrualFits), Conserved
  PROVE  /\ \A a \in Accounts : AccruedBase[a] \in Nat
         /\ DOMAIN AccruedBase = Accounts
         /\ AccruedMint = Total(AccruedBase, Accounts)
<1>1. base \in TokenAccounts
  BY DEF PoolInv, PoolTypeOK
<1>2. \A a \in Accounts : base[a] \in Nat
  BY <1>1, TokensAreNatural
<1>3. Due.net \in Nat /\ Due.fee \in Nat
  BY AccrualKeepsBooks
<1>4. "vault" \in Accounts /\ "treasury" \in Accounts
  BY DEF Accounts
<1>5. /\ DOMAIN AccruedBase = Accounts
      /\ AccruedBase["vault"] = base["vault"] + Due.net
      /\ AccruedBase["treasury"] = base["treasury"] + Due.fee
      /\ \A a \in Accounts \ {"vault", "treasury"} : AccruedBase[a] = base[a]
  BY <1>1, <1>4 DEF AccruedBase, TokenAccounts
<1>6. \A a \in Accounts : AccruedBase[a] \in Nat
  BY <1>2, <1>3, <1>4, <1>5
<1> DEFINE m == [a \in Accounts |-> IF a = "vault" THEN AccruedBase["vault"] ELSE base[a]]
<1>7. /\ \A a \in Accounts : m[a] \in Nat
      /\ m["vault"] = base["vault"] + Due.net
      /\ m["treasury"] = base["treasury"]
      /\ \A a \in Accounts \ {"vault"} : m[a] = base[a]
      /\ \A a \in Accounts \ {"treasury"} : AccruedBase[a] = m[a]
  BY <1>2, <1>4, <1>5, <1>6
<1> HIDE DEF m
<1>8. Total(m, Accounts) = Total(base, Accounts) + (m["vault"] - base["vault"])
  BY <1>2, <1>4, <1>7, AccountsAreFinite, TotalUpdates
<1>9. Total(AccruedBase, Accounts)
        = Total(m, Accounts) + (AccruedBase["treasury"] - m["treasury"])
  BY <1>4, <1>6, <1>7, AccountsAreFinite, TotalUpdates
<1>10. Total(base, Accounts) \in Nat /\ base["vault"] \in Nat /\ base["treasury"] \in Nat
  BY <1>2, <1>4, AccountsAreFinite, TotalIsNatural
<1>11. AccruedMint = Total(AccruedBase, Accounts)
  BY <1>3, <1>5, <1>7, <1>8, <1>9, <1>10 DEF AccruedMint, Conserved
<1> QED
  BY <1>5, <1>6, <1>11

(* Tokens that move between two accounts stay what they add up to.         *)
LEMMA MoveConserves ==
  ASSUME NEW b, DOMAIN b = Accounts, \A a \in Accounts : b[a] \in Nat,
         NEW c \in TokenAccounts,
         NEW x \in Accounts, NEW y \in Accounts, x # y, NEW n \in Int,
         c[x] = b[x] - n, c[y] = b[y] + n,
         \A a \in Accounts : a # x /\ a # y => c[a] = b[a]
  PROVE  Total(c, Accounts) = Total(b, Accounts)
<1>1. \A a \in Accounts : c[a] \in Nat
  BY TokensAreNatural
<1> QED
  BY <1>1, AccountsAreFinite, TotalOfTransfer

(* Tokens that are minted or burned change what they add up to by as much. *)
LEMMA MintConserves ==
  ASSUME NEW b, DOMAIN b = Accounts, \A a \in Accounts : b[a] \in Nat,
         NEW c \in TokenAccounts, NEW x \in Accounts, NEW n \in Int,
         c[x] = b[x] + n, \A a \in Accounts \ {x} : c[a] = b[a]
  PROVE  Total(c, Accounts) = Total(b, Accounts) + n
<1>1. \A a \in Accounts : c[a] \in Nat
  BY TokensAreNatural
<1>2. Total(c, Accounts) = Total(b, Accounts) + (c[x] - b[x])
  BY <1>1, AccountsAreFinite, TotalUpdates
<1>3. Total(b, Accounts) \in Nat /\ b[x] \in Nat
  BY AccountsAreFinite, TotalIsNatural
<1> QED
  BY <1>2, <1>3

-----------------------------------------------------------------------------
(* Every instruction of the pool keeps the accounts in balance with the    *)
(* mint.                                                                   *)
LEMMA PoolConserves ==
  ASSUME PoolInv, Conserved, [PoolNext]_poolVars
  PROVE  Conserved'
<1>1. base \in TokenAccounts /\ (\A a \in Accounts : base[a] \in Nat) /\ DOMAIN base = Accounts
  BY TokensAreNatural DEF PoolInv, PoolTypeOK
<1>2. minted = Total(base, Accounts) /\ minted \in Nat
  BY ScaleAssumption DEF Conserved, PoolInv, PoolTypeOK, U64
<1>3. "vault" \in Accounts /\ "treasury" \in Accounts /\ Users \subseteq Accounts
  BY DEF Accounts
<1>4. UNCHANGED <<base, minted>> => Conserved'
  BY <1>2 DEF Conserved
<1>5. CASE ClockMoves
  BY <1>4, <1>5 DEF ClockMoves
<1>6. ASSUME NEW u \in Users, NEW cap \in FaucetCaps, InitConfig(u, cap)
      PROVE  Conserved'
  BY <1>4, <1>6 DEF InitConfig
<1>7. ASSUME NEW u \in Users, NEW amount \in Amounts, Faucet(u, amount)
      PROVE  Conserved'
  <2>1. /\ amount \in Int /\ u \in Accounts /\ base' \in TokenAccounts
        /\ base'[u] = base[u] + amount
        /\ \A a \in Accounts \ {u} : base'[a] = base[a]
        /\ minted' = minted + amount
    BY <1>1, <1>3, <1>7, PoolAssumption, ScaleAssumption DEF Faucet, U64
  <2> QED
    BY <1>1, <1>2, <2>1, MintConserves DEF Conserved
<1>8. ASSUME NEW u \in Users, NEW p \in PoolParams, CreatePool(u, p)
      PROVE  Conserved'
  BY <1>4, <1>8 DEF CreatePool
<1>9. ASSUME NEW amount \in Amounts, CollectFees(amount)
      PROVE  Conserved'
  <2>1. config.authority \in Users
    BY <1>9 DEF CollectFees, Config, PoolInv, PoolTypeOK
  <2>2. /\ amount \in Int /\ base' \in TokenAccounts
        /\ base' = [base EXCEPT !["treasury"] = @ - amount, ![config.authority] = @ + amount]
        /\ minted' = minted
    BY <1>9, PoolAssumption, ScaleAssumption DEF CollectFees, U64
  <2>3. /\ config.authority # "treasury" /\ config.authority \in Accounts
        /\ base'["treasury"] = base["treasury"] - amount
        /\ base'[config.authority] = base[config.authority] + amount
        /\ \A a \in Accounts : a # "treasury" /\ a # config.authority => base'[a] = base[a]
    BY <1>1, <1>3, <2>1, <2>2, AccountsApart
  <2>4. amount \in Int /\ base' \in TokenAccounts /\ minted' = minted
    BY <2>2
  <2>5. ASSUME NEW w \in Accounts, w # "treasury",
               base'["treasury"] = base["treasury"] - amount,
               base'[w] = base[w] + amount,
               \A a \in Accounts : a # "treasury" /\ a # w => base'[a] = base[a]
        PROVE  Total(base', Accounts) = Total(base, Accounts)
    BY <1>1, <1>3, <2>4, <2>5, MoveConserves
  <2> QED
    BY <1>2, <2>3, <2>4, <2>5 DEF Conserved
<1>10. CASE Accrue
  BY <1>10, AccrualConserves DEF Accrue, Conserved
<1>11. ASSUME NEW u \in Users, NEW t \in Tranches, NEW amount \in Amounts, Deposit(u, t, amount)
      PROVE  Conserved'
  <2>1. /\ amount \in Int /\ base' \in TokenAccounts
        /\ base' = [AccruedBase EXCEPT ![u] = @ - amount, !["vault"] = @ + amount]
        /\ minted' = AccruedMint
        /\ AccruePool
    BY <1>11, PoolAssumption, ScaleAssumption
       DEF Deposit, DepositAccepts, DepositedShares, DepositedBooks, DepositedBase,
           DepositedHoldings, U64
  <2>2. /\ \A a \in Accounts : AccruedBase[a] \in Nat
        /\ DOMAIN AccruedBase = Accounts
        /\ AccruedMint = Total(AccruedBase, Accounts)
    BY <2>1, AccrualConserves
  <2>3. /\ u # "vault" /\ u \in Accounts
        /\ base'[u] = AccruedBase[u] - amount
        /\ base'["vault"] = AccruedBase["vault"] + amount
        /\ \A a \in Accounts : a # u /\ a # "vault" => base'[a] = AccruedBase[a]
    BY <1>3, <2>1, <2>2, AccountsApart
  <2>4. amount \in Int /\ base' \in TokenAccounts /\ minted' = AccruedMint
    BY <2>1
  <2> QED
    BY <1>3, <2>2, <2>3, <2>4, MoveConserves DEF Conserved
<1>12. ASSUME NEW u \in Users, NEW t \in Tranches, NEW shares \in Amounts, Redeem(u, t, shares)
      PROVE  Conserved'
  <2>1. PICK amount \in Nat :
          base' = [AccruedBase EXCEPT !["vault"] = @ - amount, ![u] = @ + amount]
    BY <1>12, RedeemEffect
  <2>2. AccruePool /\ base' \in TokenAccounts /\ minted' = AccruedMint
    BY <1>12 DEF Redeem, RedeemAccepts
  <2>3. /\ \A a \in Accounts : AccruedBase[a] \in Nat
        /\ DOMAIN AccruedBase = Accounts
        /\ AccruedMint = Total(AccruedBase, Accounts)
    BY <2>2, AccrualConserves
  <2>4. /\ u # "vault" /\ u \in Accounts
        /\ base'["vault"] = AccruedBase["vault"] - amount
        /\ base'[u] = AccruedBase[u] + amount
        /\ \A a \in Accounts : a # "vault" /\ a # u => base'[a] = AccruedBase[a]
    BY <1>3, <2>1, <2>3, AccountsApart
  <2> QED
    BY <1>3, <2>2, <2>3, <2>4, MoveConserves DEF Conserved
<1>13. ASSUME NEW u \in Users, NEW bps \in LossRates, RecordLoss(u, bps)
      PROVE  Conserved'
  <2> DEFINE amount == LossAmount(Accrued.assets, bps)
  <2>1. /\ AccruePool /\ bps <= BPS /\ base' \in TokenAccounts
        /\ base' = [AccruedBase EXCEPT !["vault"] = @ - amount]
        /\ minted' = AccruedMint - amount
    BY <1>13 DEF RecordLoss, LossAccepts, LossNow, LossSplit, BurnedBase
  <2>2. amount \in Nat
    <3>1. Accrued.assets \in Nat /\ bps \in 0 .. BPS
      BY <2>1, AccrualKeepsBooks, BalancesAreNatural, PoolAssumption, ScaleAssumption
    <3> QED
      BY <3>1, MulBpsIsPart DEF LossAmount
  <2> HIDE DEF amount
  <2>3. /\ \A a \in Accounts : AccruedBase[a] \in Nat
        /\ DOMAIN AccruedBase = Accounts
        /\ AccruedMint = Total(AccruedBase, Accounts)
    BY <2>1, AccrualConserves
  <2>4. /\ -amount \in Int
        /\ base'["vault"] = AccruedBase["vault"] + (-amount)
        /\ \A a \in Accounts \ {"vault"} : base'[a] = AccruedBase[a]
    BY <1>3, <2>1, <2>2, <2>3
  <2>5. Total(base', Accounts) = Total(AccruedBase, Accounts) + (-amount)
    BY <1>3, <2>1, <2>3, <2>4, MintConserves
  <2>6. Total(AccruedBase, Accounts) \in Nat
    BY <2>3, AccountsAreFinite, TotalIsNatural
  <2> QED
    BY <2>1, <2>2, <2>3, <2>5, <2>6 DEF Conserved
<1>14. CASE UNCHANGED poolVars
  BY <1>4, <1>14 DEF poolVars
<1> QED
  BY <1>5, <1>6, <1>7, <1>8, <1>9, <1>10, <1>11, <1>12, <1>13, <1>14 DEF PoolNext

(* At the start nobody holds anything and nothing is minted.               *)
LEMMA ConservedInit == PoolInit => Conserved
BY TotalOfZeros DEF PoolInit, Conserved

(* Through every instruction of the pool, rounding or not, the base tokens *)
(* in the accounts are those the mint says were issued.                    *)
THEOREM PoolMintIsConserved == PoolSpec => []Conserved
<1>1. PoolInit => PoolInv /\ Conserved
  BY PoolInvInit, ConservedInit
<1>2. (PoolInv /\ Conserved) /\ [PoolNext]_poolVars => (PoolInv /\ Conserved)'
  BY PoolInvNext, PoolConserves
<1> QED
  BY <1>1, <1>2, PTL DEF PoolSpec

-----------------------------------------------------------------------------
(* The holders' shares.                                                    *)

(* The supply of each tranche mint is what its holders have.               *)
HoldersOwnSupply == \A t \in Tranches : balances.supply[t] = Total(held[t], Users)

(* A holder's shares come and go with the supply of the tranche.           *)
LEMMA HolderMoves ==
  ASSUME PoolInv, HoldersOwnSupply, NEW t \in Tranches, NEW u \in Users, NEW n \in Int,
         held' \in ShareAccounts,
         held'[t][u] = held[t][u] + n,
         \A v \in Users \ {u} : held'[t][v] = held[t][v],
         \A r \in Tranches \ {t} : held'[r] = held[r],
         balances'.supply = [balances.supply EXCEPT ![t] = @ + n]
  PROVE  HoldersOwnSupply'
<1>1. /\ \A r \in Tranches, v \in Users : held[r][v] \in Nat
      /\ \A r \in Tranches, v \in Users : held'[r][v] \in Nat
  BY ScaleAssumption DEF PoolInv, PoolTypeOK, ShareAccounts, U64
<1>2. Total(held'[t], Users) = Total(held[t], Users) + (held'[t][u] - held[t][u])
  BY <1>1, AccountsAreFinite, TotalUpdates
<1>3. Total(held[t], Users) \in Nat
  BY <1>1, AccountsAreFinite, TotalIsNatural
<1>4. balances.supply \in [Tranches -> Nat]
  BY BalancesAreNatural DEF PoolInv, PoolTypeOK
<1>5. balances'.supply[t] = Total(held'[t], Users)
  BY <1>1, <1>2, <1>3, <1>4 DEF HoldersOwnSupply
<1>6. \A r \in Tranches \ {t} : balances'.supply[r] = Total(held'[r], Users)
  BY <1>4 DEF HoldersOwnSupply
<1> QED
  BY <1>5, <1>6 DEF HoldersOwnSupply

(* Every instruction of the pool mints and burns shares in step with the   *)
(* holders' accounts.                                                      *)
LEMMA HoldersStep ==
  ASSUME PoolInv, HoldersOwnSupply, [PoolNext]_poolVars
  PROVE  HoldersOwnSupply'
<1>1. balances'.supply = balances.supply /\ held' = held => HoldersOwnSupply'
  BY DEF HoldersOwnSupply
<1>2. held \in ShareAccounts /\ balances \in PoolBalances
  BY DEF PoolInv, PoolTypeOK
<1>3. ASSUME \/ ClockMoves
             \/ \E u \in Users, cap \in FaucetCaps : InitConfig(u, cap)
             \/ \E u \in Users, amount \in Amounts : Faucet(u, amount)
             \/ \E amount \in Amounts : CollectFees(amount)
             \/ UNCHANGED poolVars
      PROVE  HoldersOwnSupply'
  BY <1>1, <1>3 DEF ClockMoves, InitConfig, Faucet, CollectFees, poolVars
<1>4. ASSUME NEW u \in Users, NEW p \in PoolParams, CreatePool(u, p)
      PROVE  HoldersOwnSupply'
  BY <1>1, <1>4 DEF CreatePool, PoolInv, NothingBeforePool
<1>5. CASE Accrue
  <2>1. Accrued.supply = balances.supply
    BY <1>5, AccrualKeepsBooks DEF Accrue
  <2> QED
    BY <1>1, <1>5, <2>1 DEF Accrue
<1>6. ASSUME NEW u \in Users, NEW t \in Tranches, NEW amount \in Amounts, Deposit(u, t, amount)
      PROVE  HoldersOwnSupply'
  <2>1. AccruePool /\ held' \in ShareAccounts
    BY <1>6 DEF Deposit, DepositAccepts, DepositedShares, DepositedBooks, DepositedBase,
                DepositedHoldings
  <2>2. PICK shares \in Nat :
          /\ balances' = AfterDeposit(Accrued, t, amount, shares)
          /\ held' = [held EXCEPT ![t][u] = @ + shares]
    BY <1>6, DepositEffect
  <2>3. balances'.supply = [balances.supply EXCEPT ![t] = @ + shares]
    BY <2>1, <2>2, AccrualKeepsBooks DEF AfterDeposit
  <2>4. /\ held'[t][u] = held[t][u] + shares
        /\ \A v \in Users \ {u} : held'[t][v] = held[t][v]
        /\ \A r \in Tranches \ {t} : held'[r] = held[r]
    BY <1>2, <2>2 DEF ShareAccounts
  <2>5. shares \in Int /\ held' \in ShareAccounts
    BY <2>1
  <2> QED
    BY <2>3, <2>4, <2>5, HolderMoves
<1>7. ASSUME NEW u \in Users, NEW t \in Tranches, NEW shares \in Amounts, Redeem(u, t, shares)
      PROVE  HoldersOwnSupply'
  <2>1. /\ AccruePool
        /\ held' = [held EXCEPT ![t][u] = @ - shares]
        /\ held' \in ShareAccounts
    BY <1>7 DEF Redeem, RedeemAccepts, RedeemedShares
  <2>2. shares \in Nat
    BY PoolAssumption, ScaleAssumption DEF U64
  <2>3. /\ balances.supply \in [Tranches -> Nat]
        /\ \A v \in Users : held[t][v] \in Nat
    BY <1>2, ScaleAssumption, BalancesAreNatural DEF ShareAccounts, U64
  <2>4. balances'.supply = [balances.supply EXCEPT ![t] = @ - shares]
    BY <1>7, <2>1, RedeemEffect, AccrualKeepsBooks DEF AfterRedeem
  <2>5. balances'.supply = [balances.supply EXCEPT ![t] = @ + (-shares)]
    BY <2>2, <2>3, <2>4
  <2>6. /\ held'[t][u] = held[t][u] + (-shares)
        /\ \A v \in Users \ {u} : held'[t][v] = held[t][v]
        /\ \A r \in Tranches \ {t} : held'[r] = held[r]
    BY <1>2, <2>1, <2>2, <2>3 DEF ShareAccounts
  <2>7. -shares \in Int /\ held' \in ShareAccounts
    BY <2>1, <2>2
  <2> QED
    BY <2>5, <2>6, <2>7, HolderMoves
<1>8. ASSUME NEW u \in Users, NEW bps \in LossRates, RecordLoss(u, bps)
      PROVE  HoldersOwnSupply'
  <2>1. Accrued.supply = balances.supply
    BY <1>8, AccrualKeepsBooks DEF RecordLoss, LossAccepts, LossNow, LossSplit, BurnedBase
  <2> QED
    BY <1>1, <1>8, <2>1 DEF RecordLoss, LossAccepts, LossNow, LossSplit, BurnedBase, AfterLoss
<1> QED
  BY <1>3, <1>4, <1>5, <1>6, <1>7, <1>8 DEF PoolNext

(* At the start there are no shares.                                       *)
LEMMA HoldersInit == PoolInit => HoldersOwnSupply
BY TotalOfZeros DEF PoolInit, NoBalances, HoldersOwnSupply

-----------------------------------------------------------------------------
(* Nobody is held back.                                                    *)

(* Tokens that an account holds can move to any other: with the supply of  *)
(* the mint in u64, no account is too full to receive them.                *)
LEMMA TransferFits ==
  ASSUME NEW b \in [Accounts -> Nat], Total(b, Accounts) \in U64,
         NEW x \in Accounts, NEW y \in Accounts, x # y,
         NEW n \in Nat, n <= b[x]
  PROVE  [b EXCEPT ![x] = @ - n, ![y] = @ + n] \in TokenAccounts
<1> DEFINE c == [b EXCEPT ![x] = @ - n, ![y] = @ + n]
<1>1. b[x] + b[y] <= Total(b, Accounts) /\ \A a \in Accounts : b[a] <= Total(b, Accounts)
  BY AccountsAreFinite, TotalAbove, TotalAboveTwo
<1>2. \A a \in Accounts : b[a] \in U64
  BY <1>1, ScaleAssumption DEF U64
<1>3. b[x] - n \in U64 /\ b[y] + n \in U64
  BY <1>1, ScaleAssumption DEF U64
<1>4. c[x] = b[x] - n /\ c[y] = b[y] + n /\ \A a \in Accounts \ {x, y} : c[a] = b[a]
  OBVIOUS
<1>5. c = [a \in Accounts |-> c[a]]
  OBVIOUS
<1> HIDE DEF c
<1>6. \A a \in Accounts : c[a] \in U64
  BY <1>2, <1>3, <1>4
<1>7. c \in TokenAccounts
  BY <1>5, <1>6 DEF TokenAccounts
<1> QED
  BY <1>7 DEF c

(* A holder has no more than all holders together.                         *)
LEMMA HeldIsPart ==
  ASSUME PoolInv, HoldersOwnSupply, NEW t \in Tranches, NEW u \in Users
  PROVE  held[t][u] \in Nat /\ held[t][u] <= balances.supply[t]
<1>1. \A v \in Users : held[t][v] \in Nat
  BY ScaleAssumption DEF PoolInv, PoolTypeOK, ShareAccounts, U64
<1> QED
  BY <1>1, AccountsAreFinite, TotalAbove DEF HoldersOwnSupply

(* Shares that are worth a unit are paid with at least one.                *)
LEMMA WorthAUnit ==
  ASSUME NEW shares \in Nat \ {0}, NEW assets \in Nat, NEW supply \in Nat,
         shares <= supply, shares * assets >= supply
  PROVE  AmountForRedeem(shares, assets, supply) \in 1 .. assets
<1>1. AmountForRedeem(shares, assets, supply) = (shares * assets) \div supply
  BY DEF AmountForRedeem
<1>2. shares * assets \in Nat /\ supply \in Nat \ {0}
  BY SMT
<1>3. (shares * assets) \div supply >= 1
  BY <1>2, SMT
<1>4. AmountForRedeem(shares, assets, supply) \in 0 .. assets
  BY RedeemKeepsPrice
<1> QED
  BY <1>1, <1>3, <1>4

(* Every check of redeem.rs lets a senior holder out.  The vault holds the *)
(* assets of both tranches, so it can pay; the holder's shares are part of *)
(* the supply; the tokens of all accounts fit u64, so the holder's account *)
(* can receive; and the floor is no matter of seniors.                     *)
LEMMA SeniorAccepted ==
  ASSUME PoolInv, Conserved, HoldersOwnSupply
  PROVE  SeniorCanLeave
<1> SUFFICES ASSUME NEW u \in Users, NEW shares \in 1 .. held["Senior"][u],
                    pool # NoPool, AccrualFits,
                    shares * Accrued.nav["Senior"] >= Accrued.supply["Senior"]
             PROVE  RedeemAccepts(u, "Senior", shares)
  BY DEF SeniorCanLeave
<1> DEFINE t == "Senior"
           nav == Accrued.nav[t]
           supply == Accrued.supply[t]
           amount == Redeemed(t, shares)
           next == AfterRedeem(Accrued, t, shares, amount)
<1>1. t \in Tranches /\ "vault" \in Accounts /\ u \in Accounts /\ u # "vault"
  BY AccountsApart DEF Tranches
<1>2. /\ Accrued \in PoolBalances /\ Accrued.supply = balances.supply
      /\ Accrued.assets = Accrued.nav["Senior"] + Accrued.nav["Junior"]
      /\ AccruedBase \in [Accounts -> Nat] /\ AccruedBase["vault"] = Accrued.assets
  BY AccrualKeepsBooks
<1>3. nav \in Nat /\ supply \in Nat /\ Accrued.nav["Junior"] \in Nat /\ Accrued.assets \in Nat
  BY <1>2, BalancesAreNatural DEF Tranches
<1>4. held[t][u] \in Nat /\ held[t][u] <= supply
  BY <1>1, <1>2, HeldIsPart
<1>5. shares \in Nat \ {0} /\ shares <= supply /\ shares <= held[t][u]
  BY <1>3, <1>4
<1>6. amount \in 1 .. nav
  BY <1>3, <1>5, WorthAUnit DEF Redeemed
<1> HIDE DEF amount
<1>7. amount \in Nat /\ amount > 0 /\ amount <= AccruedBase["vault"] /\ amount <= Accrued.assets
  BY <1>2, <1>3, <1>6
<1>8. RedeemedBase(u, amount) \in TokenAccounts
  <2>1. Total(AccruedBase, Accounts) \in U64
    BY AccrualConserves DEF AccrualFits
  <2> QED
    BY <1>1, <1>2, <1>7, <2>1, TransferFits DEF RedeemedBase
<1>9. next \in PoolBalances
  <2>1. Accrued.assets - amount \in U64 /\ nav - amount \in U64 /\ supply - shares \in U64
    BY <1>1, <1>2, <1>3, <1>5, <1>6, <1>7, ScaleAssumption DEF PoolBalances, U64
  <2>2. [Accrued.nav EXCEPT ![t] = @ - amount] \in [Tranches -> U64]
    BY <1>2, <2>1 DEF PoolBalances
  <2>3. [Accrued.supply EXCEPT ![t] = @ - shares] \in [Tranches -> U64]
    BY <1>2, <2>1 DEF PoolBalances
  <2> QED
    BY <2>1, <2>2, <2>3 DEF AfterRedeem, PoolBalances
<1>10. RedeemAllowed(t, next)
  BY DEF RedeemAllowed
<1>11. RedeemedShares(u, t, shares) \in ShareAccounts
  <2>1. held \in ShareAccounts
    BY DEF PoolInv, PoolTypeOK
  <2>2. held[t] \in [Users -> U64]
    BY <1>1, <2>1 DEF ShareAccounts
  <2>3. held[t][u] - shares \in U64
    BY <1>4, <1>5, <2>2, ScaleAssumption DEF U64
  <2> DEFINE row == [held[t] EXCEPT ![u] = @ - shares]
  <2>4. row \in [Users -> U64]
    BY <2>2, <2>3
  <2>5. RedeemedShares(u, t, shares) = [held EXCEPT ![t] = row]
    BY DEF RedeemedShares
  <2> HIDE DEF row
  <2>6. [held EXCEPT ![t] = row] \in ShareAccounts
    BY <1>1, <2>1, <2>4 DEF ShareAccounts
  <2> QED
    BY <2>5, <2>6
<1> HIDE DEF t, next
<1>12. RedeemAccepts(u, t, shares)
  BY <1>2, <1>5, <1>7, <1>8, <1>9, <1>10, <1>11 DEF RedeemAccepts, amount, next, supply
<1> QED
  BY <1>12 DEF t

PoolOwned == PoolInv /\ Conserved /\ HoldersOwnSupply

LEMMA PoolOwnedAlways == PoolSpec => []PoolOwned
<1>1. PoolInit => PoolOwned
  BY PoolInvInit, ConservedInit, HoldersInit DEF PoolOwned
<1>2. PoolOwned /\ [PoolNext]_poolVars => PoolOwned'
  BY PoolInvNext, PoolConserves, HoldersStep DEF PoolOwned
<1> QED
  BY <1>1, <1>2, PTL DEF PoolSpec

(* A senior holder can leave a pool in every state it can reach, with all  *)
(* of the shares or some, whatever the others did before: neither a check  *)
(* of the program nor one of the token program turns the holder away.      *)
THEOREM SeniorsCanLeave == PoolSpec => []SeniorCanLeave
<1>1. PoolOwned => SeniorCanLeave
  BY SeniorAccepted DEF PoolOwned
<1> QED
  BY <1>1, PoolOwnedAlways, PTL

(* The shares of a tranche are those of its holders, for any number of     *)
(* them and whatever they deposited, redeemed and lost.                    *)
THEOREM SharesAreHeld == PoolSpec => []HoldersOwnSupply
<1>1. PoolOwned => HoldersOwnSupply
  BY DEF PoolOwned
<1> QED
  BY <1>1, PoolOwnedAlways, PTL

=============================================================================
