------------------------ MODULE WashProtectionProofs ------------------------
(***************************************************************************)
(* Theorems about the whole program, Spec: the protection market together  *)
(* with the pool it runs over, for any number of sellers, buyers and       *)
(* contracts.                                                              *)
(*                                                                         *)
(* CoverInv is inductive.  To the invariants of WashProtection it adds     *)
(* what they rest on: the parameters were accepted by init_protection (a   *)
(* fee above the premium would take collateral away), there is no market   *)
(* before its pool, a market without shares has no collateral, a contract  *)
(* never started in the future, and an open one has paid nothing.          *)
(*                                                                         *)
(* The program also implements WashLedger, which needs little of CoverInv: *)
(* contracts are at addresses of a buyer and a nonce, so no two of them    *)
(* stand for the same thing; loss records are those below the counter, so  *)
(* a settlement is by a loss the ledger has counted; and no loss is on     *)
(* record before there is a pool.                                          *)
(***************************************************************************)
EXTENDS WashProtection, WashPoolProofs

(* init_protection let the parameters through, over a pool that exists.    *)
CoverAccepted == cover # NoCover => pool # NoPool /\ ValidCover(cover)

(* Before the market there is nothing in it.                               *)
NothingBeforeCover ==
  cover = NoCover => collateral = 0 /\ DOMAIN contracts = {}

(* With no shares out there is no collateral that the next seller, whose   *)
(* shares are priced 1:1, would get for free.                              *)
NoSharesNoCollateral == shareSupply = 0 => collateral = 0

(* What holds of one contract c at the model time t, with n loss records   *)
(* ev: c did not start later, the index of a record stands for its time,   *)
(* and c was closed for a reason, or is open and unpaid.                   *)
ContractOK(c, t, n, ev) ==
  /\ c.start_model_time <= t
  /\ c.loss_index_from <= n
  /\ \A i \in DOMAIN ev :
       IF i >= c.loss_index_from
       THEN ev[i].model_time >= c.start_model_time
       ELSE ev[i].model_time <= c.start_model_time
  /\ c.status = "Active" => c.payout = 0
  /\ c.status = "Expired" => t >= c.expiry_model_time /\ c.payout = 0
  /\ c.status = "Settled" =>
       /\ c.settled_loss_index \in DOMAIN ev
       /\ ev[c.settled_loss_index].model_time \in c.start_model_time .. c.expiry_model_time
       /\ ev[c.settled_loss_index].loss_bps >= c.trigger_bps
       /\ c.payout = Payout(c.notional, ev[c.settled_loss_index].loss_bps)
       /\ c.payout \in 1 .. c.notional

ContractsOK ==
  \A key \in DOMAIN contracts : ContractOK(contracts[key], modelTime, lossCount, events)

CoverInv ==
  /\ PoolInv
  /\ CoverTypeOK
  /\ CoverSolvent
  /\ CoverAccepted
  /\ NothingBeforeCover
  /\ NoSharesNoCollateral
  /\ ContractsOK

(* What every step leaves to the contracts: the pool stays, its clock does *)
(* not go back, and loss records are only added, at the end and at the     *)
(* time of the step.                                                       *)
HistoryGrows ==
  /\ pool # NoPool => pool' = pool /\ modelTime' >= modelTime
  /\ lossCount' >= lossCount
  /\ \A i \in DOMAIN events : i \in DOMAIN events' /\ events'[i] = events[i]
  /\ \A i \in DOMAIN events' :
       i \notin DOMAIN events => i = lossCount /\ events'[i].model_time = modelTime'

-----------------------------------------------------------------------------
(* The numbers of the market are naturals.                                 *)
LEMMA CoverNumbers ==
  ASSUME CoverInv
  PROVE  /\ collateral \in Nat
         /\ reserved \in Nat
         /\ reserved <= collateral
         /\ Free \in Nat
         /\ Free <= collateral
         /\ shareSupply \in Nat
         /\ base["pvault"] = collateral
         /\ cover # NoCover => /\ cover.premium_rate_bps \in Nat
                               /\ cover.trigger_bps \in 0 .. BPS
                               /\ cover.premium_fee_bps \in 0 .. BPS
<1>1. collateral \in Nat /\ reserved \in Nat /\ shareSupply \in Nat
  BY ScaleAssumption DEF CoverInv, CoverTypeOK, U64
<1>2. reserved <= collateral /\ base["pvault"] = collateral
  BY DEF CoverInv, CoverSolvent
<1>3. Free \in Nat /\ Free <= collateral
  BY <1>1, <1>2 DEF Free
<1>4. ASSUME cover # NoCover
      PROVE  /\ cover.premium_rate_bps \in Nat
             /\ cover.trigger_bps \in 0 .. BPS
             /\ cover.premium_fee_bps \in 0 .. BPS
  <2>1. cover \in [premium_rate_bps : Nat, trigger_bps : Nat, premium_fee_bps : Nat]
    BY <1>4, ProtectionAssumption DEF CoverInv, CoverTypeOK
  <2>2. ValidCover(cover)
    BY <1>4 DEF CoverInv, CoverAccepted
  <2> QED
    BY <2>1, <2>2, ScaleAssumption DEF ValidCover
<1> QED
  BY <1>1, <1>2, <1>3, <1>4

(* A share count a seller may give, all of the seller's included.          *)
LEMMA SharesGiven ==
  ASSUME CoverInv
  PROVE  \A u \in Users : CoverAmounts \cup {positions[u]} \subseteq U64
BY ProtectionAssumption DEF CoverInv, CoverTypeOK, SellerPositions

(* The fields of a contract that exists.                                   *)
LEMMA ContractFields ==
  ASSUME CoverInv, NEW key \in DOMAIN contracts
  PROVE  /\ contracts[key] \in Contract
         /\ contracts[key].notional \in Nat
         /\ contracts[key].trigger_bps \in Nat
         /\ contracts[key].loss_index_from \in Nat
         /\ contracts[key].start_model_time \in Nat
         /\ contracts[key].expiry_model_time \in Nat
         /\ key[1] \in Users
         /\ key \in Users \X Nonces
         /\ cover # NoCover
         /\ pool # NoPool
<1>1. contracts[key] \in Contract /\ key \in Users \X Nonces
  BY DEF CoverInv, CoverTypeOK
<1>2. cover # NoCover /\ pool # NoPool
  BY DEF CoverInv, NothingBeforeCover, CoverAccepted
<1> QED
  BY <1>1, <1>2, ScaleAssumption, PoolAssumption DEF Contract, U64

(* The loss records are numbered from zero.                                *)
LEMMA EventFields ==
  ASSUME PoolInv, NEW i \in DOMAIN events
  PROVE  /\ i \in Nat /\ i < lossCount
         /\ i \in 0 .. MaxLosses
         /\ events[i].loss_bps \in 0 .. BPS
         /\ events[i].model_time \in Nat
         /\ events[i].model_time <= modelTime
<1>1. /\ events \in [0 .. lossCount - 1 -> LossEvent]
      /\ lossCount \in 0 .. MaxLosses
  BY DEF PoolInv, PoolTypeOK
<1>2. events[i] \in LossEvent /\ i \in 0 .. lossCount - 1
  BY <1>1
<1>3. events[i].model_time <= modelTime
  BY DEF PoolInv, EventsInOrder
<1> QED
  BY <1>1, <1>2, <1>3, ScaleAssumption, PoolAssumption DEF LossEvent, U64

(* A contract in order stays in order while history grows.                 *)
LEMMA ContractStays ==
  ASSUME CoverInv, HistoryGrows, NEW key \in DOMAIN contracts,
         ContractOK(contracts[key], modelTime, lossCount, events),
         modelTime' \in Nat, lossCount' \in Nat
  PROVE  ContractOK(contracts[key], modelTime', lossCount', events')
<1> DEFINE c == contracts[key]
<1>1. /\ c.start_model_time \in Nat
      /\ c.expiry_model_time \in Nat
      /\ c.loss_index_from \in Nat
      /\ pool # NoPool
  BY ContractFields
<1>2. modelTime \in Nat /\ lossCount \in Nat
  BY ScaleAssumption, PoolAssumption DEF CoverInv, PoolInv, PoolTypeOK, U64
<1>3. modelTime <= modelTime' /\ lossCount <= lossCount'
  BY <1>1 DEF HistoryGrows
<1> HIDE DEF c
<1>4. c.start_model_time <= modelTime /\ c.loss_index_from <= lossCount
  BY DEF ContractOK, c
<1>5. c.start_model_time <= modelTime' /\ c.loss_index_from <= lossCount'
  BY <1>1, <1>2, <1>3, <1>4
<1>6. ASSUME NEW i \in DOMAIN events'
      PROVE  IF i >= c.loss_index_from
             THEN events'[i].model_time >= c.start_model_time
             ELSE events'[i].model_time <= c.start_model_time
  <2>1. CASE i \in DOMAIN events
    BY <2>1 DEF ContractOK, HistoryGrows, c
  <2>2. CASE i \notin DOMAIN events
    <3>1. i = lossCount /\ events'[i].model_time = modelTime'
      BY <1>6, <2>2 DEF HistoryGrows
    <3>2. lossCount >= c.loss_index_from
      BY <1>1, <1>2, <1>4
    <3> QED
      BY <1>1, <1>2, <1>4, <1>5, <3>1, <3>2
  <2> QED
    BY <2>1, <2>2
<1>7. c.status = "Expired" => modelTime' >= c.expiry_model_time /\ c.payout = 0
  BY <1>1, <1>2, <1>3 DEF ContractOK, c
<1>8. c.status = "Settled" =>
        /\ c.settled_loss_index \in DOMAIN events'
        /\ events'[c.settled_loss_index] = events[c.settled_loss_index]
  BY DEF ContractOK, HistoryGrows, c
<1> QED
  BY <1>5, <1>6, <1>7, <1>8 DEF ContractOK, c

-----------------------------------------------------------------------------
(* The instructions of the pool and the clock.                             *)

(* An instruction that accrues and records no loss lets history grow.      *)
LEMMA AccrualGrows ==
  ASSUME PoolInv, AccruePool, UNCHANGED <<pool, lossCount, events>>
  PROVE  HistoryGrows
<1>1. modelTime' >= modelTime
  BY AccrualMovesClock
<1>2. lossCount \in Nat
  BY PoolAssumption DEF PoolInv, PoolTypeOK
<1> QED
  BY <1>1, <1>2 DEF HistoryGrows

(* A step that changes neither the pool nor its clock.                     *)
LEMMA IdleGrows ==
  ASSUME PoolInv, UNCHANGED <<pool, modelTime, lossCount, events>>
  PROVE  HistoryGrows
<1>1. modelTime \in Nat /\ lossCount \in Nat
  BY ScaleAssumption, PoolAssumption DEF PoolInv, PoolTypeOK, U64
<1> QED
  BY <1>1 DEF HistoryGrows

(* Accrual leaves the wallets and pvault as they are.                      *)
LEMMA AccrualSparesOthers ==
  ASSUME PoolInv
  PROVE  /\ AccruedBase["pvault"] = base["pvault"]
         /\ \A u \in Users : AccruedBase[u] = base[u]
BY AccountsApart DEF PoolInv, PoolTypeOK, TokenAccounts, AccruedBase
(* record_loss adds its record behind all others and touches no collateral. *)
LEMMA RecordLossGrows ==
  ASSUME PoolInv, NEW signer \in Users, NEW bps \in LossRates, RecordLoss(signer, bps)
  PROVE  HistoryGrows /\ base'["pvault"] = base["pvault"]
<1>1. PICK amount \in Nat, split \in [Tranches -> Nat] :
        /\ base' = [AccruedBase EXCEPT !["vault"] = @ - amount]
        /\ events' = [i \in DOMAIN events \cup {lossCount} |->
                        IF i = lossCount THEN LossRecord(amount, bps, split) ELSE events[i]]
  BY LossEffect
<1>2. AccruePool /\ lossCount' = lossCount + 1 /\ pool' = pool /\ lossCount \notin DOMAIN events
  BY DEF RecordLoss, LossAccepts, LossNow, LossSplit, BurnedBase
<1>3. modelTime' = modelTime + DtModel /\ modelTime' >= modelTime
  BY <1>2, AccrualMovesClock
<1>4. lossCount \in Nat
  BY PoolAssumption DEF PoolInv, PoolTypeOK
<1>5. LossRecord(amount, bps, split).model_time = modelTime'
  BY <1>3 DEF LossRecord
<1>6. HistoryGrows
  BY <1>1, <1>2, <1>3, <1>4, <1>5 DEF HistoryGrows
<1>7. base'["pvault"] = base["pvault"]
  BY <1>1, <1>2, AccrualKeepsBooks, AccrualSparesOthers, AccountsApart
<1> QED
  BY <1>6, <1>7

(* The instructions of the pool keep PoolInv, let history grow and leave   *)
(* pvault alone: the collateral is not theirs.                             *)
LEMMA PoolPart ==
  ASSUME PoolInv, PoolNext
  PROVE  PoolInv' /\ HistoryGrows /\ base'["pvault"] = base["pvault"]
<1>0. PoolInv'
  BY PoolInvNext
<1> DEFINE Goal == HistoryGrows /\ base'["pvault"] = base["pvault"]
<1>1. ASSUME ClockMoves PROVE Goal
  BY <1>1, IdleGrows DEF ClockMoves
<1>2. ASSUME NEW u \in Users, NEW cap \in FaucetCaps, InitConfig(u, cap) PROVE Goal
  BY <1>2, IdleGrows DEF InitConfig
<1>3. ASSUME NEW u \in Users, NEW amount \in Amounts, Faucet(u, amount) PROVE Goal
  BY <1>3, IdleGrows, AccountsApart DEF Faucet, PoolInv, PoolTypeOK, TokenAccounts
<1>4. ASSUME NEW u \in Users, NEW p \in PoolParams, CreatePool(u, p) PROVE Goal
  BY <1>4 DEF CreatePool, PoolInv, NothingBeforePool, HistoryGrows
<1>5. ASSUME NEW amount \in Amounts, CollectFees(amount) PROVE Goal
  <2>1. config.authority \in Users
    BY <1>5 DEF CollectFees, Config, PoolInv, PoolTypeOK
  <2> QED
    BY <1>5, <2>1, IdleGrows, AccountsApart DEF CollectFees, PoolInv, PoolTypeOK, TokenAccounts
<1>6. ASSUME Accrue PROVE Goal
  <2>1. AccruePool /\ UNCHANGED <<pool, lossCount, events>> /\ base' = AccruedBase
    BY <1>6 DEF Accrue
  <2> QED
    BY <2>1, AccrualGrows, AccrualSparesOthers
<1>7. ASSUME NEW u \in Users, NEW t \in Tranches, NEW amount \in Amounts, Deposit(u, t, amount)
      PROVE  Goal
  <2>1. AccruePool /\ UNCHANGED <<pool, lossCount, events>>
    BY <1>7 DEF Deposit, DepositAccepts, DepositedShares, DepositedBooks, DepositedBase,
                DepositedHoldings
  <2>2. base' = [AccruedBase EXCEPT ![u] = @ - amount, !["vault"] = @ + amount]
    BY <1>7 DEF Deposit, DepositAccepts, DepositedShares, DepositedBooks, DepositedBase,
                DepositedHoldings
  <2>3. base'["pvault"] = base["pvault"]
    BY <2>1, <2>2, AccrualKeepsBooks, AccrualSparesOthers, AccountsApart
  <2> QED
    BY <2>1, <2>3, AccrualGrows
<1>8. ASSUME NEW u \in Users, NEW t \in Tranches, NEW shares \in Amounts, Redeem(u, t, shares)
      PROVE  Goal
  <2>1. AccruePool /\ UNCHANGED <<pool, lossCount, events>>
    BY <1>8 DEF Redeem
  <2>2. PICK amount \in Nat :
          base' = [AccruedBase EXCEPT !["vault"] = @ - amount, ![u] = @ + amount]
    BY <1>8, RedeemEffect
  <2>3. base'["pvault"] = base["pvault"]
    BY <2>1, <2>2, AccrualKeepsBooks, AccrualSparesOthers, AccountsApart
  <2> QED
    BY <2>1, <2>3, AccrualGrows
<1>9. ASSUME NEW u \in Users, NEW bps \in LossRates, RecordLoss(u, bps) PROVE Goal
  BY <1>9, RecordLossGrows
<1> HIDE DEF Goal
<1>10. Goal
  BY <1>1, <1>2, <1>3, <1>4, <1>5, <1>6, <1>7, <1>8, <1>9 DEF PoolNext, Goal
<1> QED
  BY <1>0, <1>10 DEF Goal

-----------------------------------------------------------------------------
(* CoverInv, step by step.  First what every step needs: contracts nobody  *)
(* touched stay in order.                                                  *)
LEMMA UntouchedContracts ==
  ASSUME CoverInv, PoolInv', HistoryGrows
  PROVE  \A key \in DOMAIN contracts :
           ContractOK(contracts[key], modelTime', lossCount', events')
<1>1. modelTime' \in Nat /\ lossCount' \in Nat
  BY ScaleAssumption, PoolAssumption DEF PoolInv, PoolTypeOK, U64
<1> QED
  BY <1>1, ContractStays DEF CoverInv, ContractsOK

(* The instructions of the pool leave the market in order.                 *)
LEMMA PoolStepKeepsCover ==
  ASSUME CoverInv, PoolNext, UNCHANGED coverVars
  PROVE  CoverInv'
<1>1. PoolInv' /\ HistoryGrows /\ base'["pvault"] = base["pvault"]
  BY PoolPart DEF CoverInv
<1>2. UNCHANGED <<cover, collateral, reserved, shareSupply, bought, positions, contracts>>
  BY DEF coverVars
<1>3. CoverTypeOK' /\ CoverSolvent'
  BY <1>1, <1>2 DEF CoverInv, CoverTypeOK, CoverSolvent
<1>4. CoverAccepted'
  BY <1>1, <1>2 DEF CoverInv, CoverAccepted, HistoryGrows
<1>5. NothingBeforeCover' /\ NoSharesNoCollateral'
  BY <1>2 DEF CoverInv, NothingBeforeCover, NoSharesNoCollateral
<1>6. ContractsOK'
  BY <1>1, <1>2, UntouchedContracts DEF ContractsOK
<1> QED
  BY <1>1, <1>3, <1>4, <1>5, <1>6 DEF CoverInv

(* A step in which nothing happens.                                        *)
LEMMA StutterKeepsCover ==
  ASSUME CoverInv, UNCHANGED vars
  PROVE  CoverInv'
<1>1. UNCHANGED poolVars /\ UNCHANGED coverVars
  BY DEF vars, poolVars, coverVars
<1>2. PoolInv'
  BY <1>1, PoolInvNext DEF CoverInv
<1>3. /\ UNCHANGED <<pool, modelTime, lossCount, events, base>>
      /\ UNCHANGED <<cover, collateral, reserved, shareSupply, bought, positions, contracts>>
  BY DEF vars
<1>4. CoverTypeOK' /\ CoverSolvent' /\ CoverAccepted' /\ NothingBeforeCover'
      /\ NoSharesNoCollateral' /\ ContractsOK'
  BY <1>3 DEF CoverInv, CoverTypeOK, CoverSolvent, CoverAccepted, NothingBeforeCover,
              NoSharesNoCollateral, ContractsOK
<1> QED
  BY <1>2, <1>4 DEF CoverInv

(* init_protection.rs: the parameters are fixed once, for an empty market. *)
LEMMA InitProtectionStep ==
  ASSUME CoverInv, NEW signer \in Users, NEW c \in CoverParams, InitProtection(signer, c)
  PROVE  CoverInv'
<1>1. /\ pool # NoPool /\ cover = NoCover /\ ValidCover(c) /\ cover' = c
      /\ UNCHANGED <<collateral, reserved, shareSupply, bought, positions, contracts>>
      /\ UNCHANGED poolVars
  BY DEF InitProtection
<1>2. PoolInv'
  BY <1>1, PoolInvNext DEF CoverInv
<1>3. UNCHANGED <<pool, modelTime, lossCount, events, base>>
  BY <1>1 DEF poolVars
<1>4. CoverTypeOK' /\ CoverSolvent' /\ CoverAccepted'
  BY <1>1, <1>3 DEF CoverInv, CoverTypeOK, CoverSolvent, CoverAccepted
<1>5. NothingBeforeCover'
  BY <1>1, ProtectionAssumption DEF NothingBeforeCover
<1>6. NoSharesNoCollateral' /\ ContractsOK'
  BY <1>1, <1>3 DEF CoverInv, NoSharesNoCollateral, ContractsOK
<1> QED
  BY <1>2, <1>4, <1>5, <1>6 DEF CoverInv

(* A step of the market on the pool as the last accrual left it.           *)
LEMMA MarketOnlyStep ==
  ASSUME CoverInv,
         UNCHANGED <<clock, config, pool, balances, modelTime, lastAccrued, lossCount,
                     events, minted, held>>,
         base' \in TokenAccounts, base'["vault"] = base["vault"]
  PROVE  PoolInv' /\ HistoryGrows
<1>1. /\ clock' \in 0 .. MaxClock /\ config' \in Config \cup {NoConfig}
      /\ minted' \in U64 /\ held' \in ShareAccounts
  BY DEF CoverInv, PoolInv, PoolTypeOK
<1> QED
  BY <1>1, IdleStep, IdleGrows DEF CoverInv

(* provide_protection.rs: what comes into pvault is collateral, and there  *)
(* are shares for it.                                                      *)
LEMMA ProvideStep ==
  ASSUME CoverInv, NEW owner \in Users, NEW amount \in CoverAmounts,
         ProvideProtection(owner, amount)
  PROVE  CoverInv'
<1> DEFINE shares == SharesForCollateral(amount, collateral, shareSupply)
<1>1. /\ cover # NoCover /\ shares > 0
      /\ shareSupply + shares \in U64
      /\ shareSupply' = shareSupply + shares
      /\ positions' \in SellerPositions
      /\ base' = [base EXCEPT ![owner] = @ - amount, !["pvault"] = @ + amount]
      /\ base' \in TokenAccounts
      /\ collateral + amount \in U64
      /\ collateral' = collateral + amount
      /\ UNCHANGED <<clock, config, pool, balances, modelTime, lastAccrued, lossCount,
                     events, minted, held, cover, reserved, bought, contracts>>
  BY DEF ProvideProtection, ProvideAccepts, ProvidedShares, ProvidedPositions, PaidToMarket
<1>2. amount \in Nat
  BY ProtectionAssumption, ScaleAssumption DEF U64
<1> HIDE DEF shares
<1>3. base \in TokenAccounts
  BY DEF CoverInv, PoolInv, PoolTypeOK
<1>4. base'["vault"] = base["vault"] /\ base'["pvault"] = base["pvault"] + amount
  BY <1>1, <1>3, AccountsApart DEF TokenAccounts
<1>5. PoolInv' /\ HistoryGrows
  BY <1>1, <1>4, MarketOnlyStep
<1>6. CoverTypeOK'
  BY <1>1 DEF CoverInv, CoverTypeOK
<1>7. CoverSolvent'
  BY <1>1, <1>2, <1>4, CoverNumbers DEF CoverSolvent
<1>8. CoverAccepted' /\ NothingBeforeCover'
  BY <1>1 DEF CoverInv, CoverAccepted, NothingBeforeCover
<1>9. NoSharesNoCollateral'
  <2>1. shares \in Int
    BY <1>1, <1>2, CoverNumbers, DepositKeepsPrice DEF CoverInv, NoSharesNoCollateral,
       SharesForCollateral, shares
  <2> QED
    BY <1>1, <2>1, CoverNumbers DEF NoSharesNoCollateral
<1>10. ContractsOK'
  BY <1>1, <1>5, UntouchedContracts DEF ContractsOK
<1> QED
  BY <1>5, <1>6, <1>7, <1>8, <1>9, <1>10 DEF CoverInv

(* withdraw_protection.rs: no more than is free leaves, and the last share *)
(* takes all of it.                                                        *)
LEMMA WithdrawStep ==
  ASSUME CoverInv, NEW owner \in Users, NEW shares \in U64,
         WithdrawProtection(owner, shares)
  PROVE  CoverInv'
<1> DEFINE amount == CollateralForShares(shares, collateral, shareSupply)
<1>1. /\ cover # NoCover /\ shares > 0
      /\ shares <= positions[owner] /\ shares <= shareSupply
      /\ amount > 0 /\ amount <= Free
      /\ base' = [base EXCEPT !["pvault"] = @ - amount, ![owner] = @ + amount]
      /\ base' \in TokenAccounts
      /\ collateral' = collateral - amount
      /\ shareSupply' = shareSupply - shares
      /\ positions' = [positions EXCEPT ![owner] = @ - shares]
      /\ UNCHANGED <<clock, config, pool, balances, modelTime, lastAccrued, lossCount,
                     events, minted, held, cover, reserved, bought, contracts>>
  BY DEF WithdrawProtection, WithdrawAccepts, Withdrawn, PaidFromMarket
<1>2. shares \in Nat
  BY ProtectionAssumption, ScaleAssumption DEF U64
<1>3. amount \in 0 .. collateral /\ (shares = shareSupply => amount = collateral)
  BY <1>1, <1>2, CoverNumbers, RedeemKeepsPrice DEF CollateralForShares
<1> HIDE DEF amount
<1>4. base \in TokenAccounts /\ positions \in SellerPositions
      /\ collateral \in U64 /\ shareSupply \in U64
  BY DEF CoverInv, PoolInv, PoolTypeOK, CoverTypeOK
<1>5. base'["vault"] = base["vault"] /\ base'["pvault"] = base["pvault"] - amount
  BY <1>1, <1>4, AccountsApart DEF TokenAccounts
<1>6. PoolInv' /\ HistoryGrows
  BY <1>1, <1>5, MarketOnlyStep
<1>7. CoverTypeOK'
  <2>1. positions' \in SellerPositions
    BY <1>1, <1>2, <1>4, ScaleAssumption DEF SellerPositions, U64
  <2>2. shareSupply' \in U64 /\ collateral' \in U64
    BY <1>1, <1>2, <1>3, <1>4, CoverNumbers, ScaleAssumption DEF U64
  <2> QED
    BY <1>1, <2>1, <2>2 DEF CoverInv, CoverTypeOK
<1>8. CoverSolvent'
  BY <1>1, <1>3, <1>5, CoverNumbers DEF CoverSolvent, Free
<1>9. CoverAccepted' /\ NothingBeforeCover'
  BY <1>1 DEF CoverInv, CoverAccepted, NothingBeforeCover
<1>10. NoSharesNoCollateral'
  BY <1>1, <1>2, <1>3, CoverNumbers DEF NoSharesNoCollateral
<1>11. ContractsOK'
  BY <1>1, <1>6, UntouchedContracts DEF ContractsOK
<1> QED
  BY <1>6, <1>7, <1>8, <1>9, <1>10, <1>11 DEF CoverInv

(* What a purchase moves: the buyer pays the premium, a part of it is the  *)
(* treasury's fee, the rest is collateral, and there is one contract more. *)
Purchase(buyer, nonce, premium, fee, contract) ==
  /\ base' = [AccruedBase EXCEPT ![buyer] = @ - premium,
                                 !["treasury"] = @ + fee,
                                 !["pvault"] = @ + (premium - fee)]
  /\ collateral' = collateral + (premium - fee)
  /\ collateral' \in U64
  /\ contract.expiry_model_time \in U64
  /\ contracts' = [k \in DOMAIN contracts \cup {<<buyer, nonce>>} |->
                     IF k = <<buyer, nonce>> THEN contract ELSE contracts[k]]

(* buy_protection.rs is a Purchase with a fee that is a part of the        *)
(* premium.                                                                *)
LEMMA BuyEffect ==
  ASSUME CoverInv, NEW buyer \in Users, NEW notional \in CoverAmounts,
         NEW term \in Terms, NEW nonce \in Nonces,
         BuyProtection(buyer, notional, term, nonce)
  PROVE  \E premium \in U64, fee \in Nat :
           /\ fee <= premium
           /\ Purchase(buyer, nonce, premium, fee, NewContract(notional, premium, term))
<1> DEFINE premium == Premium(notional, cover.premium_rate_bps, term)
           fee == PremiumFee(premium, cover.premium_fee_bps)
<1>1. /\ cover # NoCover
      /\ premium \in U64
      /\ Purchase(buyer, nonce, premium, fee, NewContract(notional, premium, term))
  BY DEF BuyProtection, BuyAccepts, Price, PriceFee, PriceNet, Bought, BoughtBase, Purchase
<1>2. premium \in Nat
  BY <1>1, ScaleAssumption DEF U64
<1> HIDE DEF premium
<1>3. fee \in 0 .. premium
  BY <1>1, <1>2, CoverNumbers, MulBpsIsPart DEF PremiumFee
<1> HIDE DEF fee
<1> QED
  BY <1>1, <1>2, <1>3

(* buy_protection.rs: the notional was free before the premium came in; a  *)
(* new contract starts now, behind every loss on record.                   *)
LEMMA BuyStep ==
  ASSUME CoverInv, NEW buyer \in Users, NEW notional \in CoverAmounts,
         NEW term \in Terms, NEW nonce \in Nonces,
         BuyProtection(buyer, notional, term, nonce)
  PROVE  CoverInv'
<1>1. PICK premium \in U64, fee \in Nat :
        /\ fee <= premium
        /\ Purchase(buyer, nonce, premium, fee, NewContract(notional, premium, term))
  BY BuyEffect
<1> DEFINE net == premium - fee
           new == NewContract(notional, premium, term)
<1>0. /\ base' = [AccruedBase EXCEPT ![buyer] = @ - premium,
                                     !["treasury"] = @ + fee,
                                     !["pvault"] = @ + net]
      /\ collateral' = collateral + net
      /\ collateral' \in U64
      /\ new.expiry_model_time \in U64
      /\ contracts' = [k \in DOMAIN contracts \cup {<<buyer, nonce>>} |->
                         IF k = <<buyer, nonce>> THEN new ELSE contracts[k]]
      /\ net \in Nat
  BY <1>1, ScaleAssumption DEF Purchase, U64
<1> HIDE DEF net, new
<1>2. /\ cover # NoCover
      /\ notional > 0 /\ notional <= Free
      /\ AccruePool /\ AccrualFits
      /\ base' \in TokenAccounts
      /\ reserved + notional \in U64
      /\ reserved' = reserved + notional
      /\ bought' \in U64
      /\ balances' = Accrued
      /\ minted' = AccruedMint
      /\ UNCHANGED <<clock, config, pool, lossCount, events, held, cover, shareSupply, positions>>
  BY DEF BuyProtection, BuyAccepts, Price, PriceFee, PriceNet, Bought, BoughtBase, AccruePool
<1>3. /\ premium \in U64 /\ notional \in Nat /\ term \in Nat
      /\ notional \in U64
  BY ProtectionAssumption, ScaleAssumption DEF U64
<1>4. PoolInv
  BY DEF CoverInv
<1>5. /\ base'["vault"] = AccruedBase["vault"]
      /\ base'["pvault"] = collateral + net
  BY <1>0, <1>2, <1>4, AccrualKeepsBooks, AccrualSparesOthers, AccountsApart, CoverNumbers
<1>6. PoolInv'
  <2>1. minted' \in U64 /\ held' \in ShareAccounts
    BY <1>2, <1>4 DEF AccrualFits, PoolInv, PoolTypeOK
  <2> QED
    BY <1>2, <1>4, <1>5, <2>1, AccrualKeepsBooks, AccruedStep
<1>7. HistoryGrows
  BY <1>2, <1>4, AccrualGrows
<1>8. modelTime' = modelTime + DtModel /\ modelTime' \in U64 /\ modelTime' >= modelTime
  BY <1>2, <1>4, AccrualMovesClock
<1>9. new \in Contract
  <2>1. /\ new = [notional |-> notional, premium |-> premium, start_model_time |-> modelTime',
                  expiry_model_time |-> modelTime' + term, trigger_bps |-> cover.trigger_bps,
                  loss_index_from |-> lossCount, status |-> "Active",
                  settled_loss_index |-> 0, payout |-> 0]
        /\ modelTime' + term \in U64
    BY <1>0, <1>8 DEF NewContract, new
  <2>2. cover.trigger_bps \in 0 .. BPS
    BY <1>2, CoverNumbers
  <2>3. lossCount \in 0 .. MaxLosses /\ 0 \in 0 .. MaxLosses /\ 0 \in U64
    BY <1>4, PoolAssumption, ScaleAssumption DEF PoolInv, PoolTypeOK, U64
  <2> QED
    BY <1>3, <1>8, <2>1, <2>2, <2>3 DEF Contract
<1>10. ContractOK(new, modelTime', lossCount', events')
  <2>1. /\ new.start_model_time = modelTime' /\ new.loss_index_from = lossCount
        /\ new.status = "Active" /\ new.payout = 0
    BY <1>8 DEF NewContract, new
  <2>2. modelTime \in Nat /\ modelTime' \in Nat /\ lossCount \in Nat
    BY <1>4, <1>8, ScaleAssumption, PoolAssumption DEF PoolInv, PoolTypeOK, U64
  <2>3. ASSUME NEW i \in DOMAIN events'
        PROVE  ~ (i >= lossCount) /\ events'[i].model_time <= modelTime'
    BY <1>2, <1>4, <1>8, <2>2, EventFields
  <2> QED
    BY <1>2, <2>1, <2>2, <2>3 DEF ContractOK
<1>11. CoverTypeOK'
  <2>1. <<buyer, nonce>> \in Users \X Nonces
    OBVIOUS
  <2>2. DOMAIN contracts' = DOMAIN contracts \cup {<<buyer, nonce>>}
    BY <1>0
  <2>3. contracts' \in [DOMAIN contracts' -> Contract]
    BY <1>0, <1>9, <2>2 DEF CoverInv, CoverTypeOK
  <2> QED
    BY <1>0, <1>2, <2>1, <2>2, <2>3 DEF CoverInv, CoverTypeOK
<1>12. CoverSolvent'
  BY <1>0, <1>2, <1>3, <1>5, CoverNumbers DEF CoverSolvent, Free
<1>13. CoverAccepted' /\ NothingBeforeCover'
  BY <1>2 DEF CoverInv, CoverAccepted, NothingBeforeCover
<1>14. NoSharesNoCollateral'
  BY <1>2, <1>3, CoverNumbers DEF CoverInv, NoSharesNoCollateral
<1>15. ContractsOK'
  BY <1>0, <1>6, <1>7, <1>10, UntouchedContracts DEF ContractsOK
<1> QED
  BY <1>6, <1>11, <1>12, <1>13, <1>14, <1>15 DEF CoverInv

(* settle_protection.rs: the payout is a part of the notional, and with it *)
(* goes the whole reserve of the contract.                                 *)
LEMMA SettleEffect ==
  ASSUME CoverInv, NEW key \in DOMAIN contracts, NEW i \in DOMAIN events,
         SettleProtection(key, i)
  PROVE  LET payout == Payout(contracts[key].notional, events[i].loss_bps)
         IN  /\ payout \in 1 .. contracts[key].notional
             /\ base' = [base EXCEPT !["pvault"] = @ - payout, ![key[1]] = @ + payout]
             /\ base'["pvault"] = base["pvault"] - payout
             /\ base'["vault"] = base["vault"]
             /\ base'[key[1]] = base[key[1]] + payout
             /\ collateral' = collateral - payout
             /\ reserved' = reserved - contracts[key].notional
             /\ contracts' = [contracts EXCEPT ![key] =
                                 Closed(contracts[key], "Settled", i, payout)]
<1> DEFINE c == contracts[key]
           payout == Payout(c.notional, events[i].loss_bps)
<1>1. /\ payout > 0
      /\ base' = [base EXCEPT !["pvault"] = @ - payout, ![key[1]] = @ + payout]
      /\ collateral' = collateral - payout
      /\ reserved' = reserved - c.notional
      /\ contracts' = [contracts EXCEPT ![key] = Closed(c, "Settled", i, payout)]
  BY DEF SettleProtection, AfterSettle, SettleAccepts, Claim, PaidFromMarket
<1>2. c.notional \in Nat /\ key[1] \in Users
  BY ContractFields
<1>3. events[i].loss_bps \in 0 .. BPS
  BY EventFields DEF CoverInv
<1>4. payout \in 0 .. c.notional
  BY <1>2, <1>3, MulBpsIsPart DEF Payout
<1>5. base \in TokenAccounts
  BY DEF CoverInv, PoolInv, PoolTypeOK
<1> HIDE DEF payout
<1>6. /\ base'["pvault"] = base["pvault"] - payout
      /\ base'["vault"] = base["vault"]
      /\ base'[key[1]] = base[key[1]] + payout
  BY <1>1, <1>2, <1>5, AccountsApart DEF TokenAccounts
<1>7. payout \in 1 .. c.notional
  BY <1>1, <1>2, <1>4
<1> QED
  BY <1>1, <1>6, <1>7 DEF payout

(* Settling closes the contract for a record of its term, and leaves the   *)
(* others as covered as they were.                                         *)
LEMMA SettleStep ==
  ASSUME CoverInv, NEW key \in DOMAIN contracts, NEW i \in DOMAIN events,
         SettleProtection(key, i)
  PROVE  CoverInv'
<1> DEFINE c == contracts[key]
           payout == Payout(c.notional, events[i].loss_bps)
           d == Closed(c, "Settled", i, payout)
<1>1. /\ payout \in 1 .. c.notional
      /\ base'["pvault"] = base["pvault"] - payout
      /\ base'["vault"] = base["vault"]
      /\ collateral' = collateral - payout
      /\ reserved' = reserved - c.notional
      /\ contracts' = [contracts EXCEPT ![key] = d]
  BY SettleEffect
<1>2. /\ IsActive(key)
      /\ CoveredBy(c, i)
      /\ base' \in TokenAccounts
      /\ collateral' \in U64 /\ reserved' \in U64
      /\ UNCHANGED <<clock, config, pool, balances, modelTime, lastAccrued, lossCount,
                     events, minted, held, cover, shareSupply, bought, positions>>
  BY <1>1 DEF SettleProtection, AfterSettle, SettleAccepts, Claim, PaidFromMarket
<1>3. c \in Contract /\ c.notional \in U64 /\ c.notional \in Nat
  BY ContractFields DEF Contract
<1>4. i \in 0 .. MaxLosses
  BY EventFields DEF CoverInv
<1> HIDE DEF payout
<1>5. payout \in U64
  BY <1>1, <1>3, ScaleAssumption DEF U64
<1>6. d \in Contract
  BY <1>3, <1>4, <1>5 DEF Closed, Contract
<1>7. PoolInv' /\ HistoryGrows
  BY <1>1, <1>2, MarketOnlyStep
<1>8. CoverTypeOK'
  BY <1>1, <1>2, <1>6 DEF CoverInv, CoverTypeOK
<1>9. CoverSolvent'
  BY <1>1, <1>3, CoverNumbers DEF CoverSolvent
<1>10. CoverAccepted' /\ NothingBeforeCover' /\ NoSharesNoCollateral'
  <2>1. cover # NoCover
    BY ContractFields
  <2>2. shareSupply # 0
    BY <1>1, <1>2, <1>3, ScaleAssumption DEF CoverInv, NoSharesNoCollateral, U64
  <2> QED
    BY <1>2, <2>1, <2>2 DEF CoverInv, CoverAccepted, NothingBeforeCover, NoSharesNoCollateral
<1>11. ContractOK(d, modelTime, lossCount, events)
  <2>1. ContractOK(c, modelTime, lossCount, events)
    BY DEF CoverInv, ContractsOK
  <2>2. i >= c.loss_index_from /\ events[i].model_time <= c.expiry_model_time
        /\ events[i].loss_bps >= c.trigger_bps
    BY <1>2 DEF CoveredBy
  <2>3. events[i].model_time >= c.start_model_time
    BY <2>1, <2>2 DEF ContractOK
  <2>4. events[i].model_time \in c.start_model_time .. c.expiry_model_time
    BY <2>2, <2>3, ContractFields, EventFields DEF CoverInv
  <2> QED
    BY <1>1, <2>1, <2>2, <2>4 DEF ContractOK, Closed, payout
<1>12. ContractsOK'
  BY <1>1, <1>2, <1>11 DEF CoverInv, ContractsOK
<1> QED
  BY <1>7, <1>8, <1>9, <1>10, <1>12 DEF CoverInv

(* What expire_protection.rs moves: only the reserve.                      *)
LEMMA ExpireEffect ==
  ASSUME CoverInv, NEW signer \in Users, NEW key \in DOMAIN contracts,
         ExpireProtection(signer, key)
  PROVE  LET d == Closed(contracts[key], "Expired", contracts[key].settled_loss_index,
                         contracts[key].payout)
         IN  /\ contracts' = [contracts EXCEPT ![key] = d]
             /\ d \in Contract
             /\ d.payout = 0
             /\ d.expiry_model_time <= modelTime'
             /\ reserved' = reserved - contracts[key].notional
             /\ reserved' \in U64
             /\ base' = AccruedBase
             /\ UNCHANGED <<cover, collateral, shareSupply, bought, positions>>
<1>1. /\ IsActive(key)
      /\ AccruePool
      /\ modelTime + DtModel >= contracts[key].expiry_model_time
      /\ contracts' = [contracts EXCEPT ![key] =
                         Closed(@, "Expired", @.settled_loss_index, @.payout)]
      /\ reserved' = reserved - contracts[key].notional
      /\ reserved' \in U64
      /\ base' = AccruedBase
      /\ UNCHANGED <<cover, collateral, shareSupply, bought, positions>>
  BY DEF ExpireProtection, ExpireAccepts
<1>2. modelTime' = modelTime + DtModel
  BY <1>1 DEF AccruePool
<1>3. contracts[key].payout = 0
  BY <1>1 DEF CoverInv, ContractsOK, ContractOK, IsActive
<1>4. contracts[key] \in Contract
  BY ContractFields
<1> QED
  BY <1>1, <1>2, <1>3, <1>4, ContractFields, AccrualMovesClock, ScaleAssumption
     DEF Closed, Contract, CoverInv, U64

(* Expiry closes the contract past its term and leaves the collateral.     *)
LEMMA ExpireStep ==
  ASSUME CoverInv, NEW signer \in Users, NEW key \in DOMAIN contracts,
         ExpireProtection(signer, key)
  PROVE  CoverInv'
<1> DEFINE c == contracts[key]
           d == Closed(c, "Expired", c.settled_loss_index, c.payout)
<1>1. /\ contracts' = [contracts EXCEPT ![key] = d]
      /\ d \in Contract
      /\ d.payout = 0
      /\ d.expiry_model_time <= modelTime'
      /\ reserved' = reserved - c.notional
      /\ reserved' \in U64
      /\ base' = AccruedBase
      /\ UNCHANGED <<cover, collateral, shareSupply, bought, positions>>
  BY ExpireEffect
<1>2. /\ AccruePool /\ AccrualFits
      /\ balances' = Accrued
      /\ base' \in TokenAccounts
      /\ minted' = AccruedMint
      /\ UNCHANGED <<clock, config, pool, lossCount, events, held>>
  BY DEF ExpireProtection, ExpireAccepts, AccruePool
<1>3. PoolInv /\ c.notional \in Nat
  BY ContractFields DEF CoverInv
<1>4. PoolInv'
  <2>1. minted' \in U64 /\ held' \in ShareAccounts
    BY <1>2, <1>3 DEF AccrualFits, PoolInv, PoolTypeOK
  <2> QED
    BY <1>1, <1>2, <1>3, <2>1, AccrualKeepsBooks, AccruedStep
<1>5. HistoryGrows
  BY <1>2, <1>3, AccrualGrows
<1>6. CoverTypeOK'
  BY <1>1 DEF CoverInv, CoverTypeOK
<1>7. CoverSolvent'
  BY <1>1, <1>3, CoverNumbers, AccrualSparesOthers DEF CoverSolvent
<1>8. CoverAccepted' /\ NothingBeforeCover' /\ NoSharesNoCollateral'
  BY <1>1, <1>2 DEF CoverInv, CoverAccepted, NothingBeforeCover, NoSharesNoCollateral
<1>9. ContractOK(d, modelTime', lossCount', events')
  <2>1. ContractOK(c, modelTime', lossCount', events')
    BY <1>4, <1>5, UntouchedContracts
  <2>2. modelTime' \in Nat /\ d.expiry_model_time \in Nat
    BY <1>1, <1>4, ScaleAssumption DEF PoolInv, PoolTypeOK, Contract, U64
  <2> QED
    BY <1>1, <2>1, <2>2 DEF ContractOK, Closed
<1>10. ContractsOK'
  BY <1>1, <1>4, <1>5, <1>9, UntouchedContracts DEF ContractsOK
<1> QED
  BY <1>4, <1>6, <1>7, <1>8, <1>10 DEF CoverInv

(* CoverInv holds before any account exists.                               *)
LEMMA CoverInvInit == Init => CoverInv
<1> SUFFICES ASSUME Init PROVE CoverInv
  OBVIOUS
<1>1. PoolInv /\ base["pvault"] = 0
  BY PoolInvInit DEF Init, PoolInit, Accounts
<1>2. 0 \in U64
  BY ScaleAssumption DEF U64
<1>3. CoverTypeOK
  BY <1>2 DEF Init, CoverTypeOK, SellerPositions
<1>4. CoverSolvent /\ CoverAccepted /\ NothingBeforeCover /\ NoSharesNoCollateral
  BY <1>1 DEF Init, CoverSolvent, CoverAccepted, NothingBeforeCover, NoSharesNoCollateral
<1>5. ContractsOK
  BY DEF Init, ContractsOK
<1> QED
  BY <1>1, <1>3, <1>4, <1>5 DEF CoverInv

(* Every instruction of the program keeps CoverInv.                        *)
LEMMA CoverInvNext == CoverInv /\ [Next]_vars => CoverInv'
<1> SUFFICES ASSUME CoverInv, [Next]_vars PROVE CoverInv'
  OBVIOUS
<1>1. CASE PoolNext /\ UNCHANGED coverVars
  BY <1>1, PoolStepKeepsCover
<1>2. ASSUME NEW u \in Users, NEW c \in CoverParams, InitProtection(u, c)
      PROVE  CoverInv'
  BY <1>2, InitProtectionStep
<1>3. ASSUME NEW u \in Users, NEW amount \in CoverAmounts, ProvideProtection(u, amount)
      PROVE  CoverInv'
  BY <1>3, ProvideStep
<1>4. ASSUME NEW u \in Users, NEW shares \in U64, WithdrawProtection(u, shares)
      PROVE  CoverInv'
  BY <1>4, WithdrawStep
<1>5. ASSUME NEW u \in Users, NEW notional \in CoverAmounts, NEW term \in Terms,
             NEW nonce \in Nonces, BuyProtection(u, notional, term, nonce)
      PROVE  CoverInv'
  BY <1>5, BuyStep
<1>6. ASSUME NEW key \in DOMAIN contracts, NEW i \in DOMAIN events, SettleProtection(key, i)
      PROVE  CoverInv'
  BY <1>6, SettleStep
<1>7. ASSUME NEW u \in Users, NEW key \in DOMAIN contracts, ExpireProtection(u, key)
      PROVE  CoverInv'
  BY <1>7, ExpireStep
<1>8. CASE UNCHANGED vars
  BY <1>8, StutterKeepsCover
<1> QED
  BY <1>1, <1>2, <1>3, <1>4, <1>5, <1>6, <1>7, <1>8, SharesGiven DEF Next, CoverNext

-----------------------------------------------------------------------------
(* CoverInv holds in every state of the program.                           *)
THEOREM CoverInvariant == Spec => []CoverInv
BY CoverInvInit, CoverInvNext, PTL DEF Spec

(* The market's accounts keep their types.                                 *)
THEOREM CoverTypeCorrect == Spec => []CoverTypeOK
<1>1. CoverInv => CoverTypeOK
  BY DEF CoverInv
<1> QED
  BY <1>1, CoverInvariant, PTL

(* pvault holds the collateral, and no less than is reserved of it,        *)
(* whatever sellers, buyers and the operator do in whatever order.         *)
THEOREM CoverIsSolvent == Spec => []CoverSolvent
<1>1. CoverInv => CoverSolvent
  BY DEF CoverInv
<1> QED
  BY <1>1, CoverInvariant, PTL

(* settle_protection.rs may take the index of a loss record for its time.  *)
THEOREM IndexStandsForTime == Spec => []IndexIsTime
<1>1. CoverInv => IndexIsTime
  BY DEF CoverInv, ContractsOK, ContractOK, IndexIsTime
<1> QED
  BY <1>1, CoverInvariant, PTL

(* Every closed contract was closed for a reason: a loss in its term, paid *)
(* by that loss's part of the notional, or its end.                        *)
THEOREM ContractsCloseRightly == Spec => []ClosedRightly
<1>1. CoverInv => ClosedRightly
  BY DEF CoverInv, ContractsOK, ContractOK, ClosedRightly
<1> QED
  BY <1>1, CoverInvariant, PTL

(* The pool's own invariants hold with the market running over it: it      *)
(* shares the base mint, the treasury and the accrual with the pool.       *)
THEOREM PoolSoundUnderMarket ==
  Spec => [](PoolTypeOK /\ Solvent /\ EmptyTrancheHasNothing /\ ModelClockExact /\ EventsInOrder)
<1>1. CoverInv => PoolTypeOK /\ Solvent /\ EmptyTrancheHasNothing /\ ModelClockExact /\ EventsInOrder
  BY DEF CoverInv, PoolInv
<1> QED
  BY <1>1, CoverInvariant, PTL

-----------------------------------------------------------------------------
(* What a step never does.                                                 *)

(* The steps that leave the contracts alone.                               *)
LEMMA ContractsLeftAlone ==
  ASSUME \/ PoolNext /\ UNCHANGED coverVars
         \/ \E u \in Users, c \in CoverParams : InitProtection(u, c)
         \/ \E u \in Users, amount \in CoverAmounts : ProvideProtection(u, amount)
         \/ \E u \in Users, shares \in U64 : WithdrawProtection(u, shares)
         \/ UNCHANGED vars
  PROVE  contracts' = contracts
BY DEF coverVars, vars, InitProtection, ProvideProtection, ProvideAccepts, ProvidedShares,
       ProvidedPositions, PaidToMarket, WithdrawProtection

(* A purchase adds a contract and leaves the others alone.                 *)
LEMMA BuyAdds ==
  ASSUME CoverInv, NEW buyer \in Users, NEW notional \in CoverAmounts,
         NEW term \in Terms, NEW nonce \in Nonces,
         BuyProtection(buyer, notional, term, nonce),
         NEW key \in DOMAIN contracts
  PROVE  key \in DOMAIN contracts' /\ contracts'[key] = contracts[key]
<1>1. PICK premium \in U64, fee \in Nat :
        Purchase(buyer, nonce, premium, fee, NewContract(notional, premium, term))
  BY BuyEffect
<1>2. key # <<buyer, nonce>>
  BY DEF BuyProtection, BuyAccepts, Price, PriceFee, PriceNet, Bought, BoughtBase
<1> QED
  BY <1>1, <1>2 DEF Purchase

(* An open contract is closed, as paid by what leaves the collateral for   *)
(* its buyer, or as expired for nothing.                                   *)
Closes(key) ==
  /\ contracts[key].status = "Active"
  /\ \E status, i, payout :
       /\ status \in {"Settled", "Expired"}
       /\ contracts'[key] = Closed(contracts[key], status, i, payout)
       /\ collateral' + payout = collateral
       /\ base'[key[1]] = base[key[1]] + payout

(* A step leaves a contract alone or closes it.                            *)
LEMMA ContractStep ==
  ASSUME CoverInv, [Next]_vars, NEW key \in DOMAIN contracts
  PROVE  key \in DOMAIN contracts' /\ (contracts'[key] = contracts[key] \/ Closes(key))
<1> DEFINE Goal == key \in DOMAIN contracts'
                   /\ (contracts'[key] = contracts[key] \/ Closes(key))
<1>1. ASSUME NEW u \in Users, NEW notional \in CoverAmounts, NEW term \in Terms,
             NEW nonce \in Nonces, BuyProtection(u, notional, term, nonce)
      PROVE  Goal
  BY <1>1, BuyAdds
<1>2. ASSUME NEW k \in DOMAIN contracts, NEW i \in DOMAIN events, SettleProtection(k, i)
      PROVE  Goal
  <2> DEFINE payout == Payout(contracts[k].notional, events[i].loss_bps)
  <2>1. /\ contracts' = [contracts EXCEPT ![k] = Closed(contracts[k], "Settled", i, payout)]
        /\ payout \in Int
        /\ collateral' = collateral - payout
        /\ base'[k[1]] = base[k[1]] + payout
    <3>1. payout \in 1 .. contracts[k].notional
      BY <1>2, SettleEffect
    <3>2. payout \in Int
      BY <3>1
    <3> QED
      BY <1>2, <3>2, SettleEffect
  <2>4. contracts[k].status = "Active"
    BY <1>2 DEF SettleProtection, IsActive, SettleAccepts
  <2> HIDE DEF payout
  <2>2. CASE key = k
    <3>1. collateral' + payout = collateral
      BY <2>1, CoverNumbers
    <3>2. contracts'[key] = Closed(contracts[key], "Settled", i, payout)
      BY <2>1, <2>2
    <3> QED
      BY <2>1, <2>2, <2>4, <3>1, <3>2 DEF Closes
  <2>3. CASE key # k
    BY <2>1, <2>3
  <2> QED
    BY <2>2, <2>3
<1>3. ASSUME NEW u \in Users, NEW k \in DOMAIN contracts, ExpireProtection(u, k)
      PROVE  Goal
  <2> DEFINE d == Closed(contracts[k], "Expired", contracts[k].settled_loss_index,
                         contracts[k].payout)
  <2>1. /\ contracts' = [contracts EXCEPT ![k] = d]
        /\ d.payout = 0
        /\ collateral' = collateral
        /\ base' = AccruedBase
        /\ contracts[k].status = "Active"
    BY <1>3, ExpireEffect DEF ExpireProtection, ExpireAccepts, IsActive
  <2>2. CASE key = k
    <3>1. contracts[key].payout = 0
      BY <2>1, <2>2 DEF Closed
    <3>2. key[1] \in Users /\ base[key[1]] \in Nat
      BY ContractFields, ScaleAssumption
         DEF CoverInv, PoolInv, PoolTypeOK, TokenAccounts, U64, Accounts
    <3>3. base'[key[1]] = base[key[1]] + contracts[key].payout
      BY <2>1, <3>1, <3>2, AccrualSparesOthers DEF CoverInv
    <3>4. collateral' + contracts[key].payout = collateral
      BY <2>1, <3>1, CoverNumbers
    <3> QED
      BY <2>1, <2>2, <3>3, <3>4 DEF Closes
  <2>3. CASE key # k
    BY <2>1, <2>3
  <2> QED
    BY <2>2, <2>3
<1>4. contracts' = contracts => Goal
  OBVIOUS
<1> HIDE DEF Goal
<1>5. Goal
  BY <1>1, <1>2, <1>3, <1>4, ContractsLeftAlone, SharesGiven DEF Next, CoverNext
<1> QED
  BY <1>5 DEF Goal

(* A contract keeps its terms for good, and once closed it is never        *)
(* touched again, so it pays at most once.                                 *)

THEOREM ContractsCloseOnce == Spec => ContractClosesOnce
<1>1. CoverInv /\ [Next]_vars =>
        \A key \in DOMAIN contracts :
          /\ key \in DOMAIN contracts'
          /\ contracts[key].status # "Active" => contracts'[key] = contracts[key]
          /\ LET c == contracts[key]
                 d == contracts'[key]
             IN  \A f \in DOMAIN c \ {"status", "settled_loss_index", "payout"} : d[f] = c[f]
  <2> SUFFICES ASSUME CoverInv, [Next]_vars, NEW key \in DOMAIN contracts
      PROVE  /\ key \in DOMAIN contracts'
             /\ contracts[key].status # "Active" => contracts'[key] = contracts[key]
             /\ \A f \in DOMAIN contracts[key] \ {"status", "settled_loss_index", "payout"} :
                  contracts'[key][f] = contracts[key][f]
    OBVIOUS
  <2>1. key \in DOMAIN contracts' /\ (contracts'[key] = contracts[key] \/ Closes(key))
    BY ContractStep
  <2>2. ASSUME Closes(key), NEW f \in DOMAIN contracts[key] \ {"status", "settled_loss_index", "payout"}
        PROVE  contracts'[key][f] = contracts[key][f]
    <3>1. PICK status, i, payout :
            contracts'[key] = Closed(contracts[key], status, i, payout)
      BY <2>2 DEF Closes
    <3>2. contracts[key] \in Contract
      BY ContractFields
    <3> QED
      BY <2>2, <3>1, <3>2 DEF Closed, Contract
  <2> QED
    BY <2>1, <2>2 DEF Closes
<1> QED
  BY <1>1, CoverInvariant, PTL DEF Spec, ContractClosesOnce

(* Closing a contract moves exactly its payout from the sellers'           *)
(* collateral to the buyer.                                                *)
THEOREM ClosingsAreZeroSum == Spec => ClosingIsZeroSum
<1>1. CoverInv /\ [Next]_vars =>
        \A key \in DOMAIN contracts :
          contracts'[key].status # contracts[key].status =>
            /\ collateral' + contracts'[key].payout = collateral
            /\ base'[key[1]] = base[key[1]] + contracts'[key].payout
  <2> SUFFICES ASSUME CoverInv, [Next]_vars, NEW key \in DOMAIN contracts,
                      contracts'[key].status # contracts[key].status
               PROVE  /\ collateral' + contracts'[key].payout = collateral
                      /\ base'[key[1]] = base[key[1]] + contracts'[key].payout
    OBVIOUS
  <2>1. Closes(key)
    BY ContractStep
  <2>2. PICK status, i, payout :
          /\ contracts'[key] = Closed(contracts[key], status, i, payout)
          /\ collateral' + payout = collateral
          /\ base'[key[1]] = base[key[1]] + payout
    BY <2>1 DEF Closes
  <2>3. contracts'[key].payout = payout
    BY <2>2 DEF Closed
  <2> QED
    BY <2>2, <2>3
<1> QED
  BY <1>1, CoverInvariant, PTL DEF Spec, ClosingIsZeroSum

(* A seller's share is worth no less after a step that settles nothing.    *)
LEMMA SellerPriceStep ==
  ASSUME CoverInv, [Next]_vars,
         \A key \in ActiveContracts : contracts'[key].status # "Settled"
  PROVE  collateral' * shareSupply >= collateral * shareSupply'
<1> DEFINE Goal == collateral' * shareSupply >= collateral * shareSupply'
<1>0. collateral \in Nat /\ shareSupply \in Nat
  BY CoverNumbers
<1>1. UNCHANGED <<collateral, shareSupply>> => Goal
  BY <1>0, SMT
<1>2. CASE PoolNext /\ UNCHANGED coverVars
  BY <1>1, <1>2 DEF coverVars
<1>3. ASSUME NEW u \in Users, NEW c \in CoverParams, InitProtection(u, c)
      PROVE  Goal
  BY <1>1, <1>3 DEF InitProtection
<1>4. ASSUME NEW u \in Users, NEW amount \in CoverAmounts, ProvideProtection(u, amount)
      PROVE  Goal
  <2> DEFINE shares == SharesForCollateral(amount, collateral, shareSupply)
  <2>1. collateral' = collateral + amount /\ shareSupply' = shareSupply + shares
    BY <1>4 DEF ProvideProtection, ProvideAccepts, ProvidedShares, ProvidedPositions, PaidToMarket
  <2>2. amount \in Nat
    BY ProtectionAssumption, ScaleAssumption DEF U64
  <2>3. shares \in Nat /\ shares * collateral <= amount * shareSupply
    BY <1>0, <2>2, DepositKeepsPrice DEF CoverInv, NoSharesNoCollateral, SharesForCollateral
  <2> HIDE DEF shares
  <2>4. (collateral + amount) * shareSupply >= collateral * (shareSupply + shares)
    BY <1>0, <2>2, <2>3, SMT
  <2> QED
    BY <2>1, <2>4
<1>5. ASSUME NEW u \in Users, NEW shares \in U64, WithdrawProtection(u, shares)
      PROVE  Goal
  <2> DEFINE amount == CollateralForShares(shares, collateral, shareSupply)
  <2>1. /\ collateral' = collateral - amount /\ shareSupply' = shareSupply - shares
        /\ shares <= shareSupply
    BY <1>5 DEF WithdrawProtection, WithdrawAccepts, Withdrawn
  <2>2. shares \in Nat
    BY ProtectionAssumption, ScaleAssumption DEF U64
  <2>3. amount \in 0 .. collateral /\ amount * shareSupply <= shares * collateral
    BY <1>0, <2>1, <2>2, RedeemKeepsPrice DEF CollateralForShares
  <2> HIDE DEF amount
  <2>4. (collateral - amount) * shareSupply >= collateral * (shareSupply - shares)
    BY <1>0, <2>2, <2>3, SMT
  <2> QED
    BY <2>1, <2>4
<1>6. ASSUME NEW u \in Users, NEW notional \in CoverAmounts, NEW term \in Terms,
             NEW nonce \in Nonces, BuyProtection(u, notional, term, nonce)
      PROVE  Goal
  <2>1. PICK premium \in U64, fee \in Nat :
          /\ fee <= premium
          /\ Purchase(u, nonce, premium, fee, NewContract(notional, premium, term))
    BY <1>6, BuyEffect
  <2>2. collateral' = collateral + (premium - fee) /\ shareSupply' = shareSupply
    BY <1>6, <2>1 DEF Purchase, BuyProtection, BuyAccepts, Price, PriceFee, PriceNet, Bought,
                      BoughtBase
  <2>3. premium - fee \in Nat
    BY <2>1, ScaleAssumption DEF U64
  <2>4. (collateral + (premium - fee)) * shareSupply >= collateral * shareSupply
    BY <1>0, <2>3, SMT
  <2> QED
    BY <2>2, <2>4
<1>7. ASSUME NEW k \in DOMAIN contracts, NEW i \in DOMAIN events, SettleProtection(k, i)
      PROVE  FALSE
  <2>1. /\ contracts[k].status = "Active"
        /\ contracts'[k] = Closed(contracts[k], "Settled", i,
                                  Payout(contracts[k].notional, events[i].loss_bps))
    BY <1>7 DEF SettleProtection, IsActive, SettleAccepts, Claim
  <2> QED
    BY <2>1 DEF Closed, ActiveContracts
<1>8. ASSUME NEW u \in Users, NEW k \in DOMAIN contracts, ExpireProtection(u, k)
      PROVE  Goal
  BY <1>1, <1>8 DEF ExpireProtection, ExpireAccepts
<1>9. CASE UNCHANGED vars
  BY <1>1, <1>9 DEF vars
<1> HIDE DEF Goal
<1>10. Goal
  BY <1>2, <1>3, <1>4, <1>5, <1>6, <1>7, <1>8, <1>9, SharesGiven DEF Next, CoverNext, Goal
<1> QED
  BY <1>10 DEF Goal

(* Only a payout makes a seller's share worth less.                        *)
THEOREM SellersAreNotDiluted == Spec => SellerPriceFallsOnlyBySettlement
<1>1. CoverInv /\ [Next]_vars =>
        ((\A key \in ActiveContracts : contracts'[key].status # "Settled")
           => collateral' * shareSupply >= collateral * shareSupply')
  BY SellerPriceStep
<1> QED
  BY <1>1, CoverInvariant, PTL DEF Spec, SellerPriceFallsOnlyBySettlement

-----------------------------------------------------------------------------
(* What the contract accounts stand for, as a set.                         *)
Sold(cs) == {Standing(key, cs[key]) : key \in DOMAIN cs}

(* What stands for the ledger is left alone.                               *)
LEMMA LedgerLeftAlone ==
  ASSUME UNCHANGED <<config, pool, cover, lossCount, contracts>>
  PROVE  UNCHANGED Ledger!ledger
BY DEF Ledger!ledger

(* Two accounts never stand for the same contract.                         *)
LEMMA StandingsApart ==
  ASSUME NEW a \in Users \X Nonces, NEW b \in Users \X Nonces, NEW c, NEW d,
         Standing(a, c).buyer = Standing(b, d).buyer,
         Standing(a, c).nonce = Standing(b, d).nonce
  PROVE  a = b
BY DEF Standing

LEMMA LedgerInitially == Init => Ledger!LedgerInit
BY DEF Init, PoolInit, Ledger!LedgerInit, Ledger!Nobody

LEMMA InitConfigOpens ==
  ASSUME CoverInv, NEW u \in Users, NEW cap \in FaucetCaps, InitConfig(u, cap),
         UNCHANGED coverVars
  PROVE  Ledger!Open(u)
<1>1. config = NoConfig /\ config' = [authority |-> u, faucet_cap |-> cap]
  BY DEF InitConfig
<1>2. config' # NoConfig
  BY <1>1, PoolAssumption, AbsentAssumption
<1>3. UNCHANGED <<pool, cover, lossCount, contracts>>
  BY DEF InitConfig, coverVars
<1> QED
  BY <1>1, <1>2, <1>3 DEF Ledger!Open, Ledger!Nobody

LEMMA CreatePoolOpensPool ==
  ASSUME CoverInv, NEW u \in Users, NEW p \in PoolParams, CreatePool(u, p),
         UNCHANGED coverVars
  PROVE  Ledger!OpenPool(0)
<1>1. /\ config # NoConfig /\ pool = NoPool
      /\ pool' = [operator |-> u, created_at |-> clock, params |-> p]
      /\ UNCHANGED <<config, cover, contracts>>
  BY DEF CreatePool, coverVars
<1>2. pool' # NoPool
  BY <1>1, AbsentAssumption DEF CoverInv, PoolInv, PoolTypeOK
<1>3. lossCount' = lossCount
  BY <1>1 DEF CreatePool, CoverInv, PoolInv, NothingBeforePool
<1> QED
  BY <1>1, <1>2, <1>3 DEF Ledger!OpenPool, Ledger!Nobody

LEMMA RecordLossLoses ==
  ASSUME NEW u \in Users, NEW bps, RecordLoss(u, bps), UNCHANGED coverVars
  PROVE  Ledger!Lose(0)
<1>1. /\ pool # NoPool
      /\ lossCount' = lossCount + 1
      /\ UNCHANGED <<config, pool, cover, contracts>>
  BY DEF RecordLoss, LossAccepts, LossNow, LossSplit, BurnedBase, AccruePool, coverVars
<1> QED
  BY <1>1 DEF Ledger!Lose

(* The instructions of the pool.                                           *)
LEMMA PoolStepKeepsLedger ==
  ASSUME CoverInv, PoolNext, UNCHANGED coverVars
  PROVE  [Ledger!LedgerNext]_(Ledger!ledger)
<1>1. ASSUME NEW u \in Users, NEW cap \in FaucetCaps, InitConfig(u, cap)
      PROVE  Ledger!LedgerNext
  BY <1>1, InitConfigOpens DEF Ledger!LedgerNext
<1>2. ASSUME NEW u \in Users, NEW p \in PoolParams, CreatePool(u, p)
      PROVE  Ledger!LedgerNext
  BY <1>2, CreatePoolOpensPool DEF Ledger!LedgerNext
<1>3. ASSUME NEW u \in Users, NEW bps \in LossRates, RecordLoss(u, bps)
      PROVE  Ledger!LedgerNext
  BY <1>3, RecordLossLoses DEF Ledger!LedgerNext
<1>4. ASSUME \/ ClockMoves
             \/ \E u \in Users, amount \in Amounts : Faucet(u, amount)
             \/ \E amount \in Amounts : CollectFees(amount)
             \/ Accrue
             \/ \E u \in Users, t \in Tranches, amount \in Amounts : Deposit(u, t, amount)
             \/ \E u \in Users, t \in Tranches, shares \in Amounts : Redeem(u, t, shares)
      PROVE  UNCHANGED Ledger!ledger
  <2>1. UNCHANGED <<config, pool, lossCount>>
    BY <1>4 DEF ClockMoves, Faucet, CollectFees, Accrue, Deposit, DepositAccepts, DepositedShares,
                DepositedBooks, DepositedBase, DepositedHoldings, Redeem
  <2> QED
    BY <2>1, LedgerLeftAlone DEF coverVars
<1> QED
  BY <1>1, <1>2, <1>3, <1>4 DEF PoolNext

-----------------------------------------------------------------------------
LEMMA InitProtectionOpensMarket ==
  ASSUME NEW u \in Users, NEW c \in CoverParams, InitProtection(u, c)
  PROVE  Ledger!OpenMarket(0)
<1>1. /\ pool # NoPool /\ cover = NoCover /\ cover' # NoCover
      /\ UNCHANGED <<config, pool, lossCount, contracts>>
  BY ProtectionAssumption DEF InitProtection, poolVars
<1> QED
  BY <1>1 DEF Ledger!OpenMarket

(* A purchase adds one contract, under a number its buyer has not used.    *)
LEMMA BuySells ==
  ASSUME CoverInv, NEW buyer \in Users, NEW notional \in CoverAmounts,
         NEW term \in Terms, NEW nonce \in Nonces,
         BuyProtection(buyer, notional, term, nonce)
  PROVE  Ledger!Sell(0, buyer)
<1> DEFINE key == <<buyer, nonce>>
           new == [pool |-> 0, buyer |-> buyer, nonce |-> nonce, from |-> lossCount,
                   status |-> "active", by |-> 0]
<1>1. PICK premium \in U64, fee \in Nat :
        Purchase(buyer, nonce, premium, fee, NewContract(notional, premium, term))
  BY BuyEffect
<1> DEFINE c == NewContract(notional, premium, term)
<1>2. /\ key \notin DOMAIN contracts /\ cover # NoCover
      /\ contracts' = [k \in DOMAIN contracts \cup {key} |-> IF k = key THEN c ELSE contracts[k]]
      /\ UNCHANGED <<config, pool, lossCount, cover>>
  BY <1>1 DEF Purchase, BuyProtection, BuyAccepts, Price, PriceFee, PriceNet, Bought, BoughtBase
<1>3. Standing(key, c) = new
  BY DEF Standing, NewContract
<1>4. Sold(contracts') = Sold(contracts) \cup {new}
  <2> HIDE DEF c, new
  <2> QED
    BY <1>2, <1>3 DEF Sold
<1>5. ASSUME NEW k \in Sold(contracts), k.buyer = buyer
      PROVE  k.nonce # nonce
  <2>1. PICK other \in DOMAIN contracts : k = Standing(other, contracts[other])
    BY DEF Sold
  <2>2. other \in Users \X Nonces
    BY DEF CoverInv, CoverTypeOK
  <2> QED
    BY <1>2, <1>5, <2>1, <2>2 DEF Standing
<1> QED
  BY <1>2, <1>4, <1>5 DEF Ledger!Sell, Ledger!SoldIn, Sold

(* Where one account is rewritten, one contract of the ledger is replaced. *)
LEMMA OneIsReplaced ==
  ASSUME CoverInv, NEW key \in DOMAIN contracts, NEW d,
         contracts' = [contracts EXCEPT ![key] = d]
  PROVE  /\ Standing(key, contracts[key]) \in Sold(contracts)
         /\ Sold(contracts')
              = (Sold(contracts) \ {Standing(key, contracts[key])}) \cup {Standing(key, d)}
<1>1. DOMAIN contracts' = DOMAIN contracts /\ DOMAIN contracts \subseteq Users \X Nonces
  BY DEF CoverInv, CoverTypeOK
<1>2. \A k \in DOMAIN contracts : contracts'[k] = IF k = key THEN d ELSE contracts[k]
  OBVIOUS
<1>3. \A k \in DOMAIN contracts :
        k # key => Standing(k, contracts[k]) # Standing(key, contracts[key])
  BY <1>1, StandingsApart
<1> QED
  BY <1>1, <1>2, <1>3 DEF Sold

(* What a closed contract account stands for.                              *)
LEMMA ClosedStanding ==
  ASSUME NEW key, NEW c, NEW status, NEW i, NEW payout,
         status \in {"Settled", "Expired"}
  PROVE  Standing(key, Closed(c, status, i, payout))
           = Ledger!Ended(Standing(key, c),
                          IF status = "Settled" THEN "settled" ELSE "expired", i)
<1> DEFINE word == IF status = "Settled" THEN "settled" ELSE "expired"
           k == Standing(key, c)
           half == [k EXCEPT !.status = word]
<1>1. Standing(key, Closed(c, status, i, payout))
        = [pool |-> 0, buyer |-> key[1], nonce |-> key[2], from |-> c.loss_index_from,
           status |-> word, by |-> i]
  BY DEF Standing, Closed
<1>2. Ledger!Ended(k, word, i) = [half EXCEPT !.by = i]
  BY DEF Ledger!Ended
<1> HIDE DEF word
<1>3. half = [pool |-> 0, buyer |-> key[1], nonce |-> key[2], from |-> c.loss_index_from,
              status |-> word, by |-> c.settled_loss_index]
  BY DEF Standing
<1> HIDE DEF half
<1>4. [half EXCEPT !.by = i]
        = [pool |-> 0, buyer |-> key[1], nonce |-> key[2], from |-> c.loss_index_from,
           status |-> word, by |-> i]
  BY <1>3
<1> QED
  BY <1>1, <1>2, <1>4 DEF word

(* A claim: one loss of after the sale, out of those on record.            *)
LEMMA SettleSettles ==
  ASSUME CoverInv, NEW key \in DOMAIN contracts, NEW i \in DOMAIN events,
         SettleProtection(key, i)
  PROVE  Ledger!Settle(Standing(key, contracts[key]))
<1> DEFINE c == contracts[key]
           d == Closed(c, "Settled", i, Payout(c.notional, events[i].loss_bps))
           k == Standing(key, c)
<1>1. /\ c.status = "Active" /\ i >= c.loss_index_from
      /\ contracts' = [contracts EXCEPT ![key] = d]
      /\ UNCHANGED <<config, pool, lossCount, cover>>
  BY DEF SettleProtection, SettleAccepts, Claim, IsActive, CoveredBy
<1>2. k.status = "active" /\ k.pool = 0 /\ k.from = c.loss_index_from
  BY <1>1 DEF Standing
<1>3. Standing(key, d) = Ledger!Ended(k, "settled", i)
  BY ClosedStanding
<1>4. i \in 0 .. lossCount - 1
  BY DEF CoverInv, PoolInv, PoolTypeOK
<1>5. Sold(contracts') = (Sold(contracts) \ {k}) \cup {Ledger!Ended(k, "settled", i)}
  <2> HIDE DEF d
  <2> QED
    BY <1>1, <1>3, OneIsReplaced
<1> HIDE DEF c, d, k
<1>6. Ledger!Settle(k)
  BY <1>1, <1>2, <1>4, <1>5 DEF Ledger!Settle, Sold
<1> QED
  BY <1>6 DEF k, c

LEMMA ExpireExpires ==
  ASSUME CoverInv, NEW u \in Users, NEW key \in DOMAIN contracts, ExpireProtection(u, key)
  PROVE  Ledger!Expire(Standing(key, contracts[key]))
<1> DEFINE c == contracts[key]
           d == Closed(c, "Expired", c.settled_loss_index, c.payout)
           k == Standing(key, c)
<1>1. /\ c.status = "Active"
      /\ contracts' = [contracts EXCEPT ![key] = d]
      /\ UNCHANGED <<config, pool, lossCount, cover>>
  BY DEF ExpireProtection, ExpireAccepts, IsActive
<1>2. k.status = "active" /\ k.by = c.settled_loss_index
  BY <1>1 DEF Standing
<1>3. Standing(key, d) = Ledger!Ended(k, "expired", k.by)
  BY <1>2, ClosedStanding
<1>4. Sold(contracts') = (Sold(contracts) \ {k}) \cup {Ledger!Ended(k, "expired", k.by)}
  <2> HIDE DEF d
  <2> QED
    BY <1>1, <1>3, OneIsReplaced
<1> HIDE DEF c, d, k
<1>5. Ledger!Expire(k)
  BY <1>1, <1>2, <1>4 DEF Ledger!Expire, Sold
<1> QED
  BY <1>5 DEF k, c

-----------------------------------------------------------------------------
(* Every step of the program is a step of the ledger, or none.             *)
LEMMA LedgerStep == CoverInv /\ [Next]_vars => [Ledger!LedgerNext]_(Ledger!ledger)
<1> SUFFICES ASSUME CoverInv, [Next]_vars PROVE [Ledger!LedgerNext]_(Ledger!ledger)
  OBVIOUS
<1>1. CASE PoolNext /\ UNCHANGED coverVars
  BY <1>1, PoolStepKeepsLedger
<1>2. ASSUME NEW u \in Users, NEW c \in CoverParams, InitProtection(u, c)
      PROVE  Ledger!LedgerNext
  BY <1>2, InitProtectionOpensMarket DEF Ledger!LedgerNext
<1>3. CASE \/ \E u \in Users, amount \in CoverAmounts : ProvideProtection(u, amount)
           \/ \E u \in Users, shares \in U64 : WithdrawProtection(u, shares)
           \/ UNCHANGED vars
  <2>1. UNCHANGED <<config, pool, cover, lossCount, contracts>>
    BY <1>3 DEF ProvideProtection, ProvideAccepts, ProvidedShares, ProvidedPositions, PaidToMarket,
                WithdrawProtection, vars
  <2> QED
    BY <2>1, LedgerLeftAlone
<1>4. ASSUME NEW u \in Users, NEW notional \in CoverAmounts, NEW term \in Terms,
             NEW nonce \in Nonces, BuyProtection(u, notional, term, nonce)
      PROVE  Ledger!LedgerNext
  BY <1>4, BuySells DEF Ledger!LedgerNext
<1>5. ASSUME NEW key \in DOMAIN contracts, NEW i \in DOMAIN events, SettleProtection(key, i)
      PROVE  Ledger!LedgerNext
  BY <1>5, SettleSettles DEF Ledger!LedgerNext
<1>6. ASSUME NEW u \in Users, NEW key \in DOMAIN contracts, ExpireProtection(u, key)
      PROVE  Ledger!LedgerNext
  BY <1>6, ExpireExpires DEF Ledger!LedgerNext
<1> QED
  BY <1>1, <1>2, <1>3, <1>4, <1>5, <1>6, SharesGiven DEF Next, CoverNext

(* The program, with its interest, its roundings and its token accounts,   *)
(* is an implementation of the ledger.                                     *)
THEOREM ProgramKeepsLedger == Spec => KeepsLedger
BY LedgerInitially, LedgerStep, CoverInvariant, PTL DEF Spec, KeepsLedger, Ledger!LedgerSpec

-----------------------------------------------------------------------------
(* The market moves base tokens, too.                                      *)

(* A move between a wallet and pvault, with no accrual.                    *)
LEMMA MarketMoveConserves ==
  ASSUME PoolInv, Conserved, NEW u \in Users, NEW n \in Int,
         base'[u] = base[u] - n, base'["pvault"] = base["pvault"] + n,
         \A a \in Accounts : a # u /\ a # "pvault" => base'[a] = base[a],
         base' \in TokenAccounts, minted' = minted
  PROVE  Conserved'
<1>1. /\ base \in TokenAccounts /\ DOMAIN base = Accounts
      /\ \A a \in Accounts : base[a] \in Nat
  BY TokensAreNatural DEF PoolInv, PoolTypeOK
<1>2. u # "pvault" /\ u \in Accounts /\ "pvault" \in Accounts
  BY AccountsApart DEF Accounts
<1>3. Total(base', Accounts) = Total(base, Accounts)
  BY <1>1, <1>2, MoveConserves
<1> QED
  BY <1>3 DEF Conserved

(* A purchase takes the premium from the buyer and gives all of it to the  *)
(* treasury and to pvault.                                                 *)
LEMMA BuyConserves ==
  ASSUME CoverInv, Conserved, NEW buyer \in Users, NEW notional \in CoverAmounts,
         NEW term \in Terms, NEW nonce \in Nonces,
         BuyProtection(buyer, notional, term, nonce)
  PROVE  Conserved'
<1>1. PICK premium \in U64, fee \in Nat :
        /\ fee <= premium
        /\ Purchase(buyer, nonce, premium, fee, NewContract(notional, premium, term))
  BY BuyEffect
<1>2. AccruePool /\ minted' = AccruedMint /\ base' \in TokenAccounts
  BY DEF BuyProtection, BuyAccepts, Price, PriceFee, PriceNet, Bought, BoughtBase
<1>3. /\ \A a \in Accounts : AccruedBase[a] \in Nat
      /\ DOMAIN AccruedBase = Accounts
      /\ AccruedMint = Total(AccruedBase, Accounts)
  BY <1>2, AccrualConserves DEF CoverInv
<1>4. premium \in Int /\ fee \in Int
  BY ScaleAssumption DEF U64
<1>5. /\ buyer \in Accounts /\ "treasury" \in Accounts /\ "pvault" \in Accounts
      /\ buyer # "treasury" /\ buyer # "pvault"
  BY AccountsApart DEF Accounts
<1>6. /\ base'[buyer] = AccruedBase[buyer] - premium
      /\ base'["treasury"] = AccruedBase["treasury"] + fee
      /\ base'["pvault"] = AccruedBase["pvault"] + (premium - fee)
      /\ \A a \in Accounts : a # buyer /\ a # "treasury" /\ a # "pvault" =>
           base'[a] = AccruedBase[a]
  BY <1>1, <1>3, <1>5 DEF Purchase
<1>7. \A a \in Accounts : base'[a] \in Nat
  BY <1>2, TokensAreNatural
<1> DEFINE m == [a \in Accounts |-> IF a = "treasury" THEN base'["treasury"] ELSE AccruedBase[a]]
<1>8. /\ \A a \in Accounts : m[a] \in Nat
      /\ m["treasury"] = AccruedBase["treasury"] + fee
      /\ \A a \in Accounts \ {"treasury"} : m[a] = AccruedBase[a]
      /\ m[buyer] = AccruedBase[buyer] /\ m["pvault"] = AccruedBase["pvault"]
      /\ \A a \in Accounts \ {buyer, "pvault"} : base'[a] = m[a]
  BY <1>3, <1>5, <1>6, <1>7
<1> HIDE DEF m
<1>9. Total(m, Accounts) = Total(AccruedBase, Accounts) + (m["treasury"] - AccruedBase["treasury"])
  BY <1>3, <1>5, <1>8, AccountsAreFinite, TotalUpdates
<1> DEFINE k == [a \in Accounts |-> IF a = "pvault" THEN base'["pvault"] ELSE m[a]]
<1>10. /\ \A a \in Accounts : k[a] \in Nat
       /\ k["pvault"] = m["pvault"] + (premium - fee)
       /\ \A a \in Accounts \ {"pvault"} : k[a] = m[a]
       /\ k[buyer] = m[buyer]
       /\ \A a \in Accounts \ {buyer} : base'[a] = k[a]
  BY <1>5, <1>6, <1>7, <1>8
<1> HIDE DEF k
<1>11. Total(k, Accounts) = Total(m, Accounts) + (k["pvault"] - m["pvault"])
  BY <1>5, <1>8, <1>10, AccountsAreFinite, TotalUpdates
<1>12. Total(base', Accounts) = Total(k, Accounts) + (base'[buyer] - k[buyer])
  BY <1>5, <1>7, <1>10, AccountsAreFinite, TotalUpdates
<1>13. /\ Total(AccruedBase, Accounts) \in Nat /\ AccruedBase["treasury"] \in Nat
       /\ AccruedBase["pvault"] \in Nat /\ AccruedBase[buyer] \in Nat
  BY <1>3, <1>5, AccountsAreFinite, TotalIsNatural
<1>14. Total(m, Accounts) = Total(AccruedBase, Accounts) + fee
  BY <1>4, <1>8, <1>9, <1>13
<1>15. Total(k, Accounts) = Total(AccruedBase, Accounts) + premium
  BY <1>4, <1>8, <1>10, <1>11, <1>13, <1>14
<1>16. Total(base', Accounts) = Total(AccruedBase, Accounts)
  BY <1>4, <1>6, <1>8, <1>10, <1>12, <1>13, <1>15
<1> QED
  BY <1>2, <1>3, <1>16 DEF Conserved

(* Every instruction of the program keeps the accounts in balance.         *)
LEMMA MarketConserves ==
  ASSUME CoverInv, Conserved, [Next]_vars
  PROVE  Conserved'
<1>1. PoolInv
  BY DEF CoverInv
<1>2. CASE PoolNext
  BY <1>1, <1>2, PoolConserves
<1>3. UNCHANGED <<base, minted>> => Conserved'
  BY DEF Conserved
<1>4. ASSUME NEW u \in Users, NEW c \in CoverParams, InitProtection(u, c)
      PROVE  Conserved'
  BY <1>3, <1>4 DEF InitProtection, poolVars
<1>5. ASSUME NEW u \in Users, NEW amount \in CoverAmounts, ProvideProtection(u, amount)
      PROVE  Conserved'
  <2>1. /\ amount \in Int /\ base' \in TokenAccounts /\ minted' = minted
        /\ base' = [base EXCEPT ![u] = @ - amount, !["pvault"] = @ + amount]
    BY <1>5, ProtectionAssumption, ScaleAssumption
       DEF ProvideProtection, ProvideAccepts, ProvidedShares, ProvidedPositions, PaidToMarket, U64
  <2>2. base \in TokenAccounts
    BY <1>1 DEF PoolInv, PoolTypeOK
  <2>3. /\ base'[u] = base[u] - amount /\ base'["pvault"] = base["pvault"] + amount
        /\ \A a \in Accounts : a # u /\ a # "pvault" => base'[a] = base[a]
    BY <2>1, <2>2, AccountsApart DEF TokenAccounts, Accounts
  <2>4. amount \in Int /\ base' \in TokenAccounts /\ minted' = minted
    BY <2>1
  <2> QED
    BY <1>1, <2>3, <2>4, MarketMoveConserves
<1>6. ASSUME NEW u \in Users, NEW shares \in U64, WithdrawProtection(u, shares)
      PROVE  Conserved'
  <2> DEFINE amount == CollateralForShares(shares, collateral, shareSupply)
  <2>1. /\ base' \in TokenAccounts /\ minted' = minted
        /\ base' = [base EXCEPT !["pvault"] = @ - amount, ![u] = @ + amount]
        /\ shares > 0 /\ shares <= shareSupply
    BY <1>6 DEF WithdrawProtection, WithdrawAccepts, Withdrawn, PaidFromMarket
  <2>2. shares \in Nat
    BY ProtectionAssumption, ScaleAssumption DEF U64
  <2>3. amount \in 0 .. collateral
    BY <2>1, <2>2, CoverNumbers, RedeemKeepsPrice DEF CollateralForShares
  <2> HIDE DEF amount
  <2>4. /\ -amount \in Int /\ amount \in Int
        /\ base \in TokenAccounts /\ \A a \in Accounts : base[a] \in Nat
    BY <1>1, <2>3, CoverNumbers, TokensAreNatural DEF PoolInv, PoolTypeOK
  <2>5. /\ base'[u] = base[u] - (-amount) /\ base'["pvault"] = base["pvault"] + (-amount)
        /\ \A a \in Accounts : a # u /\ a # "pvault" => base'[a] = base[a]
    BY <2>1, <2>4, AccountsApart DEF TokenAccounts, Accounts
  <2>6. -amount \in Int /\ base' \in TokenAccounts /\ minted' = minted
    BY <2>1, <2>4
  <2> QED
    BY <1>1, <2>5, <2>6, MarketMoveConserves
<1>7. ASSUME NEW u \in Users, NEW notional \in CoverAmounts, NEW term \in Terms,
             NEW nonce \in Nonces, BuyProtection(u, notional, term, nonce)
      PROVE  Conserved'
  BY <1>7, BuyConserves
<1>8. ASSUME NEW key \in DOMAIN contracts, NEW i \in DOMAIN events, SettleProtection(key, i)
      PROVE  Conserved'
  <2> DEFINE payout == Payout(contracts[key].notional, events[i].loss_bps)
  <2>1. /\ payout \in 1 .. contracts[key].notional
        /\ base' = [base EXCEPT !["pvault"] = @ - payout, ![key[1]] = @ + payout]
    BY <1>8, SettleEffect
  <2>2. base' \in TokenAccounts /\ minted' = minted
    BY <1>8 DEF SettleProtection, SettleAccepts
  <2> HIDE DEF payout
  <2>3. /\ -payout \in Int /\ payout \in Int /\ key[1] \in Users
        /\ base \in TokenAccounts /\ \A a \in Accounts : base[a] \in Nat
    BY <1>1, <2>1, ContractFields, TokensAreNatural DEF PoolInv, PoolTypeOK
  <2>4. /\ base'[key[1]] = base[key[1]] - (-payout) /\ base'["pvault"] = base["pvault"] + (-payout)
        /\ \A a \in Accounts : a # key[1] /\ a # "pvault" => base'[a] = base[a]
    BY <2>1, <2>3, AccountsApart DEF TokenAccounts, Accounts
  <2> QED
    BY <1>1, <2>2, <2>3, <2>4, MarketMoveConserves
<1>9. ASSUME NEW u \in Users, NEW key \in DOMAIN contracts, ExpireProtection(u, key)
      PROVE  Conserved'
  BY <1>1, <1>9, AccrualConserves DEF ExpireProtection, ExpireAccepts, Conserved
<1>10. CASE UNCHANGED vars
  BY <1>3, <1>10 DEF vars
<1> QED
  BY <1>2, <1>4, <1>5, <1>6, <1>7, <1>8, <1>9, <1>10, SharesGiven DEF Next, CoverNext

(* With buyers, sellers and depositors in the same mint, no base token is  *)
(* lost or made by an instruction that should only move it.                *)
THEOREM MintIsConserved == Spec => []Conserved
<1>1. Init => CoverInv /\ Conserved
  BY CoverInvInit, ConservedInit DEF Init
<1>2. (CoverInv /\ Conserved) /\ [Next]_vars => (CoverInv /\ Conserved)'
  BY CoverInvNext, MarketConserves
<1> QED
  BY <1>1, <1>2, PTL DEF Spec

-----------------------------------------------------------------------------
(* The sellers' shares and the buyers' reserve.                            *)

PositionsAddUp == shareSupply = Total(positions, Users)

ContractsAreFinite == IsFiniteSet(DOMAIN contracts)

SumsInv ==
  /\ CoverInv
  /\ PositionsAddUp
  /\ ContractsAreFinite
  /\ ReservedIsActive

(* The notionals of the open contracts are finitely many naturals.         *)
LEMMA OpenContracts ==
  ASSUME CoverInv, ContractsAreFinite
  PROVE  /\ IsFiniteSet(ActiveContracts)
         /\ \A k \in ActiveContracts : k \in DOMAIN contracts
         /\ \A k \in DOMAIN contracts : Notionals[k] = contracts[k].notional
                                        /\ Notionals[k] \in Nat
<1>1. ActiveContracts \subseteq DOMAIN contracts
  BY DEF ActiveContracts
<1>2. IsFiniteSet(ActiveContracts)
  BY <1>1, FS_Subset DEF ContractsAreFinite
<1> QED
  BY <1>1, <1>2, ContractFields DEF Notionals

(* A purchase reserves the notional of the contract it opens.              *)
LEMMA BuyReserves ==
  ASSUME SumsInv, NEW buyer \in Users, NEW notional \in CoverAmounts,
         NEW term \in Terms, NEW nonce \in Nonces,
         BuyProtection(buyer, notional, term, nonce)
  PROVE  ReservedIsActive' /\ ContractsAreFinite'
<1> DEFINE k == <<buyer, nonce>>
<1>1. PICK premium \in U64, fee \in Nat :
        Purchase(buyer, nonce, premium, fee, NewContract(notional, premium, term))
  BY BuyEffect DEF SumsInv
<1> DEFINE new == NewContract(notional, premium, term)
<1>2. /\ new.status = "Active"
      /\ new.notional = notional
      /\ contracts' = [j \in DOMAIN contracts \cup {k} |-> IF j = k THEN new ELSE contracts[j]]
  BY <1>1 DEF Purchase, NewContract
<1>3. reserved' = reserved + notional /\ k \notin DOMAIN contracts /\ notional \in Nat
  BY ProtectionAssumption, ScaleAssumption
     DEF BuyProtection, BuyAccepts, Price, PriceFee, PriceNet, Bought, BoughtBase, U64
<1> HIDE DEF new, k
<1>4. DOMAIN contracts' = DOMAIN contracts \cup {k}
  BY <1>2
<1>5. ContractsAreFinite'
  BY <1>4, FS_AddElement DEF SumsInv, ContractsAreFinite
<1>6. /\ IsFiniteSet(ActiveContracts)
      /\ \A j \in ActiveContracts : j \in DOMAIN contracts
      /\ \A j \in DOMAIN contracts : Notionals[j] = contracts[j].notional /\ Notionals[j] \in Nat
  BY OpenContracts DEF SumsInv
<1>7. ActiveContracts' = ActiveContracts \cup {k} /\ k \notin ActiveContracts
  BY <1>2, <1>3, <1>4 DEF ActiveContracts
<1>8. Notionals' = [j \in DOMAIN contracts' |-> contracts'[j].notional]
  BY DEF Notionals
<1>9. Notionals'[k] = notional /\ \A j \in ActiveContracts : Notionals'[j] = Notionals[j]
  BY <1>2, <1>3, <1>4, <1>6, <1>8
<1>10. \A j \in ActiveContracts' : Notionals'[j] \in Nat
  BY <1>3, <1>6, <1>7, <1>9
<1>11. IsFiniteSet(ActiveContracts')
  BY <1>6, <1>7, FS_AddElement
<1>12. k \in ActiveContracts' /\ ActiveContracts' \ {k} = ActiveContracts
  BY <1>7
<1>13. Total(Notionals', ActiveContracts')
         = Total(Notionals', ActiveContracts' \ {k}) + Notionals'[k]
  BY <1>10, <1>11, <1>12, TotalSplits
<1>14. Total(Notionals', ActiveContracts) = Total(Notionals, ActiveContracts)
  BY <1>9, TotalOfSame
<1>15. ReservedIsActive'
  BY <1>3, <1>9, <1>12, <1>13, <1>14 DEF SumsInv, ReservedIsActive
<1> QED
  BY <1>5, <1>15

(* Closing a contract, for whatever reason, releases exactly its notional. *)
LEMMA CloseReleases ==
  ASSUME SumsInv, NEW key \in DOMAIN contracts, IsActive(key),
         NEW status \in {"Settled", "Expired"}, NEW i, NEW payout,
         contracts' = [contracts EXCEPT ![key] = Closed(contracts[key], status, i, payout)],
         reserved' = reserved - contracts[key].notional
  PROVE  ReservedIsActive' /\ ContractsAreFinite'
<1> DEFINE d == Closed(contracts[key], status, i, payout)
<1>1. d.status # "Active" /\ d.notional = contracts[key].notional
  BY DEF Closed
<1>2. contracts' = [contracts EXCEPT ![key] = d]
  OBVIOUS
<1> HIDE DEF d
<1>3. /\ DOMAIN contracts' = DOMAIN contracts
      /\ contracts'[key].status # "Active" /\ contracts'[key].notional = contracts[key].notional
      /\ \A j \in DOMAIN contracts \ {key} : contracts'[j] = contracts[j]
  BY <1>1, <1>2
<1>4. ContractsAreFinite'
  BY <1>3 DEF SumsInv, ContractsAreFinite
<1>5. /\ IsFiniteSet(ActiveContracts)
      /\ \A j \in ActiveContracts : j \in DOMAIN contracts
      /\ \A j \in DOMAIN contracts : Notionals[j] = contracts[j].notional /\ Notionals[j] \in Nat
  BY OpenContracts DEF SumsInv
<1>6. key \in ActiveContracts /\ ActiveContracts' = ActiveContracts \ {key}
  BY <1>3 DEF IsActive, ActiveContracts
<1>7. Notionals' = [j \in DOMAIN contracts' |-> contracts'[j].notional]
  BY DEF Notionals
<1>8. \A j \in DOMAIN contracts : Notionals'[j] = Notionals[j]
  BY <1>3, <1>5, <1>7
<1>9. Total(Notionals, ActiveContracts)
        = Total(Notionals, ActiveContracts \ {key}) + Notionals[key]
  BY <1>5, <1>6, TotalSplits
<1>10. Total(Notionals', ActiveContracts \ {key}) = Total(Notionals, ActiveContracts \ {key})
  BY <1>5, <1>8, TotalOfSame
<1>11. IsFiniteSet(ActiveContracts \ {key})
  BY <1>5, FS_RemoveElement
<1>12. Total(Notionals, ActiveContracts \ {key}) \in Nat
  BY <1>5, <1>11, TotalIsNatural
<1>13. ReservedIsActive'
  BY <1>5, <1>6, <1>9, <1>10, <1>12 DEF SumsInv, ReservedIsActive
<1> QED
  BY <1>4, <1>13

(* A seller's shares come and go with the supply of shares.                *)
LEMMA PositionMoves ==
  ASSUME SumsInv, NEW owner \in Users, NEW n \in Int,
         positions'[owner] = positions[owner] + n,
         \A u \in Users \ {owner} : positions'[u] = positions[u],
         positions' \in SellerPositions,
         shareSupply' = shareSupply + n
  PROVE  PositionsAddUp'
<1>1. /\ \A u \in Users : positions[u] \in Nat
      /\ \A u \in Users : positions'[u] \in Nat
  BY ScaleAssumption DEF SumsInv, CoverInv, CoverTypeOK, SellerPositions, U64
<1>2. Total(positions', Users) = Total(positions, Users) + (positions'[owner] - positions[owner])
  BY <1>1, AccountsAreFinite, TotalUpdates
<1>3. Total(positions, Users) \in Nat
  BY <1>1, AccountsAreFinite, TotalIsNatural
<1> QED
  BY <1>1, <1>2, <1>3 DEF SumsInv, PositionsAddUp

-----------------------------------------------------------------------------
(* At the start there is nothing to add up.                                *)
LEMMA SumsInvInit == Init => SumsInv
<1> SUFFICES ASSUME Init PROVE SumsInv
  OBVIOUS
<1>1. DOMAIN contracts = {} /\ reserved = 0 /\ shareSupply = 0
  BY DEF Init
<1>2. \A u \in Users : positions[u] = 0
  BY DEF Init
<1>3. ContractsAreFinite
  BY <1>1, FS_EmptySet DEF ContractsAreFinite
<1>4. PositionsAddUp
  BY <1>1, <1>2, TotalOfZeros DEF PositionsAddUp
<1>5. ActiveContracts = {}
  BY <1>1 DEF ActiveContracts
<1>6. ReservedIsActive
  BY <1>1, <1>5, TotalOfZeros DEF ReservedIsActive
<1> QED
  BY <1>3, <1>4, <1>6, CoverInvInit DEF SumsInv

(* Steps that leave what is added up alone.                                *)
LEMMA SumsStay ==
  ASSUME SumsInv
  PROVE  /\ UNCHANGED <<shareSupply, positions>> => PositionsAddUp'
         /\ UNCHANGED <<reserved, contracts>> => ReservedIsActive' /\ ContractsAreFinite'
BY DEF SumsInv, PositionsAddUp, ReservedIsActive, ContractsAreFinite, ActiveContracts, Notionals

LEMMA SumsInvNext == SumsInv /\ [Next]_vars => SumsInv'
<1> SUFFICES ASSUME SumsInv, [Next]_vars PROVE SumsInv'
  OBVIOUS
<1> DEFINE Goal == (PositionsAddUp /\ ContractsAreFinite /\ ReservedIsActive)'
<1>0. CoverInv /\ CoverInv'
  BY CoverInvNext DEF SumsInv
<1>1. UNCHANGED <<reserved, shareSupply, positions, contracts>> => Goal
  BY SumsStay
<1>2. ASSUME PoolNext, UNCHANGED coverVars PROVE Goal
  BY <1>1, <1>2 DEF coverVars
<1>3. ASSUME NEW u \in Users, NEW c \in CoverParams, InitProtection(u, c) PROVE Goal
  BY <1>1, <1>3 DEF InitProtection
<1>4. ASSUME NEW u \in Users, NEW amount \in CoverAmounts, ProvideProtection(u, amount)
      PROVE  Goal
  <2> DEFINE shares == SharesForCollateral(amount, collateral, shareSupply)
  <2>1. /\ shareSupply' = shareSupply + shares
        /\ positions' = [positions EXCEPT ![u] = @ + shares]
        /\ positions' \in SellerPositions
        /\ UNCHANGED <<reserved, contracts>>
    BY <1>4 DEF ProvideProtection, ProvideAccepts, ProvidedShares, ProvidedPositions, PaidToMarket
  <2>2. amount \in Nat
    BY ProtectionAssumption, ScaleAssumption DEF U64
  <2>3. shares \in Int
    BY <1>0, <2>2, CoverNumbers, DepositKeepsPrice DEF CoverInv, NoSharesNoCollateral,
       SharesForCollateral
  <2> HIDE DEF shares
  <2>4. positions \in SellerPositions
    BY <1>0 DEF CoverInv, CoverTypeOK
  <2>5. /\ positions'[u] = positions[u] + shares
        /\ \A v \in Users \ {u} : positions'[v] = positions[v]
    BY <2>1, <2>4 DEF SellerPositions
  <2>6. /\ positions' \in SellerPositions
        /\ shareSupply' = shareSupply + shares
    BY <2>1
  <2>7. PositionsAddUp'
    BY <2>3, <2>5, <2>6, PositionMoves
  <2> QED
    BY <2>1, <2>7, SumsStay
<1>5. ASSUME NEW u \in Users, NEW shares \in U64, WithdrawProtection(u, shares)
      PROVE  Goal
  <2>1. /\ shareSupply' = shareSupply - shares
        /\ positions' = [positions EXCEPT ![u] = @ - shares]
        /\ UNCHANGED <<reserved, contracts>>
    BY <1>5 DEF WithdrawProtection, WithdrawAccepts, Withdrawn, PaidFromMarket
  <2>2. /\ shares \in Int /\ shareSupply \in Nat
        /\ positions \in [Users -> Nat]
        /\ positions' \in SellerPositions
    BY <1>0, CoverNumbers, ProtectionAssumption, ScaleAssumption
       DEF CoverInv, CoverTypeOK, SellerPositions, U64
  <2>3. shareSupply' = shareSupply + (-shares) /\ -shares \in Int
    BY <2>1, <2>2
  <2>4. positions'[u] = positions[u] - shares
        /\ \A v \in Users \ {u} : positions'[v] = positions[v]
    BY <2>1, <2>2
  <2>5. positions'[u] = positions[u] + (-shares)
    BY <2>2, <2>4
  <2>6. positions' \in SellerPositions
    BY <2>2
  <2>7. PositionsAddUp'
    BY <2>3, <2>4, <2>5, <2>6, PositionMoves
  <2> QED
    BY <2>1, <2>7, SumsStay
<1>6. ASSUME NEW u \in Users, NEW notional \in CoverAmounts, NEW term \in Terms,
             NEW nonce \in Nonces, BuyProtection(u, notional, term, nonce)
      PROVE  Goal
  <2>1. ReservedIsActive' /\ ContractsAreFinite'
    BY <1>6, BuyReserves
  <2>2. PositionsAddUp'
    BY <1>6, SumsStay DEF BuyProtection, BuyAccepts, Price, PriceFee, PriceNet, Bought, BoughtBase
  <2> QED
    BY <2>1, <2>2
<1>7. ASSUME NEW key \in DOMAIN contracts, NEW i \in DOMAIN events, SettleProtection(key, i)
      PROVE  Goal
  <2>1. IsActive(key) /\ UNCHANGED <<shareSupply, positions>>
    BY <1>7 DEF SettleProtection, SettleAccepts
  <2>2. ReservedIsActive' /\ ContractsAreFinite'
    BY <1>0, <1>7, <2>1, SettleEffect, CloseReleases
  <2> QED
    BY <2>1, <2>2, SumsStay
<1>8. ASSUME NEW u \in Users, NEW key \in DOMAIN contracts, ExpireProtection(u, key)
      PROVE  Goal
  <2>1. IsActive(key) /\ UNCHANGED <<shareSupply, positions>>
    BY <1>8 DEF ExpireProtection, ExpireAccepts
  <2>2. ReservedIsActive' /\ ContractsAreFinite'
    BY <1>0, <1>8, <2>1, ExpireEffect, CloseReleases
  <2> QED
    BY <2>1, <2>2, SumsStay
<1>9. ASSUME UNCHANGED vars PROVE Goal
  BY <1>1, <1>9 DEF vars
<1> HIDE DEF Goal
<1>10. Goal
  BY <1>0, <1>2, <1>3, <1>4, <1>5, <1>6, <1>7, <1>8, <1>9, SharesGiven DEF Next, CoverNext
<1> QED
  BY <1>0, <1>10 DEF SumsInv, Goal

(* The sums hold in every state of the program.                            *)
THEOREM SumsInvariant == Spec => []SumsInv
BY SumsInvInit, SumsInvNext, PTL DEF Spec

(* What is reserved is at all times what the open contracts may claim, for *)
(* any number of buyers, contracts, settlements and expiries.              *)
THEOREM ReserveIsWhatIsOpen == Spec => []ReservedIsActive
<1>1. SumsInv => ReservedIsActive
  BY DEF SumsInv
<1> QED
  BY <1>1, SumsInvariant, PTL

(* The sellers' positions are the shares, and without shares there is      *)
(* nothing in the collateral.                                              *)
THEOREM CollateralIsTheSellers == Spec => []SellersOwnCollateral
<1>1. SumsInv => SellersOwnCollateral
  BY CoverNumbers DEF SumsInv, PositionsAddUp, SellersOwnCollateral, CoverInv,
     NoSharesNoCollateral
<1> QED
  BY <1>1, SumsInvariant, PTL

-----------------------------------------------------------------------------
(* The same under the market, and for sellers and buyers.                  *)

(* The market's instructions mint and burn no tranche shares.              *)
LEMMA MarketKeepsHolders ==
  ASSUME CoverInv, HoldersOwnSupply, [Next]_vars
  PROVE  HoldersOwnSupply'
<1>1. PoolInv
  BY DEF CoverInv
<1>2. balances'.supply = balances.supply /\ held' = held => HoldersOwnSupply'
  BY DEF HoldersOwnSupply
<1>3. CASE PoolNext
  BY <1>1, <1>3, HoldersStep
<1>4. CASE UNCHANGED <<balances, held>>
  BY <1>2, <1>4
<1>5. ASSUME AccruePool, balances' = Accrued, held' = held PROVE HoldersOwnSupply'
  BY <1>1, <1>2, <1>5, AccrualKeepsBooks
<1>6. ASSUME NEW u \in Users, NEW c \in CoverParams, InitProtection(u, c)
      PROVE  UNCHANGED <<balances, held>>
  BY <1>6 DEF InitProtection, poolVars
<1>7. ASSUME NEW u \in Users, NEW n \in U64,
             ProvideProtection(u, n) \/ WithdrawProtection(u, n)
      PROVE  UNCHANGED <<balances, held>>
  BY <1>7 DEF ProvideProtection, ProvideAccepts, ProvidedShares, ProvidedPositions, PaidToMarket,
              WithdrawProtection
<1>8. ASSUME NEW u \in Users, NEW notional \in CoverAmounts, NEW term \in Terms,
             NEW nonce \in Nonces, BuyProtection(u, notional, term, nonce)
      PROVE  HoldersOwnSupply'
  BY <1>5, <1>8 DEF BuyProtection, BuyAccepts, Price, PriceFee, PriceNet, Bought, BoughtBase
<1>9. ASSUME NEW key \in DOMAIN contracts, NEW i \in DOMAIN events, SettleProtection(key, i)
      PROVE  UNCHANGED <<balances, held>>
  BY <1>9 DEF SettleProtection
<1>10. ASSUME NEW u \in Users, NEW key \in DOMAIN contracts, ExpireProtection(u, key)
       PROVE  HoldersOwnSupply'
  BY <1>5, <1>10 DEF ExpireProtection, ExpireAccepts
<1>11. CASE UNCHANGED vars
  BY <1>4, <1>11 DEF vars
<1> QED
  BY <1>3, <1>4, <1>6, <1>7, <1>8, <1>9, <1>10, <1>11, SharesGiven DEF Next, CoverNext

AllOwned == SumsInv /\ Conserved /\ HoldersOwnSupply

LEMMA AllOwnedAlways == Spec => []AllOwned
<1>1. Init => AllOwned
  BY SumsInvInit, ConservedInit, HoldersInit DEF AllOwned, Init
<1>2. AllOwned /\ [Next]_vars => AllOwned'
  BY SumsInvNext, MarketConserves, MarketKeepsHolders DEF AllOwned, SumsInv
<1> QED
  BY <1>1, <1>2, PTL DEF Spec

(* What is in pvault can be paid to any wallet.                            *)
LEMMA MarketCanPay ==
  ASSUME CoverInv, Conserved, NEW u \in Users, NEW n \in Nat, n <= collateral
  PROVE  PaidFromMarket(u, n) \in TokenAccounts
<1>1. base \in [Accounts -> Nat]
  BY ScaleAssumption DEF CoverInv, PoolInv, PoolTypeOK, TokenAccounts, U64
<1>2. Total(base, Accounts) \in U64
  BY DEF Conserved, CoverInv, PoolInv, PoolTypeOK
<1>3. "pvault" \in Accounts /\ u \in Accounts /\ u # "pvault" /\ n <= base["pvault"]
  BY AccountsApart, CoverNumbers
<1> QED
  BY <1>1, <1>2, <1>3, TransferFits DEF PaidFromMarket

(* A seller's shares are part of all sellers' shares.                      *)
LEMMA PositionIsPart ==
  ASSUME SumsInv, NEW u \in Users
  PROVE  positions[u] \in Nat /\ positions[u] <= shareSupply
<1>1. \A v \in Users : positions[v] \in Nat
  BY ScaleAssumption DEF SumsInv, CoverInv, CoverTypeOK, SellerPositions, U64
<1> QED
  BY <1>1, AccountsAreFinite, TotalAbove DEF SumsInv, PositionsAddUp

(* With no contract open the reserve is zero, all the collateral is free   *)
(* and every check of withdraw_protection.rs lets the seller out.          *)
LEMMA SellerAccepted ==
  ASSUME SumsInv, Conserved
  PROVE  SellerCanLeave
<1> SUFFICES ASSUME NEW u \in Users, ActiveContracts = {}, positions[u] > 0,
                    positions[u] * collateral >= shareSupply
             PROVE  WithdrawAccepts(u, positions[u])
  BY DEF SellerCanLeave
<1>1. CoverInv
  BY DEF SumsInv
<1>2. reserved = 0
  BY TotalOfZeros DEF SumsInv, ReservedIsActive
<1>3. collateral \in Nat /\ shareSupply \in Nat /\ Free = collateral
  BY <1>1, <1>2, CoverNumbers DEF Free
<1>4. positions[u] \in Nat \ {0} /\ positions[u] <= shareSupply
  BY PositionIsPart
<1>5. cover # NoCover
  BY <1>1, <1>3, <1>4 DEF CoverInv, NothingBeforeCover
<1>6. Withdrawn(positions[u]) \in 1 .. collateral
  BY <1>3, <1>4, WorthAUnit DEF Withdrawn, CollateralForShares
<1>7. PaidFromMarket(u, Withdrawn(positions[u])) \in TokenAccounts
  BY <1>1, <1>3, <1>6, MarketCanPay
<1> QED
  BY <1>3, <1>4, <1>5, <1>6, <1>7 DEF WithdrawAccepts

(* The notional of an open contract is part of the reserve, the reserve is *)
(* part of the collateral, and pvault holds the collateral.                *)
LEMMA ClaimAccepted ==
  ASSUME SumsInv, Conserved
  PROVE  ClaimsPayable
<1> SUFFICES ASSUME NEW key \in ActiveContracts, NEW i \in DOMAIN events,
                    CoveredBy(contracts[key], i), Claim(key, i) > 0
             PROVE  SettleAccepts(key, i)
  BY DEF ClaimsPayable
<1> DEFINE notional == contracts[key].notional
           paid == Claim(key, i)
<1>1. CoverInv /\ PoolInv /\ key \in DOMAIN contracts
  BY DEF SumsInv, CoverInv, ActiveContracts
<1>2. notional \in Nat /\ key[1] \in Users
  BY <1>1, ContractFields
<1>3. notional <= reserved
  <2>1. /\ IsFiniteSet(ActiveContracts)
        /\ \A k \in ActiveContracts : Notionals[k] \in Nat
        /\ Notionals[key] = notional
    BY <1>1, OpenContracts DEF SumsInv
  <2>2. Notionals[key] <= Total(Notionals, ActiveContracts)
    BY <2>1, TotalAbove
  <2> QED
    BY <2>1, <2>2 DEF SumsInv, ReservedIsActive
<1>4. collateral \in Nat /\ reserved \in Nat /\ reserved <= collateral
  BY <1>1, CoverNumbers
<1>5. paid \in 0 .. notional
  BY <1>1, <1>2, EventFields, MulBpsIsPart DEF Claim, Payout
<1> HIDE DEF notional, paid
<1>6. paid \in Nat /\ paid <= collateral
  BY <1>2, <1>3, <1>4, <1>5
<1>7. PaidFromMarket(key[1], paid) \in TokenAccounts
  BY <1>1, <1>2, <1>6, MarketCanPay
<1>8. collateral - paid \in U64 /\ reserved - notional \in U64
  BY <1>1, <1>2, <1>3, <1>4, <1>6, ScaleAssumption DEF CoverInv, CoverTypeOK, U64
<1> QED
  BY <1>7, <1>8 DEF SettleAccepts, IsActive, ActiveContracts, AfterSettle, notional, paid

(* No history of purchases, settlements and expiries leaves a reserve      *)
(* behind that keeps the sellers' last collateral in the program.          *)
THEOREM SellersCanLeave == Spec => []SellerCanLeave
<1>1. AllOwned => SellerCanLeave
  BY SellerAccepted DEF AllOwned
<1> QED
  BY <1>1, AllOwnedAlways, PTL

(* Every claim that meets the conditions is paid in full, in whatever      *)
(* order the open contracts are settled and whatever the sellers took out  *)
(* before (the comment on math::payout).                                   *)
THEOREM ClaimsArePayable == Spec => []ClaimsPayable
<1>1. AllOwned => ClaimsPayable
  BY ClaimAccepted DEF AllOwned
<1> QED
  BY <1>1, AllOwnedAlways, PTL

(* The protection market, whose tokens are of the same mint, does not keep *)
(* a senior holder in the pool either.                                     *)
THEOREM SeniorsCanLeaveUnderMarket == Spec => []SeniorCanLeave
<1>1. AllOwned => SeniorCanLeave
  BY SeniorAccepted DEF AllOwned, SumsInv, CoverInv
<1> QED
  BY <1>1, AllOwnedAlways, PTL

=============================================================================
