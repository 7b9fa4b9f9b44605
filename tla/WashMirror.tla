----------------------------- MODULE WashMirror -----------------------------
(***************************************************************************)
(* The arithmetic of the program once more, as the pages and tools compute *)
(* it: packages/shared/src/waterfall.ts.  Names are the TypeScript ones,   *)
(* so accrue here mirrors Accrual of WashMath, and nothing but a check     *)
(* says that the two agree.                                                *)
(*                                                                         *)
(* An amount is a natural number.  Where the source throws a WaterfallError*)
(* the result is a negative number, one for each code.                     *)
(***************************************************************************)
EXTENDS WashMath

TrancheWipedOut == -1
ParameterOutOfRange == -2
Overflow == -3
CollateralWipedOut == -4
ContractNotActive == -5
LossOutsideTerm == -6
LossBelowTrigger == -7
ZeroAmount == -8

Throws(result) == result < 0

toU64(value) == IF value \in U64 THEN value ELSE Overflow

proRata(amount, rateBps, dtModel) == toU64((amount * rateBps * dtModel) \div (BPS * YEAR))

mulBps(amount, bps) == toU64((amount * bps) \div BPS)

mulDiv(a, b, d) == toU64((a * b) \div d)

min(a, b) == IF a < b THEN a ELSE b

-----------------------------------------------------------------------------
accrueUncapped(pool, rates, dtModel) ==                \* mutant: senior is not cut off at the net yield
  LET yieldAmount == proRata(pool.assets, rates.yieldBps, dtModel)
      fee == mulBps(yieldAmount, rates.feeBps)
      net == yieldAmount - fee
      seniorGain == IF pool.juniorSupply = 0 THEN net
                    ELSE IF pool.seniorSupply = 0 THEN 0
                    ELSE proRata(pool.seniorAssets, rates.seniorBps, dtModel)
  IN  [yieldAmount |-> yieldAmount, fee |-> fee, seniorGain |-> seniorGain,
       juniorGain |-> net - seniorGain]

accrue(pool, rates, dtModel) ==
  IF pool.seniorSupply = 0 /\ pool.juniorSupply = 0
  THEN [yieldAmount |-> 0, fee |-> 0, seniorGain |-> 0, juniorGain |-> 0]
  ELSE LET yieldAmount == proRata(pool.assets, rates.yieldBps, dtModel)
           fee == mulBps(yieldAmount, rates.feeBps)
           net == yieldAmount - fee
           seniorGain == IF pool.juniorSupply = 0 THEN net
                         ELSE IF pool.seniorSupply = 0 THEN 0
                         ELSE min(proRata(pool.seniorAssets, rates.seniorBps, dtModel), net)
       IN  [yieldAmount |-> yieldAmount, fee |-> fee, seniorGain |-> seniorGain,
            juniorGain |-> net - seniorGain]

sharesForDeposit(amount, trancheAssets, supply) ==
  IF supply = 0 THEN amount
  ELSE IF trancheAssets = 0 THEN TrancheWipedOut
  ELSE mulDiv(amount, supply, trancheAssets)

amountForRedeem(shares, trancheAssets, supply) ==
  IF shares > supply THEN ParameterOutOfRange
  ELSE IF supply = 0 THEN 0
  ELSE IF trancheAssets = 0 THEN TrancheWipedOut
  ELSE mulDiv(shares, trancheAssets, supply)

sharesForCollateral(amount, collateral, shareSupply) ==
  IF shareSupply = 0 THEN amount
  ELSE IF collateral = 0 THEN CollateralWipedOut
  ELSE mulDiv(amount, shareSupply, collateral)

collateralForShares(shares, collateral, shareSupply) ==
  IF shares > shareSupply THEN ParameterOutOfRange
  ELSE IF shareSupply = 0 THEN 0
  ELSE IF collateral = 0 THEN CollateralWipedOut
  ELSE mulDiv(shares, collateral, shareSupply)

premium(notional, rateBps, term) == proRata(notional, rateBps, term)

premiumFee(premiumAmount, feeBps) == mulBps(premiumAmount, feeBps)

payout(notional, lossBps) ==
  IF lossBps > BPS THEN ParameterOutOfRange ELSE mulBps(notional, lossBps)

(* settle_protection check for check.                                      *)
settleContract(contract, event) ==
  LET amount == payout(contract.notional, event.lossBps)
  IN  IF ~contract.active THEN ContractNotActive
      ELSE IF event.index < contract.lossIndexFrom THEN LossOutsideTerm
      ELSE IF event.modelTime > contract.expiryModelTime THEN LossOutsideTerm
      ELSE IF event.lossBps < contract.triggerBps THEN LossBelowTrigger
      ELSE IF amount = 0 THEN ZeroAmount
      ELSE amount

afterSettle(protection, notional, paid) ==
  [collateral |-> toU64(protection.collateral - paid),
   reserved |-> toU64(protection.reserved - notional)]

lossAmount(assets, lossBps) == mulBps(assets, lossBps)

applyLoss(loss, seniorAssets, juniorAssets) ==
  LET juniorLoss == min(loss, juniorAssets)
      seniorLoss == loss - juniorLoss
  IN  [juniorLoss |-> juniorLoss,
       seniorLoss |-> IF seniorLoss > seniorAssets THEN ParameterOutOfRange ELSE seniorLoss]

subordinationOkStrict(seniorAfter, juniorAfter, minBps) ==   \* mutant: the floor itself is refused
  juniorAfter * BPS > minBps * (seniorAfter + juniorAfter)

subordinationOk(seniorAfter, juniorAfter, minBps) ==
  juniorAfter * BPS >= minBps * (seniorAfter + juniorAfter)

juniorShareBps(senior, junior) ==
  IF senior + junior = 0 THEN BPS ELSE (junior * BPS) \div (senior + junior)

trancheOf(pool, tranche) ==
  IF tranche = "Senior" THEN [assets |-> pool.seniorAssets, supply |-> pool.seniorSupply]
  ELSE [assets |-> pool.juniorAssets, supply |-> pool.juniorSupply]

-----------------------------------------------------------------------------
(* The after functions: all parts of the balances move together.           *)
afterAccrual(pool, accrual) ==
  [pool EXCEPT !.assets = toU64(@ + accrual.seniorGain + accrual.juniorGain),
               !.seniorAssets = toU64(@ + accrual.seniorGain),
               !.juniorAssets = toU64(@ + accrual.juniorGain)]

afterDeposit(pool, tranche, amount, shares) ==
  IF tranche = "Senior"
  THEN [pool EXCEPT !.assets = toU64(@ + amount), !.seniorAssets = toU64(@ + amount),
                    !.seniorSupply = toU64(@ + shares)]
  ELSE [pool EXCEPT !.assets = toU64(@ + amount), !.juniorAssets = toU64(@ + amount),
                    !.juniorSupply = toU64(@ + shares)]

afterRedeem(pool, tranche, shares, amount) ==
  IF tranche = "Senior"
  THEN [pool EXCEPT !.assets = toU64(@ - amount), !.seniorAssets = toU64(@ - amount),
                    !.seniorSupply = toU64(@ - shares)]
  ELSE [pool EXCEPT !.assets = toU64(@ - amount), !.juniorAssets = toU64(@ - amount),
                    !.juniorSupply = toU64(@ - shares)]

afterLoss(pool, split) ==
  [pool EXCEPT !.assets = toU64(@ - (split.seniorLoss + split.juniorLoss)),
               !.seniorAssets = toU64(@ - split.seniorLoss),
               !.juniorAssets = toU64(@ - split.juniorLoss)]

=============================================================================
