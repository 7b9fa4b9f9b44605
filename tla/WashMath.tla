------------------------------ MODULE WashMath ------------------------------
(***************************************************************************)
(* The pure arithmetic of the program: programs/washapp/src/math.rs.       *)
(*                                                                         *)
(* Amounts are whole token units.  Every division of the source rounds     *)
(* down, and so does \div on naturals.  Every intermediate product of the  *)
(* source is a u128 and every result is converted back to u64, or the      *)
(* call fails and with it the whole transaction: an operator here gives    *)
(* the exact number, and the caller's guard says that it lies in U64.      *)
(* A product that leaves u128 has a quotient that leaves u64 (the divisor  *)
(* BPS * YEAR is below 2^64), so the check on the result is the stronger.  *)
(***************************************************************************)
EXTENDS Integers

CONSTANTS
  BPS,     \* BPS_DENOMINATOR, parts of a whole (10 000 in the source)
  YEAR,    \* YEAR_SECONDS, seconds of a model year
  MaxU64   \* the largest u64; small in the runs, so that it is reached

ASSUME ScaleAssumption ==
  /\ BPS \in Nat \ {0}
  /\ YEAR \in Nat \ {0}
  /\ MaxU64 \in Nat \ {0}

U64 == 0 .. MaxU64

Tranches == {"Senior", "Junior"}

PoolBalances ==
  [assets : U64, nav : [Tranches -> U64], supply : [Tranches -> U64]]

NoBalances ==
  [assets |-> 0, nav |-> [t \in Tranches |-> 0], supply |-> [t \in Tranches |-> 0]]

Lesser(a, b) == IF a <= b THEN a ELSE b

-----------------------------------------------------------------------------
(* amount * rate * dt / (BPS * YEAR): an annual rate over a model interval *)
ProRata(amount, rate_bps, dt) == (amount * rate_bps * dt) \div (BPS * YEAR)

MulBps(amount, bps) == (amount * bps) \div BPS

(* Yield of a model interval.  The fee comes off the yield, senior gets at *)
(* most its own rate, the rest is junior's; a tranche without shares gets  *)
(* nothing.                                                                *)
SeniorDue(b, rates, dt) == ProRata(b.nav["Senior"], rates.senior_rate_bps, dt)

AccrualToEmptyJunior(b, rates, dt) ==                  \* mutant: the residue goes to junior, shares or not
  LET empty == \A t \in Tranches : b.supply[t] = 0
      yield == IF empty THEN 0 ELSE ProRata(b.assets, rates.yield_rate_bps, dt)
      fee == MulBps(yield, rates.perf_fee_bps)
      net == yield - fee
      senior == Lesser(SeniorDue(b, rates, dt), net)
  IN  [yield |-> yield, fee |-> fee, net |-> net,
       gain |-> [t \in Tranches |-> IF t = "Senior" THEN senior ELSE net - senior]]

Accrual(b, rates, dt) ==
  LET empty == \A t \in Tranches : b.supply[t] = 0
      yield == IF empty THEN 0 ELSE ProRata(b.assets, rates.yield_rate_bps, dt)
      fee == MulBps(yield, rates.perf_fee_bps)
      net == yield - fee
      senior == IF b.supply["Junior"] = 0 THEN net
                ELSE IF b.supply["Senior"] = 0 THEN 0
                ELSE Lesser(SeniorDue(b, rates, dt), net)
  IN  [yield |-> yield, fee |-> fee, net |-> net,
       gain |-> [t \in Tranches |-> IF t = "Senior" THEN senior ELSE net - senior]]

(* 1:1 for the first depositor, by value after that.  A tranche with       *)
(* shares and no assets refuses: the value is 0, which no caller accepts   *)
(* (TrancheWipedOut and ZeroAmount both abort).                            *)
SharesForDepositRoundedUp(amount, assets, supply) ==   \* mutant: rounds up
  IF supply = 0 THEN amount
  ELSE IF assets = 0 THEN 0
  ELSE (amount * supply + assets - 1) \div assets

SharesForDepositReopening(amount, assets, supply) ==   \* mutant: 1:1 into a wiped tranche
  IF supply = 0 \/ assets = 0 THEN amount ELSE (amount * supply) \div assets

SharesForDeposit(amount, assets, supply) ==
  IF supply = 0 THEN amount
  ELSE IF assets = 0 THEN 0
  ELSE (amount * supply) \div assets

AmountForRedeemRoundedUp(shares, assets, supply) ==    \* mutant: rounds up
  IF supply = 0 THEN 0 ELSE (shares * assets + supply - 1) \div supply

AmountForRedeem(shares, assets, supply) ==
  IF supply = 0 THEN 0 ELSE (shares * assets) \div supply

SharesForCollateral(amount, collateral, share_supply) ==
  SharesForDeposit(amount, collateral, share_supply)

CollateralForShares(shares, collateral, share_supply) ==
  AmountForRedeem(shares, collateral, share_supply)

LossAmount(assets, loss_bps) == MulBps(assets, loss_bps)

Premium(notional, rate_bps, term) == ProRata(notional, rate_bps, term)

PremiumFee(premium, fee_bps) == MulBps(premium, fee_bps)

Payout(notional, loss_bps) == MulBps(notional, loss_bps)

(* The waterfall: junior first, only what exceeds it reaches senior.  More *)
(* than both hold leaves senior below zero, outside PoolBalances: refused. *)
ApplyLossHalved(loss, b) ==                            \* mutant: both tranches share the loss
  LET junior == Lesser(loss \div 2, b.nav["Junior"])
  IN  [t \in Tranches |-> IF t = "Junior" THEN junior ELSE loss - junior]

ApplyLoss(loss, b) ==
  LET junior == Lesser(loss, b.nav["Junior"])
  IN  [t \in Tranches |-> IF t = "Junior" THEN junior ELSE loss - junior]

SubordinationOk(b, min_junior_bps) ==
  b.nav["Junior"] * BPS >= min_junior_bps * (b.nav["Senior"] + b.nav["Junior"])

-----------------------------------------------------------------------------
(* The after_* methods: one operation on the balances.  Their additions    *)
(* and subtractions are checked, that is, the result must lie in           *)
(* PoolBalances.                                                           *)
AfterAccrualGross(b, accrual) ==                       \* mutant: the fee stays in assets
  [assets |-> b.assets + accrual.yield,
   nav    |-> [t \in Tranches |-> b.nav[t] + accrual.gain[t]],
   supply |-> b.supply]

AfterAccrual(b, accrual) ==
  [assets |-> b.assets + accrual.net,
   nav    |-> [t \in Tranches |-> b.nav[t] + accrual.gain[t]],
   supply |-> b.supply]

AfterDeposit(b, tranche, amount, shares) ==
  [assets |-> b.assets + amount,
   nav    |-> [b.nav EXCEPT ![tranche] = @ + amount],
   supply |-> [b.supply EXCEPT ![tranche] = @ + shares]]

AfterRedeem(b, tranche, shares, amount) ==
  [assets |-> b.assets - amount,
   nav    |-> [b.nav EXCEPT ![tranche] = @ - amount],
   supply |-> [b.supply EXCEPT ![tranche] = @ - shares]]

AfterLoss(b, split) ==
  [assets |-> b.assets - (split["Senior"] + split["Junior"]),
   nav    |-> [t \in Tranches |-> b.nav[t] - split[t]],
   supply |-> b.supply]

=============================================================================
