---------------------------- MODULE WashScreens -----------------------------
(***************************************************************************)
(* What the pages of apps/web compute before anybody signs: the previews   *)
(* of the tranche panel (screens/Pool/preview.ts), of the protection desk  *)
(* (screens/Protection/cover.ts) and of the loss form (screens/Operator/   *)
(* loss-form.ts), the state of a contract row, and the forecast of the     *)
(* position sheet (screens/Position/forecast.ts).                          *)
(*                                                                         *)
(* All are functions of views, which may come from different moments.  A   *)
(* wallet that is not read yet is the empty set, a wallet that is, the set *)
(* of it alone.  A refusal is a reason; its wording is left out.           *)
(***************************************************************************)
EXTENDS WashViews

CONSTANT DAY_SECONDS

ASSUME DayAssumption == DAY_SECONDS \in Nat \ {0}

Refused(reason) == [kind |-> "refused", reason |-> reason]

-----------------------------------------------------------------------------
(* model-clock.ts                                                          *)
projectedModelTimeOfAge(pool, nowUnix) ==              \* mutant: the whole age of the pool once more
  pool.modelTime + (nowUnix - pool.createdAt) * pool.params.timeScale

projectedModelTime(pool, nowUnix) ==
  LET elapsed == IF nowUnix > pool.lastAccruedTs THEN nowUnix - pool.lastAccruedTs ELSE 0
  IN  pool.modelTime + elapsed * pool.params.timeScale

-----------------------------------------------------------------------------
(* preview.ts: pool is the view accrued to now.                            *)
nextBalances(pool, mode, tranche, value) ==
  LET balances == poolBalances(pool)
      t == trancheOf(balances, tranche)
      shares == sharesForDeposit(value, t.assets, t.supply)
      amount == amountForRedeem(value, t.assets, t.supply)
      receive == IF mode = "deposit" THEN shares ELSE amount
  IN  [give |-> value, receive |-> receive,
       after |-> IF Throws(receive) THEN balances
                 ELSE IF mode = "deposit" THEN afterDeposit(balances, tranche, value, shares)
                 ELSE afterRedeem(balances, tranche, value, amount)]

heldShares(wallet, tranche) ==
  IF tranche = "Senior" THEN wallet.seniorShares ELSE wallet.juniorShares

walletShortfall(mode, tranche, value, wallets) ==
  \E wallet \in wallets :
    value > (IF mode = "deposit" THEN wallet.base ELSE heldShares(wallet, tranche))

(* Only what lowers the part of junior is held to the floor.               *)
breachesFloor(pool, mode, tranche, after) ==
  /\ <<mode, tranche>> \in {<<"deposit", "Senior">>, <<"redeem", "Junior">>}
  /\ ~subordinationOk(after.seniorAssets, after.juniorAssets, pool.params.minJuniorBps)

preview(pool, mode, tranche, value, wallets) ==
  LET next == nextBalances(pool, mode, tranche, value)
      thrown == Throws(next.receive) \/ \E f \in DOMAIN next.after : Throws(next.after[f])
  IN  IF value <= 0 THEN Refused("zero")
      ELSE IF walletShortfall(mode, tranche, value, wallets) THEN Refused("wallet")
      ELSE IF thrown THEN Refused("waterfall")
      ELSE IF next.receive = 0 THEN Refused("rounds to zero")
      ELSE IF breachesFloor(pool, mode, tranche, next.after) THEN Refused("floor")
      ELSE [kind |-> "ok", give |-> next.give, receive |-> next.receive,
            navNow |-> IF tranche = "Senior" THEN pool.senior.nav ELSE pool.junior.nav,
            after |-> withBalances(pool, next.after),
            juniorFloorAfter |-> juniorShareBps(next.after.seniorAssets, next.after.juniorAssets),
            remainingShares |->
              IF mode = "redeem" THEN {heldShares(w, tranche) - value : w \in wallets} ELSE {}]

-----------------------------------------------------------------------------
(* loss-form.ts                                                            *)
lossPreview(projected, lossBps) ==
  LET balances == poolBalances(projected)
      amount == lossAmount(balances.assets, lossBps)
      split == applyLoss(amount, balances.seniorAssets, balances.juniorAssets)
  IN  IF lossBps > BPS THEN Refused("above everything")
      ELSE IF amount = 0 THEN Refused("rounds to zero")
      ELSE [kind |-> "ok", lossBps |-> lossBps, amount |-> amount,
            juniorLoss |-> split.juniorLoss, seniorLoss |-> split.seniorLoss,
            after |-> withBalances(projected, afterLoss(balances, split))]

-----------------------------------------------------------------------------
(* cover.ts                                                                *)
premiumPreview(protection, modelTime, notional, termDays, wallets) ==
  LET term == termDays * DAY_SECONDS
      paid == premium(notional, protection.params.premiumRateBps, term)
      fee == premiumFee(paid, protection.params.premiumFeeBps)
  IN  IF notional > protection.free THEN Refused("free collateral")
      ELSE IF Throws(paid) THEN Refused("too large")
      ELSE IF paid = 0 /\ protection.params.premiumRateBps > 0 THEN Refused("rounds to zero")
      ELSE IF \E wallet \in wallets : paid > wallet.base THEN Refused("wallet")
      ELSE [kind |-> "ok", premium |-> paid, fee |-> fee, net |-> paid - fee, term |-> term,
            expiryModelTime |-> modelTime + term,
            after |-> [collateral |-> protection.collateral + paid - fee,
                       reserved |-> protection.reserved + notional]]

providePreview(protection, value, wallets) ==
  LET shares == sharesForCollateral(value, protection.collateral, protection.shareSupply)
  IN  IF \E wallet \in wallets : value > wallet.base THEN Refused("wallet")
      ELSE IF Throws(shares) THEN Refused("waterfall")
      ELSE IF shares = 0 THEN Refused("rounds to zero")
      ELSE [kind |-> "ok", give |-> value, receive |-> shares,
            after |-> [collateral |-> protection.collateral + value,
                       reserved |-> protection.reserved]]

withdrawPreview(protection, value, wallets) ==
  LET amount == collateralForShares(value, protection.collateral, protection.shareSupply)
  IN  IF \E wallet \in wallets : value > wallet.sellerShares THEN Refused("wallet")
      ELSE IF Throws(amount) THEN Refused("waterfall")
      ELSE IF amount = 0 THEN Refused("rounds to zero")
      ELSE IF amount > protection.free THEN Refused("reserved")
      ELSE [kind |-> "ok", give |-> value, receive |-> amount,
            after |-> [collateral |-> protection.collateral - amount,
                       reserved |-> protection.reserved]]

sellPreview(protection, mode, value, wallets) ==
  IF value <= 0 THEN Refused("zero")
  ELSE IF mode = "provide" THEN providePreview(protection, value, wallets)
  ELSE withdrawPreview(protection, value, wallets)

maxWithdrawSharesRoundedUp(protection, sellerShares) ==   \* mutant: rounded up
  IF protection.collateral = 0 \/ protection.shareSupply = 0 THEN 0
  ELSE min(sellerShares, (protection.free * protection.shareSupply + protection.collateral - 1)
                           \div protection.collateral)

maxWithdrawShares(protection, sellerShares) ==
  IF protection.collateral = 0 \/ protection.shareSupply = 0 THEN 0
  ELSE min(sellerShares, (protection.free * protection.shareSupply) \div protection.collateral)

(* The covered event that pays most, the earlier of equals; at most one.   *)
Biggest(claims) ==
  {c \in claims : \A d \in claims :
     d.payout <= c.payout /\ (d.payout = c.payout => c.event.index <= d.event.index)}

settleableAfterTerm(contract, events) ==               \* mutant: losses after the term, too
  Biggest({claim \in {[event |-> e, payout |-> payout(contract.notional, e.lossBps)] :
                        e \in ToSet(events)} :
             /\ contract.status = "Active"
             /\ claim.event.index >= contract.lossIndexFrom
             /\ claim.event.lossBps >= contract.triggerBps
             /\ claim.payout > 0})

settleable(contract, events) ==
  Biggest({claim \in {[event |-> e, payout |-> payout(contract.notional, e.lossBps)] :
                        e \in ToSet(events)} :
             /\ contract.status = "Active"
             /\ claim.event.index >= contract.lossIndexFrom
             /\ claim.event.modelTime <= contract.expiryModelTime
             /\ claim.event.lossBps >= contract.triggerBps
             /\ claim.payout > 0})

(* What a contract row shows, and so which button it offers.               *)
contractState(contract, events, modelTime) ==
  LET left == contract.expiryModelTime - modelTime
      claims == settleable(contract, events)
  IN  IF contract.status = "Settled"
      THEN [kind |-> "settled", payout |-> contract.payout, lossIndex |-> contract.settledLossIndex]
      ELSE IF contract.status = "Expired" THEN [kind |-> "expired"]
      ELSE IF claims # {}
      THEN LET claim == CHOOSE c \in claims : TRUE
           IN  [kind |-> "claim", event |-> claim.event, payout |-> claim.payout]
      ELSE IF left <= 0 THEN [kind |-> "expirable"]
      ELSE [kind |-> "covered", daysLeft |-> (left + DAY_SECONDS - 1) \div DAY_SECONDS]

-----------------------------------------------------------------------------
(* forecast.ts: what the wallet holds, and what it would hold if the pool  *)
(* lost lossBps now and every covered claim were then settled.             *)
terms(c) ==
  [active |-> c.status = "Active", notional |-> c.notional, triggerBps |-> c.triggerBps,
   lossIndexFrom |-> c.lossIndexFrom, expiryModelTime |-> c.expiryModelTime]

bestClaim(c, events) ==
  LET paid == {settleContract(terms(c), events[i]) : i \in DOMAIN events}
      most == {0} \cup {p \in paid : ~Throws(p)}
  IN  CHOOSE p \in most : \A q \in most : q <= p

eventTerms(e) == [index |-> e.index, modelTime |-> e.modelTime, lossBps |-> e.lossBps]

Row(key, now, after) == [key |-> key, now |-> now, after |-> after]

trancheRows(wallet, pool, after) ==
  {Row(<<"senior">>, amountForShares(n, pool.senior.assets, pool.senior.supply),
       amountForShares(n, after.seniorAssets, after.seniorSupply)) :
     n \in {wallet.seniorShares} \ {0}}
  \cup
  {Row(<<"junior">>, amountForShares(n, pool.junior.assets, pool.junior.supply),
       amountForShares(n, after.juniorAssets, after.juniorSupply)) :
     n \in {wallet.juniorShares} \ {0}}

contractRow(c, recorded, withLoss) ==
  Row(<<"contract", c.nonce>>, bestClaim(c, recorded), bestClaim(c, withLoss))

(* Every active contract that has a claim is paid, one after the other.    *)
(* Where a subtraction throws, so does the row: a negative amount.         *)
sellerRow(shares, protection, poolContracts, withLoss) ==
  LET settle(state, c) ==
        LET paid == bestClaim(c, withLoss)
        IN  IF c.status # "Active" \/ paid = 0 \/ \E f \in DOMAIN state : Throws(state[f])
            THEN state ELSE afterSettle(state, c.notional, paid)
      settled[n \in 0..Len(poolContracts)] ==
        IF n = 0 THEN [collateral |-> protection.collateral, reserved |-> protection.reserved]
        ELSE settle(settled[n - 1], poolContracts[n])
      last == settled[Len(poolContracts)]
  IN  Row(<<"seller">>, amountForShares(shares, protection.collateral, protection.shareSupply),
          IF \E f \in DOMAIN last : Throws(last[f]) THEN Overflow
          ELSE amountForShares(shares, last.collateral, protection.shareSupply))

positionForecast(pool, nowUnix, wallet, market, poolContracts, lossBps) ==
  LET projected == accruedView(pool, nowUnix)
      balances == poolBalances(projected)
      loss == lossAmount(balances.assets, lossBps)
      after == afterLoss(balances, applyLoss(loss, balances.seniorAssets, balances.juniorAssets))
      recorded == [i \in DOMAIN pool.lossEvents |-> eventTerms(pool.lossEvents[i])]
      hypothetical == [index |-> projected.lossCount, modelTime |-> projected.modelTime,
                       lossBps |-> lossBps]
      withLoss == Append(recorded, hypothetical)
      active == {i \in DOMAIN wallet.contracts : wallet.contracts[i].status = "Active"}
  IN  trancheRows(wallet, projected, after)
      \cup {contractRow(wallet.contracts[i], recorded, withLoss) : i \in active}
      \cup {sellerRow(wallet.sellerShares, protection, poolContracts, withLoss) :
              protection \in {m \in market : wallet.sellerShares > 0}}

=============================================================================
