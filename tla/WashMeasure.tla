---------------------------- MODULE WashMeasure -----------------------------
(***************************************************************************)
(* tools/demo/src/measure.ts: how the demo run checks the program.  Each   *)
(* check compares what was read after a step with what the mirror of the   *)
(* arithmetic expects from what was read before, and gives the list of     *)
(* mismatches: label, value read, value expected.                          *)
(***************************************************************************)
EXTENDS WashViews

mismatches(pairs) == {p \in pairs : p[2] # p[3]}

(* before is the pool as read before the loss, perhaps some time earlier.  *)
checkWaterfall(before, after, event) ==
  LET atEvent == accruedView(before, event.ts)
      expected == applyLoss(event.amount, atEvent.senior.assets, atEvent.junior.assets)
  IN  mismatches(
        {<<"assets_before", event.assetsBefore, atEvent.assets>>,
         <<"junior_loss", event.juniorLoss, expected.juniorLoss>>,
         <<"senior_loss", event.seniorLoss, expected.seniorLoss>>,
         <<"senior after", after.senior.assets, atEvent.senior.assets - event.seniorLoss>>,
         <<"junior after", after.junior.assets, atEvent.junior.assets - event.juniorLoss>>,
         <<"assets after", after.assets, event.assetsAfter>>,
         IF event.amount <= atEvent.junior.assets
         THEN <<"senior untouched", after.senior.assets, atEvent.senior.assets>>
         ELSE <<"senior_loss = L - junior", event.seniorLoss,
                event.amount - atEvent.junior.assets>>})

checkPurchase(contract, term, buyerBefore, buyerAfter, before, after) ==
  LET want == premium(contract.notional, before.params.premiumRateBps, term)
      fee == premiumFee(want, before.params.premiumFeeBps)
  IN  mismatches(
        {<<"premium", contract.premium, want>>,
         <<"term", contract.expiryModelTime - contract.startModelTime, term>>,
         <<"status", contract.status, "Active">>,
         <<"buyer paid", buyerBefore - buyerAfter, want>>,
         <<"collateral", after.collateral, before.collateral + want - fee>>,
         <<"reserved", after.reserved, before.reserved + contract.notional>>,
         <<"share supply", after.shareSupply, before.shareSupply>>})

checkSettle(contract, event, buyerBefore, buyerAfter, before, after) ==
  LET want == payout(contract.notional, event.lossBps)
  IN  mismatches(
        {<<"buyer received", buyerAfter - buyerBefore, want>>,
         <<"contract payout", contract.payout, want>>,
         <<"status", contract.status, "Settled">>,
         <<"settled loss index", contract.settledLossIndex, event.index>>,
         <<"collateral", after.collateral, before.collateral - want>>,
         <<"reserved", after.reserved, before.reserved - contract.notional>>})

checkExpire(contract, before, after) ==
  mismatches(
    {<<"status", contract.status, "Expired">>,
     <<"payout", contract.payout, 0>>,
     <<"reserved", after.reserved, before.reserved - contract.notional>>,
     <<"collateral", after.collateral, before.collateral>>})

(* A seller alone in the market has all the net premiums and all payouts.  *)
checkSeller(provided, withdrawn, premiums, fees, paid, soleSeller) ==
  IF soleSeller
  THEN mismatches({<<"seller withdrew", withdrawn, provided + premiums - fees - paid>>})
  ELSE {}

=============================================================================
