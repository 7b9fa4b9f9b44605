----------------------------- MODULE WashViews ------------------------------
(***************************************************************************)
(* packages/chain/src/view.ts: what the pages know of the chain.  A view   *)
(* is made from decoded accounts; values are derived with the mirror of    *)
(* the program's arithmetic.                                               *)
(***************************************************************************)
EXTENDS WashMirror, SequencesExt

NAV_ONE == 1000000

nav(assets, supply) == IF supply = 0 THEN NAV_ONE ELSE (assets * NAV_ONE) \div supply

(* For a line on the page, not for an operation: an exhausted tranche is   *)
(* worth nothing, and nothing is thrown.                                   *)
amountForShares(shares, assets, supply) ==
  IF supply = 0 THEN 0 ELSE (shares * assets) \div supply

trancheView(mint, assets, supply) ==
  [mint |-> mint, assets |-> assets, supply |-> supply, nav |-> nav(assets, supply)]

lossEventView(address, event) ==
  [address |-> address, index |-> event.index, ts |-> event.ts, modelTime |-> event.modelTime,
   lossBps |-> event.lossBps, amount |-> event.amount, juniorLoss |-> event.juniorLoss,
   seniorLoss |-> event.seniorLoss, assetsBefore |-> event.assetsBefore,
   assetsAfter |-> event.assetsBefore - event.amount]

poolView(address, pool, seniorSupply, juniorSupply, lossEvents) ==
  [address |-> address, id |-> pool.id, operator |-> pool.operator, mint |-> pool.mint,
   vault |-> pool.vault,
   params |-> [yieldRateBps |-> pool.yieldRateBps, seniorRateBps |-> pool.seniorRateBps,
               minJuniorBps |-> pool.minJuniorBps, perfFeeBps |-> pool.perfFeeBps,
               timeScale |-> pool.timeScale],
   assets |-> pool.assets,
   senior |-> trancheView(pool.seniorMint, pool.seniorAssets, seniorSupply),
   junior |-> trancheView(pool.juniorMint, pool.juniorAssets, juniorSupply),
   modelTime |-> pool.modelTime, lastAccruedTs |-> pool.lastAccruedTs,
   createdAt |-> pool.createdAt, lossCount |-> pool.lossCount, lossEvents |-> lossEvents]

protectionView(address, protection) ==
  [address |-> address, pool |-> protection.pool, pvault |-> protection.pvault,
   params |-> [premiumRateBps |-> protection.premiumRateBps,
               triggerBps |-> protection.triggerBps,
               premiumFeeBps |-> protection.premiumFeeBps],
   collateral |-> protection.collateral, reserved |-> protection.reserved,
   free |-> protection.collateral - protection.reserved,
   shareSupply |-> protection.shareSupply,
   shareValue |-> nav(protection.collateral, protection.shareSupply),
   contracts |-> protection.contracts]

contractView(address, contract) ==
  [address |-> address, buyer |-> contract.buyer, nonce |-> contract.nonce,
   notional |-> contract.notional, premium |-> contract.premium,
   startModelTime |-> contract.startModelTime, expiryModelTime |-> contract.expiryModelTime,
   triggerBps |-> contract.triggerBps, lossIndexFrom |-> contract.lossIndexFrom,
   status |-> contract.status, settledLossIndex |-> contract.settledLossIndex,
   payout |-> contract.payout]

(* The sort of the readers (read.ts).                                      *)
InOrder(views) ==
  CHOOSE list \in [1..Cardinality(views) -> views] :
    /\ IsInjective(list)
    /\ \A i, j \in DOMAIN list : i < j => list[i].nonce <= list[j].nonce

(* The shares of a seller are worth nothing where there is no market.      *)
walletView(owner, pool, base, seniorShares, juniorShares, sellerShares, market, contracts) ==
  [owner |-> owner, base |-> base, seniorShares |-> seniorShares, juniorShares |-> juniorShares,
   seniorValue |-> amountForShares(seniorShares, pool.senior.assets, pool.senior.supply),
   juniorValue |-> amountForShares(juniorShares, pool.junior.assets, pool.junior.supply),
   sellerShares |-> sellerShares,
   sellerValue |-> LET values == {amountForShares(sellerShares, m.collateral, m.shareSupply) :
                                    m \in market}
                   IN  IF values = {} THEN 0 ELSE CHOOSE v \in values : TRUE,
   contracts |-> contracts]

-----------------------------------------------------------------------------
poolBalances(pool) ==
  [assets |-> pool.assets, seniorAssets |-> pool.senior.assets,
   juniorAssets |-> pool.junior.assets, seniorSupply |-> pool.senior.supply,
   juniorSupply |-> pool.junior.supply]

poolRates(pool) ==
  [yieldBps |-> pool.params.yieldRateBps, seniorBps |-> pool.params.seniorRateBps,
   feeBps |-> pool.params.perfFeeBps]

withBalances(pool, b) ==
  [pool EXCEPT !.assets = b.assets,
               !.senior = trancheView(pool.senior.mint, b.seniorAssets, b.seniorSupply),
               !.junior = trancheView(pool.junior.mint, b.juniorAssets, b.juniorSupply)]

accruedViewByPoll(pool, nowUnix) == pool               \* mutant: the pool as the chain last left it

(* The pool as an instruction sent at nowUnix will find it, for each       *)
(* accrues first.  A clock behind the chain's counts as standing still.    *)
accruedView(pool, nowUnix) ==
  LET elapsed == IF nowUnix > pool.lastAccruedTs THEN nowUnix - pool.lastAccruedTs ELSE 0
      dtModel == elapsed * pool.params.timeScale
      balances == poolBalances(pool)
      next == afterAccrual(balances, accrue(balances, poolRates(pool), dtModel))
  IN  [withBalances(pool, next) EXCEPT !.modelTime = @ + dtModel,
                                       !.lastAccruedTs = @ + elapsed]

=============================================================================
