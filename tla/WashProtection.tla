--------------------------- MODULE WashProtection ---------------------------
(***************************************************************************)
(* The protection market over the pool: sellers provide collateral for     *)
(* shares of it, buyers reserve a part of it for a term against a premium, *)
(* a loss record inside the term pays the buyer a part of the notional,    *)
(* and a contract past its term is closed.  Together with the instructions *)
(* of WashPool, which this module extends, it is the whole program.        *)
(*                                                                         *)
(* Two instructions, buy and expire, bring the pool up to now first; the   *)
(* others run on the pool as the last accrual left it.  Settling reads a   *)
(* loss record whose transaction may be long past.                         *)
(***************************************************************************)
EXTENDS WashPool

CONSTANTS
  NoCover,       \* the ProtectionPool account does not exist yet
  CoverParams,   \* the parameters init_protection may be called with
  CoverAmounts,  \* the amount, share and notional arguments
  Terms,         \* the term arguments of buy_protection
  MaxTerm,       \* MAX_TERM_SECONDS
  Nonces         \* the nonces buyers choose; bounds the contracts of a buyer

ASSUME ProtectionAssumption ==
  /\ CoverParams \subseteq [premium_rate_bps : Nat, trigger_bps : Nat, premium_fee_bps : Nat]
  /\ NoCover \notin CoverParams
  /\ CoverAmounts \subseteq U64
  /\ Terms \subseteq U64
  /\ MaxTerm \in Nat
  /\ Nonces \subseteq U64

VARIABLES
  cover,       \* the parameters init_protection fixes in the ProtectionPool account
  collateral,  \* ProtectionPool.collateral
  reserved,    \* ProtectionPool.reserved
  shareSupply, \* ProtectionPool.share_supply
  bought,      \* ProtectionPool.contracts, the counter
  positions,   \* SellerPosition.shares, by owner; 0 where there is no account
  contracts    \* the ProtectionContract accounts, by buyer and nonce

coverVars == <<cover, collateral, reserved, shareSupply, bought, positions, contracts>>

vars == <<clock, config, pool, balances, modelTime, lastAccrued, lossCount,
          events, base, minted, held,
          cover, collateral, reserved, shareSupply, bought, positions, contracts>>

SellerPositions == [Users -> U64]

Contract ==
  [notional : U64, premium : U64, start_model_time : U64, expiry_model_time : U64,
   trigger_bps : 0 .. BPS, loss_index_from : 0 .. MaxLosses,
   status : {"Active", "Settled", "Expired"}, settled_loss_index : 0 .. MaxLosses,
   payout : U64]

Init ==
  /\ PoolInit
  /\ cover = NoCover
  /\ collateral = 0
  /\ reserved = 0
  /\ shareSupply = 0
  /\ bought = 0
  /\ positions = [u \in Users |-> 0]
  /\ contracts = [k \in {} |-> 0]

FreeIgnoringReserve == collateral                       \* mutant: the reserve may be taken out

Free == collateral - reserved

-----------------------------------------------------------------------------
ValidCoverAnyTrigger(c) ==                              \* mutant: the trigger is not bounded
  /\ c.premium_rate_bps <= BPS
  /\ c.premium_fee_bps <= BPS

ValidCover(c) ==
  /\ c.premium_rate_bps <= BPS
  /\ c.trigger_bps <= BPS
  /\ c.premium_fee_bps <= BPS

InitProtection(signer, c) ==
  /\ pool # NoPool
  /\ signer = pool.operator
  /\ cover = NoCover
  /\ ValidCover(c)
  /\ cover' = c
  /\ UNCHANGED <<collateral, reserved, shareSupply, bought, positions, contracts>>
  /\ UNCHANGED poolVars

ProvidedShares(amount) == SharesForCollateral(amount, collateral, shareSupply)

ProvidedPositions(owner, amount) ==
  [positions EXCEPT ![owner] = @ + ProvidedShares(amount)]

PaidToMarket(user, amount) ==
  [base EXCEPT ![user] = @ - amount, !["pvault"] = @ + amount]

(* No accrual: the collateral earns nothing with time.                     *)
ProvideAccepts(owner, amount) ==
  /\ cover # NoCover
  /\ amount > 0
  /\ ProvidedShares(amount) > 0
  /\ shareSupply + ProvidedShares(amount) \in U64
  /\ ProvidedPositions(owner, amount) \in SellerPositions
  /\ PaidToMarket(owner, amount) \in TokenAccounts
  /\ collateral + amount \in U64

ProvideProtection(owner, amount) ==
  /\ ProvideAccepts(owner, amount)
  /\ shareSupply' = shareSupply + ProvidedShares(amount)
  /\ positions' = ProvidedPositions(owner, amount)
  /\ base' = PaidToMarket(owner, amount)
  /\ collateral' = collateral + amount
  /\ UNCHANGED <<clock, config, pool, balances, modelTime, lastAccrued, lossCount,
                 events, minted, held, cover, reserved, bought, contracts>>

Withdrawn(shares) == CollateralForShares(shares, collateral, shareSupply)

PaidFromMarket(user, amount) ==
  [base EXCEPT !["pvault"] = @ - amount, ![user] = @ + amount]

WithdrawAccepts(owner, shares) ==
  /\ cover # NoCover
  /\ shares > 0
  /\ shares <= positions[owner]
  /\ shares <= shareSupply
  /\ Withdrawn(shares) > 0
  /\ Withdrawn(shares) <= Free
  /\ PaidFromMarket(owner, Withdrawn(shares)) \in TokenAccounts

WithdrawProtection(owner, shares) ==
  /\ WithdrawAccepts(owner, shares)
  /\ base' = PaidFromMarket(owner, Withdrawn(shares))
  /\ collateral' = collateral - Withdrawn(shares)
  /\ shareSupply' = shareSupply - shares
  /\ positions' = [positions EXCEPT ![owner] = @ - shares]
  /\ UNCHANGED <<clock, config, pool, balances, modelTime, lastAccrued, lossCount,
                 events, minted, held, cover, reserved, bought, contracts>>

NewContractFromFirst(notional, premium, term) ==        \* mutant: covers every record there is
  [notional |-> notional, premium |-> premium, start_model_time |-> modelTime + DtModel,
   expiry_model_time |-> modelTime + DtModel + term, trigger_bps |-> cover.trigger_bps,
   loss_index_from |-> 0, status |-> "Active", settled_loss_index |-> 0, payout |-> 0]

NewContract(notional, premium, term) ==
  [notional |-> notional, premium |-> premium, start_model_time |-> modelTime + DtModel,
   expiry_model_time |-> modelTime + DtModel + term, trigger_bps |-> cover.trigger_bps,
   loss_index_from |-> lossCount, status |-> "Active", settled_loss_index |-> 0, payout |-> 0]

Price(notional, term) == Premium(notional, cover.premium_rate_bps, term)

PriceFee(notional, term) == PremiumFee(Price(notional, term), cover.premium_fee_bps)

PriceNet(notional, term) == Price(notional, term) - PriceFee(notional, term)

Bought(notional, term) == NewContract(notional, Price(notional, term), term)

BoughtBase(buyer, notional, term) ==
  [AccruedBase EXCEPT ![buyer] = @ - Price(notional, term),
                      !["treasury"] = @ + PriceFee(notional, term),
                      !["pvault"] = @ + PriceNet(notional, term)]

(* The free collateral is measured before the premium comes in.  The       *)
(* contract account lives at the address of buyer and nonce, which must    *)
(* not exist; the trigger and the first covered index are snapshots.       *)
BuyAccepts(buyer, notional, term, nonce) ==
  /\ cover # NoCover
  /\ notional > 0
  /\ term > 0
  /\ term <= MaxTerm
  /\ <<buyer, nonce>> \notin DOMAIN contracts
  /\ pool # NoPool
  /\ AccrualFits
  /\ Free >= 0
  /\ notional <= Free
  /\ Price(notional, term) > 0 \/ cover.premium_rate_bps = 0
  /\ Price(notional, term) \in U64
  /\ BoughtBase(buyer, notional, term) \in TokenAccounts
  /\ collateral + PriceNet(notional, term) \in U64
  /\ Bought(notional, term).expiry_model_time \in U64
  /\ reserved + notional \in U64
  /\ bought + 1 \in U64

BuyProtection(buyer, notional, term, nonce) ==
  /\ BuyAccepts(buyer, notional, term, nonce)
  /\ AccruePool
  /\ base' = BoughtBase(buyer, notional, term)
  /\ collateral' = collateral + PriceNet(notional, term)
  /\ contracts' = [k \in DOMAIN contracts \cup {<<buyer, nonce>>} |->
                     IF k = <<buyer, nonce>> THEN Bought(notional, term) ELSE contracts[k]]
  /\ reserved' = reserved + notional
  /\ bought' = bought + 1
  /\ balances' = Accrued
  /\ minted' = AccruedMint
  /\ UNCHANGED <<clock, config, pool, lossCount, events, held,
                 cover, shareSupply, positions>>

IsActiveUnlessExpired(key) ==                           \* mutant: a settled contract is still open
  contracts[key].status # "Expired"

IsActive(key) == contracts[key].status = "Active"

CoveredByLate(c, i) ==                                  \* mutant: losses after the term, too
  /\ i >= c.loss_index_from
  /\ events[i].loss_bps >= c.trigger_bps

(* The conditions settle_protection puts on a loss record.  No accrual, no *)
(* look at the clock, and no signer: anyone may send it, the money goes to *)
(* the buyer.                                                              *)
CoveredBy(c, i) ==
  /\ i >= c.loss_index_from
  /\ events[i].model_time <= c.expiry_model_time
  /\ events[i].loss_bps >= c.trigger_bps

AfterSettleKeepingRest(c, payout) ==                    \* mutant: only the payout is released
  [collateral |-> collateral - payout, reserved |-> reserved - payout]

AfterSettleTakingAll(c, payout) ==                      \* mutant: the rest is lost to the sellers
  [collateral |-> collateral - c.notional, reserved |-> reserved - c.notional]

(* The reserve is released in full: what was not paid stays the sellers'.  *)
AfterSettle(c, payout) ==
  [collateral |-> collateral - payout, reserved |-> reserved - c.notional]

Closed(c, status, i, payout) ==
  [notional |-> c.notional, premium |-> c.premium, start_model_time |-> c.start_model_time,
   expiry_model_time |-> c.expiry_model_time, trigger_bps |-> c.trigger_bps,
   loss_index_from |-> c.loss_index_from, status |-> status, settled_loss_index |-> i,
   payout |-> payout]

Claim(key, i) == Payout(contracts[key].notional, events[i].loss_bps)

SettleAccepts(key, i) ==
  /\ IsActive(key)
  /\ CoveredBy(contracts[key], i)
  /\ Claim(key, i) > 0
  /\ PaidFromMarket(key[1], Claim(key, i)) \in TokenAccounts
  /\ AfterSettle(contracts[key], Claim(key, i)).collateral \in U64
  /\ AfterSettle(contracts[key], Claim(key, i)).reserved \in U64

SettleProtection(key, i) ==
  /\ SettleAccepts(key, i)
  /\ base' = PaidFromMarket(key[1], Claim(key, i))
  /\ collateral' = AfterSettle(contracts[key], Claim(key, i)).collateral
  /\ reserved' = AfterSettle(contracts[key], Claim(key, i)).reserved
  /\ contracts' = [contracts EXCEPT ![key] = Closed(contracts[key], "Settled", i, Claim(key, i))]
  /\ UNCHANGED <<clock, config, pool, balances, modelTime, lastAccrued, lossCount,
                 events, minted, held, cover, shareSupply, bought, positions>>

(* Only the buyer or the operator; the collateral stays with the sellers.  *)
ExpireAccepts(signer, key) ==
  /\ IsActive(key)
  /\ signer = key[1] \/ signer = pool.operator
  /\ pool # NoPool
  /\ AccrualFits
  /\ modelTime + DtModel >= contracts[key].expiry_model_time
  /\ reserved - contracts[key].notional \in U64
  /\ AccruedBase \in TokenAccounts

ExpireProtection(signer, key) ==
  /\ ExpireAccepts(signer, key)
  /\ AccruePool
  /\ reserved' = reserved - contracts[key].notional
  /\ contracts' = [contracts EXCEPT ![key] = Closed(@, "Expired", @.settled_loss_index, @.payout)]
  /\ balances' = Accrued
  /\ base' = AccruedBase
  /\ minted' = AccruedMint
  /\ UNCHANGED <<clock, config, pool, lossCount, events, held,
                 cover, collateral, shareSupply, bought, positions>>

CoverNext ==
  \/ \E u \in Users, c \in CoverParams : InitProtection(u, c)
  \/ \E u \in Users, amount \in CoverAmounts : ProvideProtection(u, amount)
  \/ \E u \in Users : \E shares \in CoverAmounts \cup {positions[u]} : WithdrawProtection(u, shares)
  \/ \E u \in Users, notional \in CoverAmounts, term \in Terms, nonce \in Nonces :
       BuyProtection(u, notional, term, nonce)
  \/ \E key \in DOMAIN contracts, i \in DOMAIN events : SettleProtection(key, i)
  \/ \E u \in Users, key \in DOMAIN contracts : ExpireProtection(u, key)

Next ==
  \/ PoolNext /\ UNCHANGED coverVars
  \/ CoverNext

Spec == Init /\ [][Next]_vars

-----------------------------------------------------------------------------
(* Properties.                                                             *)

ActiveContracts == {key \in DOMAIN contracts : contracts[key].status = "Active"}

Notionals == [key \in DOMAIN contracts |-> contracts[key].notional]

(* Every variable of the market has its type.                              *)
CoverTypeOK ==
  /\ cover \in CoverParams \cup {NoCover}
  /\ collateral \in U64
  /\ reserved \in U64
  /\ shareSupply \in U64
  /\ bought \in U64
  /\ positions \in SellerPositions
  /\ DOMAIN contracts \subseteq Users \X Nonces
  /\ contracts \in [DOMAIN contracts -> Contract]

(* pvault holds exactly the collateral, and never less is in it than is    *)
(* reserved: the subtraction behind every free-collateral check is safe.   *)
CoverSolvent ==
  /\ base["pvault"] = collateral
  /\ reserved <= collateral

(* What is reserved is what the active contracts may claim, contract by    *)
(* contract, through purchases, settlements and expiries in any order.     *)
ReservedIsActive == reserved = Total(Notionals, ActiveContracts)

(* The sellers' positions are the shares, and with no shares out there is  *)
(* nothing in the collateral and nothing reserved in it.                   *)
SellersOwnCollateral ==
  /\ shareSupply = Total(positions, Users)
  /\ shareSupply = 0 => collateral = 0 /\ reserved = 0

(* A claim that meets the conditions can be settled, whatever sellers      *)
(* withdrew and whichever other contracts were settled first: the funds    *)
(* are there (the comment on math::payout).                                *)
ClaimsPayable ==
  \A key \in ActiveContracts, i \in DOMAIN events :
    CoveredBy(contracts[key], i) /\ Claim(key, i) > 0 => SettleAccepts(key, i)

(* The index of a record stands for its time: records from loss_index_from *)
(* on are no earlier than the purchase, the ones before it no later.       *)
IndexIsTime ==
  \A key \in DOMAIN contracts, i \in DOMAIN events :
    IF i >= contracts[key].loss_index_from
    THEN events[i].model_time >= contracts[key].start_model_time
    ELSE events[i].model_time <= contracts[key].start_model_time

(* A settled contract was paid for a loss inside its term that reached its *)
(* trigger, by that loss's share of the notional and never more than it;   *)
(* one closed as expired had reached its end, and paid nothing.            *)
ClosedRightly ==
  \A key \in DOMAIN contracts :
    LET c == contracts[key]
        i == c.settled_loss_index
    IN  /\ c.status = "Settled" =>
             /\ i \in DOMAIN events
             /\ events[i].model_time \in c.start_model_time .. c.expiry_model_time
             /\ events[i].loss_bps >= c.trigger_bps
             /\ c.payout = Payout(c.notional, events[i].loss_bps)
             /\ c.payout \in 1 .. c.notional
        /\ c.status = "Expired" => modelTime >= c.expiry_model_time /\ c.payout = 0

(* With no contract active, nothing holds a seller back whose shares are   *)
(* worth a unit: no reserve is left behind by contracts closed before.     *)
SellerCanLeave ==
  \A u \in Users :
    /\ ActiveContracts = {}
    /\ positions[u] > 0
    /\ positions[u] * collateral >= shareSupply
    => WithdrawAccepts(u, positions[u])

(* Only a settlement makes a seller's share worth less: contributions,     *)
(* withdrawals, premiums and expiries never do.                            *)
SellerPriceFallsOnlyBySettlement ==
  [][(\A key \in ActiveContracts : contracts'[key].status # "Settled")
       => collateral' * shareSupply >= collateral * shareSupply']_vars

(* A contract is never rewritten: its terms stay those of the purchase     *)
(* (the address cannot be bought twice), and once closed it stays closed,  *)
(* so it pays at most once.                                                *)
ContractClosesOnce ==
  [][\A key \in DOMAIN contracts :
       /\ key \in DOMAIN contracts'
       /\ contracts[key].status # "Active" => contracts'[key] = contracts[key]
       /\ LET c == contracts[key]
              d == contracts'[key]
          IN  \A f \in DOMAIN c \ {"status", "settled_loss_index", "payout"} : d[f] = c[f]]_vars

(* The buyer pays exactly the premium, and it goes to the sellers and the  *)
(* treasury; a settlement moves exactly the payout from the sellers to the *)
(* buyer: sellers and buyers together neither gain nor lose in a closing.  *)
ClosingIsZeroSum ==
  [][\A key \in DOMAIN contracts :
       contracts'[key].status # contracts[key].status =>
         /\ collateral' + contracts'[key].payout = collateral
         /\ base'[key[1]] = base[key[1]] + contracts'[key].payout]_vars

(* What a contract account at an address stands for.                       *)
Standing(key, c) ==
  [pool |-> 0, buyer |-> key[1], nonce |-> key[2], from |-> c.loss_index_from,
   status |-> IF c.status = "Active" THEN "active"
              ELSE IF c.status = "Settled" THEN "settled" ELSE "expired",
   by |-> c.settled_loss_index]

Ledger == INSTANCE WashLedger WITH
  Pools <- {0},
  Numbers <- Nonces,
  authority <- IF config = NoConfig THEN {} ELSE {config.authority},
  pools <- IF pool = NoPool THEN {} ELSE {0},
  markets <- IF cover = NoCover THEN {} ELSE {0},
  losses <- [p \in {0} |-> lossCount],
  contracts <- {Standing(key, contracts[key]) : key \in DOMAIN contracts}

(* Every instruction does one thing to the ledger or nothing: it opens the *)
(* program, the pool or the market, records a loss, sells a contract under *)
(* a number its buyer has not used, settles an active one on a loss of     *)
(* after its sale, or ends it; accruals, deposits, premiums and payouts    *)
(* that happen in the same step touch none of this.                        *)
KeepsLedger == Ledger!LedgerSpec

=============================================================================
