------------------------------ MODULE WashDesk ------------------------------
(***************************************************************************)
(* The whole program with the pages in front of it: what a page shows and  *)
(* offers, against what the program then does.                             *)
(*                                                                         *)
(* A page polls the pool with its losses, the market, and the wallet, each *)
(* by a query of its own (queries/pool.ts, protection.ts, wallet.ts), so   *)
(* what it has may come from three moments, all of them past; seen keeps   *)
(* them.  The contracts of the whole pool, which a seller's page polls     *)
(* besides, are taken from the moment of the wallet.                       *)
(*                                                                         *)
(* Behaviours begin when one person has founded the program and provided   *)
(* the collateral and another has put money into both tranches and bought  *)
(* one contract, all at clock 0.  Bounds: MaxSent transactions from there, *)
(* each poll once (a later poll is one that waited), no more collateral.   *)
(***************************************************************************)
EXTENDS WashProtection, WashScreens, WashMeasure

CONSTANTS
  Founder, Saver,       \* who founded the program and sells cover; who saves and buys it
  Viewer,               \* whose pages poll
  Deposited, Provided,  \* by the saver into each tranche; by the founder as collateral
  Purse,                \* what each holds besides
  FirstCover, FirstDays, \* notional and term of the contract there is
  Tried,                \* the amounts a form is filled with
  TermDays,             \* the terms offered
  Skews,                \* bound: the seconds a browser's clock is ahead of the chain's
  MaxSent               \* bound: transactions

ASSUME DeskAssumption ==
  /\ {Founder, Saver, Viewer} \subseteq Users
  /\ Deposited \in [Tranches -> U64 \ {0}] /\ {Provided, Purse} \subseteq U64
  /\ Deposited["Senior"] + Deposited["Junior"] + Provided + Purse * Cardinality(Users) \in U64
  /\ FirstCover \in 1 .. Provided
  /\ FirstDays \in Nat \ {0} /\ TermDays \subseteq Nat \ {0}
  /\ \A days \in TermDays \cup {FirstDays} : days * DAY_SECONDS \in U64 \cap 0 .. MaxTerm
  /\ \A days \in TermDays : days * DAY_SECONDS \in Terms
  /\ Tried \subseteq U64 /\ Skews \subseteq Int
  /\ MaxSent \in Nat /\ 0 .. MaxSent \subseteq Nonces

VARIABLES
  seen,  \* the views the page has, by query
  sent   \* transactions so far

deskVars == <<clock, config, pool, balances, modelTime, lastAccrued, lossCount, events, base,
              minted, held, cover, collateral, reserved, shareSupply, bought, positions,
              contracts, seen, sent>>

-----------------------------------------------------------------------------
(* The accounts as the readers hand them to the pages.                     *)
Losses ==
  [i \in 1..lossCount |->
     lossEventView(<<"loss", i - 1>>,
       [index |-> i - 1, ts |-> events[i - 1].ts, modelTime |-> events[i - 1].model_time,
        lossBps |-> events[i - 1].loss_bps, amount |-> events[i - 1].amount,
        juniorLoss |-> events[i - 1].junior_loss, seniorLoss |-> events[i - 1].senior_loss,
        assetsBefore |-> events[i - 1].assets_before])]

(* The pool account with these balances, brought up to this moment.        *)
PoolWith(b, model_time, last_accrued) ==
  poolView("pool",
    [id |-> 0, operator |-> pool.operator, mint |-> "mint", vault |-> "vault",
     seniorMint |-> "Senior", juniorMint |-> "Junior",
     yieldRateBps |-> pool.params.yield_rate_bps, seniorRateBps |-> pool.params.senior_rate_bps,
     minJuniorBps |-> pool.params.min_junior_bps, perfFeeBps |-> pool.params.perf_fee_bps,
     timeScale |-> pool.params.time_scale, assets |-> b.assets,
     seniorAssets |-> b.nav["Senior"], juniorAssets |-> b.nav["Junior"],
     modelTime |-> model_time, lastAccruedTs |-> last_accrued, createdAt |-> pool.created_at,
     lossCount |-> lossCount],
    b.supply["Senior"], b.supply["Junior"], Losses)

PoolNow == PoolWith(balances, modelTime, lastAccrued)

(* The pool as an instruction leaves it that accrues and then leaves these *)
(* balances; a new loss record is not in it.                               *)
PoolAfter(b) == PoolWith(b, modelTime + DtModel, Timestamp)

MarketNow ==
  protectionView("protection",
    [pool |-> "pool", pvault |-> "pvault", premiumRateBps |-> cover.premium_rate_bps,
     triggerBps |-> cover.trigger_bps, premiumFeeBps |-> cover.premium_fee_bps,
     collateral |-> collateral, reserved |-> reserved, shareSupply |-> shareSupply,
     contracts |-> bought])

ContractNow(key) ==
  LET c == contracts[key]
  IN  contractView(key,
        [buyer |-> key[1], nonce |-> key[2], notional |-> c.notional, premium |-> c.premium,
         startModelTime |-> c.start_model_time, expiryModelTime |-> c.expiry_model_time,
         triggerBps |-> c.trigger_bps, lossIndexFrom |-> c.loss_index_from, status |-> c.status,
         settledLossIndex |-> c.settled_loss_index, payout |-> c.payout])

ContractsNow(keys) == InOrder({ContractNow(key) : key \in keys})

WalletNow(u) ==
  walletView(u, PoolNow, base[u], held["Senior"][u], held["Junior"][u], positions[u],
             {MarketNow}, ContractsNow({key \in DOMAIN contracts : key[1] = u}))

-----------------------------------------------------------------------------
(* What a page takes for now is the clock of its browser (useUnixNow),     *)
(* behind the chain's or ahead of it.                                      *)
UnixNow == {clock + ahead : ahead \in Skews} \cap Nat

(* How much too far a page can draw the model time by such a clock.        *)
Early(now) == IF now > Timestamp THEN (now - Timestamp) * pool.params.time_scale ELSE 0

-----------------------------------------------------------------------------
DeskInit ==
  /\ clock = 0
  /\ config \in [authority : {Founder}, faucet_cap : FaucetCaps]
  /\ pool \in [operator : {Founder}, created_at : {0}, params : PoolParams]
  /\ ValidParams(pool.params)
  /\ cover \in CoverParams
  /\ ValidCover(cover)
  /\ modelTime = 0 /\ lastAccrued = 0 /\ lossCount = 0
  /\ events = [i \in {} |-> 0]
  /\ LET assets == Deposited["Senior"] + Deposited["Junior"]
         term == FirstDays * DAY_SECONDS
         paid == Premium(FirstCover, cover.premium_rate_bps, term)
         fee == PremiumFee(paid, cover.premium_fee_bps)
     IN  /\ balances = [assets |-> assets, nav |-> Deposited, supply |-> Deposited]
         /\ SubordinationOk(balances, pool.params.min_junior_bps)
         /\ paid \in 0..Purse /\ (paid > 0 \/ cover.premium_rate_bps = 0)
         /\ minted = assets + Provided + Purse * Cardinality(Users)
         /\ collateral = Provided + paid - fee
         /\ base = [a \in Accounts |-> CASE a = "vault" -> assets
                                         [] a = "pvault" -> collateral
                                         [] a = "treasury" -> fee
                                         [] a = Saver -> Purse - paid
                                         [] OTHER -> Purse]
         /\ contracts = [key \in {<<Saver, 0>>} |->
              [notional |-> FirstCover, premium |-> paid, start_model_time |-> 0,
               expiry_model_time |-> term, trigger_bps |-> cover.trigger_bps,
               loss_index_from |-> 0, status |-> "Active", settled_loss_index |-> 0,
               payout |-> 0]]
  /\ held = [t \in Tranches |-> [u \in Users |-> IF u = Saver THEN Deposited[t] ELSE 0]]
  /\ reserved = FirstCover /\ shareSupply = Provided /\ bought = 1
  /\ positions = [u \in Users |-> IF u = Founder THEN Provided ELSE 0]
  /\ seen = [pool |-> {}, market |-> {}, wallet |-> {}]
  /\ sent = 0

(* The transactions of the pages, whoever sends them.                      *)
PoolStep ==
  /\ UNCHANGED coverVars
  /\ \/ Accrue
     \/ \E t \in Tranches, amount \in Amounts : Deposit(Saver, t, amount)
     \/ \E t \in Tranches, shares \in Amounts : Redeem(Saver, t, shares)
     \/ lossCount < MaxLosses /\ \E bps \in LossRates : RecordLoss(Founder, bps)

MarketStep ==
  \/ \E u \in Users, notional \in CoverAmounts, days \in TermDays :
       BuyProtection(u, notional, days * DAY_SECONDS, bought)
  \/ \E shares \in CoverAmounts \cup {positions[Founder]} : WithdrawProtection(Founder, shares)
  \/ \E key \in DOMAIN contracts, i \in DOMAIN events : SettleProtection(key, i)
  \/ \E u \in Users, key \in DOMAIN contracts : ExpireProtection(u, key)

Send ==
  /\ sent < MaxSent
  /\ PoolStep \/ MarketStep
  /\ sent' = sent + 1
  /\ UNCHANGED seen

TimePasses == ClockMoves /\ UNCHANGED coverVars /\ UNCHANGED <<seen, sent>>

PollPool ==
  /\ seen.pool = {}
  /\ seen' = [seen EXCEPT !.pool = {PoolNow}]
  /\ UNCHANGED vars /\ UNCHANGED sent

PollMarket ==
  /\ seen.market = {}
  /\ seen' = [seen EXCEPT !.market = {MarketNow}]
  /\ UNCHANGED vars /\ UNCHANGED sent

PollWallet ==
  /\ seen.wallet = {}
  /\ seen' = [seen EXCEPT !.wallet = {[wallet |-> WalletNow(Viewer),
                                       contracts |-> ContractsNow(DOMAIN contracts)]}]
  /\ UNCHANGED vars /\ UNCHANGED sent

DeskNext == Send \/ TimePasses \/ PollPool \/ PollMarket \/ PollWallet

DeskSpec == DeskInit /\ [][DeskNext]_deskVars

-----------------------------------------------------------------------------
(* Where nothing has been read yet: every state of the chain is reached so,*)
(* and the properties of a fresh read need no more.  They are about the    *)
(* computation, so they are stated for a browser whose clock agrees with   *)
(* the chain's; what a page shows by another one is in QuoteHolds and      *)
(* ClaimShownIsPayable.                                                    *)
Unread == seen = [pool |-> {}, market |-> {}, wallet |-> {}]

(* On a fresh read the tranche panel and the loss form accept what the     *)
(* program accepts and nothing else, and the pool they draw is, to the     *)
(* unit, the pool the program leaves behind, whatever yield is due.  Only  *)
(* where the accrual itself leaves u64 have the pages nothing to offer.    *)
(* (preview.ts, loss-form.ts, accruedView of view.ts)                      *)
PreviewExact ==
  Unread =>
    \A projected \in {accruedView(PoolNow, clock)} :
      /\ \A u \in Users, t \in Tranches, value \in Tried :
           /\ \A in \in {preview(projected, "deposit", t, value, {WalletNow(u)})} :
                IF in.kind = "ok" /\ AccrualFits
                THEN /\ DepositAccepts(u, t, value)
                     /\ in.receive = DepositedShares(t, value)
                     /\ in.after = PoolAfter(DepositedBooks(t, value))
                ELSE ~DepositAccepts(u, t, value)
           /\ \A out \in {preview(projected, "redeem", t, value, {WalletNow(u)})} :
                IF out.kind = "ok" /\ AccrualFits
                THEN /\ RedeemAccepts(u, t, value)
                     /\ out.receive = Redeemed(t, value)
                     /\ out.after = PoolAfter(AfterRedeem(Accrued, t, value, Redeemed(t, value)))
                ELSE ~RedeemAccepts(u, t, value)
      /\ \A bps \in LossRates : \A loss \in {lossPreview(projected, bps)} :
           IF loss.kind = "ok" /\ AccrualFits
           THEN /\ LossAccepts(Founder, bps)
                /\ loss.juniorLoss = LossSplit(bps)["Junior"]
                /\ loss.seniorLoss = LossSplit(bps)["Senior"]
                /\ loss.after = PoolAfter(AfterLoss(Accrued, LossSplit(bps)))
           ELSE ~LossAccepts(Founder, bps)

(* The last numbers of u64, which the desk does not look at: the end of a  *)
(* term and the number of the next contract.                               *)
CanBeNumbered(notional, term) ==
  /\ Bought(notional, term).expiry_model_time \in U64
  /\ bought + 1 \in U64

(* The seller's form: it does not see the supply of shares leave u64.      *)
SalesExact ==
  \A market \in {MarketNow}, u \in Users, value \in Tried :
    /\ \A into \in {sellPreview(market, "provide", value, {WalletNow(u)})} :
         IF into.kind = "ok" /\ shareSupply + ProvidedShares(value) \in U64
         THEN /\ ProvideAccepts(u, value)
              /\ into.receive = ProvidedShares(value)
              /\ into.after = [collateral |-> collateral + value, reserved |-> reserved]
         ELSE ~ProvideAccepts(u, value)
    /\ \A out \in {sellPreview(market, "withdraw", value, {WalletNow(u)})} :
         IF out.kind = "ok"
         THEN /\ WithdrawAccepts(u, value)
              /\ out.receive = Withdrawn(value)
              /\ out.after = [collateral |-> collateral - Withdrawn(value), reserved |-> reserved]
         ELSE ~WithdrawAccepts(u, value)

(* The buyer's form, for a term beginning now.                             *)
PurchasesExact ==
  \A market \in {MarketNow}, now \in {projectedModelTime(PoolNow, clock)},
     u \in Users, notional \in Tried \ {0}, days \in TermDays :
    \A buy \in {premiumPreview(market, now, notional, days, {WalletNow(u)})} :
      LET term == days * DAY_SECONDS
      IN  IF buy.kind = "ok" /\ AccrualFits /\ CanBeNumbered(notional, term)
          THEN /\ BuyAccepts(u, notional, term, bought)
               /\ buy.premium = Price(notional, term)
               /\ buy.expiryModelTime = Bought(notional, term).expiry_model_time
               /\ buy.after = [collateral |-> collateral + PriceNet(notional, term),
                               reserved |-> reserved + notional]
          ELSE ~BuyAccepts(u, notional, term, bought)

(* What "max" fills in can leave unless it is worth nothing.               *)
MaxMayLeave ==
  LET max == maxWithdrawShares(MarketNow, positions[Founder])
      out == sellPreview(MarketNow, "withdraw", max, {WalletNow(Founder)})
  IN  out.kind = "ok" \/ out.reason \in {"zero", "rounds to zero", "waterfall"}

(* The position sheet, on a read of one moment: its settlements of every   *)
(* claim never take more than the collateral and the reserve hold.         *)
ForecastDrawn ==
  AccrualFits =>
    \A u \in Users, bps \in {b \in LossRates : b <= BPS} :
      \A row \in positionForecast(PoolNow, clock, WalletNow(u), {MarketNow},
                                  ContractsNow(DOMAIN contracts), bps) :
        /\ ~Throws(row.now) /\ ~Throws(row.after)
        /\ row.key = <<"senior">> => row.now = Redeemed("Senior", held["Senior"][u])

(* The same for the protection desk, but that it does not see the supply   *)
(* of shares, the accrual, a term or the number of contracts leave u64;    *)
(* and the position sheet shows what a redemption would pay.               *)
(* (cover.ts, forecast.ts)                                                 *)
DeskExact ==
  Unread => SalesExact /\ PurchasesExact /\ MaxMayLeave /\ ForecastDrawn

(* A quote made of views of three past moments, by a browser's clock: the  *)
(* program charges the quoted premium, on the terms shown, for a term that *)
(* ends no earlier than shown but for what the browser is ahead; it        *)
(* refuses only if meanwhile somebody reserved or withdrew the free        *)
(* collateral, the buyer spent the premium, or bought in another tab, or a *)
(* number leaves u64.                                                      *)
(* (cover.ts:99 and ProtectionScreen.tsx, BuyButton; model-clock.ts)       *)
QuoteHolds ==
  \A p \in seen.pool, m \in seen.market, w \in seen.wallet,
     notional \in Tried \ {0}, days \in TermDays, now \in UnixNow :
    \A buy \in {premiumPreview(m, projectedModelTime(p, now), notional, days, {w.wallet})} :
      LET key == <<Viewer, m.contracts>>
          term == days * DAY_SECONDS
          contract == Bought(notional, term)
      IN  buy.kind = "ok" /\ AccrualFits /\ CanBeNumbered(notional, term) =>
          IF notional <= Free /\ buy.premium <= base[Viewer] /\ key \notin DOMAIN contracts
          THEN /\ BuyAccepts(Viewer, notional, term, m.contracts)
               /\ contract.premium = buy.premium
               /\ contract.expiry_model_time + Early(now) >= buy.expiryModelTime
               /\ contract.loss_index_from >= Len(p.lossEvents)
               /\ contract.trigger_bps = m.params.triggerBps
          ELSE ~BuyAccepts(Viewer, notional, term, m.contracts)

(* A claim or a finished term that a row shows, from a list of losses and  *)
(* a contract read at different moments and by a browser's clock, stays    *)
(* good for exactly the money shown until somebody closes the contract:    *)
(* neither time, nor further losses, nor an emptied market take it away.   *)
(* A term is shown as over too early only by what the browser is ahead.    *)
(* Every buyer has a token account here; what becomes of a claim whose     *)
(* buyer has closed it, WashClient says (FreshIsTaken).                    *)
(* (contractState of cover.ts, settle_protection.rs, expire_protection.rs) *)
ClaimShownIsPayable ==
  \A p \in seen.pool, w \in seen.wallet, now \in UnixNow : \A i \in DOMAIN w.contracts :
    \A row \in {contractState(w.contracts[i], p.lossEvents, projectedModelTime(p, now))} :
      LET c == w.contracts[i]
          key == c.address
          left == c.expiryModelTime - (modelTime + DtModel)
      IN  contracts[key].status = "Active" =>
          /\ row.kind = "claim" => /\ SettleAccepts(key, row.event.index)
                                   /\ Claim(key, row.event.index) = row.payout
          /\ row.kind = "expirable" /\ AccrualFits =>
               IF left <= 0 THEN ExpireAccepts(c.buyer, key) ELSE left <= Early(now)
          /\ row.kind = "covered" => row.daysLeft > 0

(* The demo tool's own checks find nothing to complain about, whatever the *)
(* program does between two reads one instruction apart: a loss on top of  *)
(* the yield since the last accrual, a purchase, a settlement, an expiry;  *)
(* and a seller who was alone from the start and leaves with everything    *)
(* has what was provided, all net premiums, less all payouts.  (measure.ts)*)
Closing(status) ==
  {key \in DOMAIN contracts : contracts[key].status = "Active" /\ contracts'[key].status = status}

Of(field) == [key \in DOMAIN contracts |-> contracts[key][field]]

Fees ==
  [key \in DOMAIN contracts |-> premiumFee(contracts[key].premium, cover.premium_fee_bps)]

MeasureStep ==
  /\ lossCount' > lossCount =>
       checkWaterfall(PoolNow, PoolNow', Losses'[lossCount + 1]) = {}
  /\ \A key \in DOMAIN contracts' \ DOMAIN contracts :
       \E days \in TermDays :
         checkPurchase(ContractNow(key)', days * DAY_SECONDS, base[key[1]], base'[key[1]],
                       MarketNow, MarketNow') = {}
  /\ \A key \in Closing("Settled") :
       \E i \in DOMAIN Losses :
         checkSettle(ContractNow(key)', Losses[i], base[key[1]], base'[key[1]],
                     MarketNow, MarketNow') = {}
  /\ \A key \in Closing("Expired") : checkExpire(ContractNow(key)', MarketNow, MarketNow') = {}
  /\ positions[Founder] = Provided /\ positions'[Founder] = 0 =>
       checkSeller(Provided, base'[Founder] - base[Founder],
                   Total(Of("premium"), DOMAIN contracts), Total(Fees, DOMAIN contracts),
                   Total(Of("payout"), DOMAIN contracts), TRUE) = {}

MeasureAgrees == [][MeasureStep]_deskVars

(* forecast.ts:1-4: the position sheet forecasts what the wallet would     *)
(* hold.  Of a market and contracts read by different queries it may ask   *)
(* for more than there is, and throws in the middle of drawing the page.   *)
ForecastIsShown ==
  \A p \in seen.pool, m \in seen.market, w \in seen.wallet, bps \in LossRates :
    \A row \in positionForecast(p, clock, w.wallet, {m}, w.contracts, bps) : ~Throws(row.after)

=============================================================================
