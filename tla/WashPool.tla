------------------------------ MODULE WashPool ------------------------------
(***************************************************************************)
(* The tranche pool of the program (programs/washapp/src/instructions and  *)
(* src/state): configuration, faucet, creation of the pool, the lazy       *)
(* accrual every instruction starts with, deposits, redemptions and the    *)
(* operator's loss records.                                                *)
(*                                                                         *)
(* One action per instruction.  A Solana transaction is atomic: a failed   *)
(* check anywhere in a handler leaves no trace, so each check is a guard,  *)
(* wherever in the handler it stands.  What interleaves is transactions of *)
(* different signers, and the clock of the chain.                          *)
(*                                                                         *)
(* Modelled from its use, not from source here: the SPL Token program.  A  *)
(* transfer needs the amount in the account it leaves, a burn needs the    *)
(* shares in the holder's account, a mint keeps the supply within u64.     *)
(***************************************************************************)
EXTENDS WashMath, Totals

CONSTANTS
  Users,         \* wallets that sign transactions
  NoConfig,      \* the Config account does not exist yet
  NoPool,        \* the Pool account does not exist yet
  PoolParams,    \* the parameters create_pool may be called with
  MaxTimeScale,  \* MAX_TIME_SCALE
  FaucetCaps,    \* the caps init_config may be called with
  Amounts,       \* the amount and share arguments of the instructions
  LossRates,     \* the loss_bps arguments of record_loss
  MaxClock,      \* bound: the chain clock stays in 0..MaxClock
  MaxLosses      \* bound: at most this many loss records

ASSUME PoolAssumption ==
  /\ IsFiniteSet(Users)
  /\ {"vault", "treasury", "pvault"} \cap Users = {}
  /\ PoolParams \subseteq [yield_rate_bps : Nat, senior_rate_bps : Nat,
                           min_junior_bps : Nat, perf_fee_bps : Nat, time_scale : Nat]
  /\ MaxTimeScale \in Nat
  /\ FaucetCaps \subseteq U64
  /\ Amounts \subseteq U64
  /\ LossRates \subseteq Nat
  /\ MaxClock \in Nat
  /\ MaxLosses \in Nat

ASSUME AbsentAssumption ==
  /\ NoConfig \notin [authority : Users, faucet_cap : U64]
  /\ NoPool \notin [operator : Users, created_at : 0 .. MaxClock, params : PoolParams]

VARIABLES
  clock,       \* unix_timestamp of the Clock sysvar
  config,      \* the Config account
  pool,        \* what create_pool fixes in the Pool account
  balances,    \* Pool.assets, senior_assets, junior_assets; supply of the tranche mints
  modelTime,   \* Pool.model_time
  lastAccrued, \* Pool.last_accrued_ts
  lossCount,   \* Pool.loss_count
  events,      \* the LossEvent accounts, by index
  base,        \* base-token accounts: the wallets, vault, treasury, pvault
  minted,      \* supply of the base mint
  held         \* tranche shares, by tranche and holder

poolVars == <<clock, config, pool, balances, modelTime, lastAccrued, lossCount,
              events, base, minted, held>>

Accounts == Users \cup {"vault", "treasury", "pvault"}

(* SPL Token checks that an account holds what leaves it and that what it  *)
(* receives fits: every account stays a u64, or the transaction fails.     *)
TokenAccounts == [Accounts -> U64]

ShareAccounts == [Tranches -> [Users -> U64]]

Config == [authority : Users, faucet_cap : U64]

Pool == [operator : Users, created_at : 0 .. MaxClock, params : PoolParams]

LossEvent ==
  [ts : 0 .. MaxClock, model_time : U64, loss_bps : 0 .. BPS, amount : U64,
   junior_loss : U64, senior_loss : U64, assets_before : U64]

PoolInit ==
  /\ clock = 0
  /\ config = NoConfig
  /\ pool = NoPool
  /\ balances = NoBalances
  /\ modelTime = 0
  /\ lastAccrued = 0
  /\ lossCount = 0
  /\ events = [i \in {} |-> 0]
  /\ base = [a \in Accounts |-> 0]
  /\ minted = 0
  /\ held = [t \in Tranches |-> [u \in Users |-> 0]]

-----------------------------------------------------------------------------
(* The chain's clock.  It should not go back; the handlers are written to  *)
(* survive it when it does.                                                *)
ClockMoves ==
  /\ clock' \in (0 .. MaxClock) \ {clock}
  /\ UNCHANGED <<config, pool, balances, modelTime, lastAccrued, lossCount,
                 events, base, minted, held>>

(* The first caller becomes the authority; the account exists only once.   *)
InitConfig(signer, cap) ==
  /\ config = NoConfig
  /\ cap > 0
  /\ config' = [authority |-> signer, faucet_cap |-> cap]
  /\ UNCHANGED <<clock, pool, balances, modelTime, lastAccrued, lossCount,
                 events, base, minted, held>>

Faucet(owner, amount) ==
  /\ config # NoConfig
  /\ amount > 0
  /\ amount <= config.faucet_cap
  /\ minted + amount \in U64
  /\ base' = [base EXCEPT ![owner] = @ + amount]
  /\ base' \in TokenAccounts
  /\ minted' = minted + amount
  /\ UNCHANGED <<clock, config, pool, balances, modelTime, lastAccrued,
                 lossCount, events, held>>

ValidParams(p) ==
  /\ p.yield_rate_bps <= BPS
  /\ p.senior_rate_bps <= BPS
  /\ p.perf_fee_bps <= BPS
  /\ p.min_junior_bps < BPS
  /\ p.time_scale \in 1 .. MaxTimeScale

CreatePool(signer, p) ==
  /\ config # NoConfig
  /\ signer = config.authority
  /\ pool = NoPool
  /\ ValidParams(p)
  /\ pool' = [operator |-> signer, created_at |-> clock, params |-> p]
  /\ lastAccrued' = clock
  /\ modelTime' = 0
  /\ lossCount' = 0
  /\ balances' = NoBalances
  /\ UNCHANGED <<clock, config, events, base, minted, held>>

(* The treasury is a token account of the authority, who moves the fees    *)
(* out with a plain SPL transfer.                                          *)
CollectFees(amount) ==
  /\ config # NoConfig
  /\ base' = [base EXCEPT !["treasury"] = @ - amount, ![config.authority] = @ + amount]
  /\ base' \in TokenAccounts
  /\ UNCHANGED <<clock, config, pool, balances, modelTime, lastAccrued,
                 lossCount, events, minted, held>>

-----------------------------------------------------------------------------
(* accrue_pool: bring the pool up to now.  Timestamp, Due and Accrued are  *)
(* what the rest of the calling handler sees.                              *)
Timestamp == IF clock >= lastAccrued THEN clock ELSE lastAccrued

DtModel == (Timestamp - lastAccrued) * pool.params.time_scale

Due == Accrual(balances, pool.params, DtModel)

Accrued == AfterAccrual(balances, Due)

AccruedMint == minted + Due.net + Due.fee

AccruedBaseNoFee ==                                    \* mutant: the fee is minted to nobody
  [base EXCEPT !["vault"] = @ + Due.net]

AccruedBase ==
  [base EXCEPT !["vault"] = @ + Due.net, !["treasury"] = @ + Due.fee]

AccrualFitsUnchecked ==                                \* mutant: unchecked sums
  DtModel \in U64 /\ Due.yield \in U64

AccrualFits ==
  /\ DtModel \in U64
  /\ Due.yield \in U64
  /\ (\A t \in Tranches : balances.supply[t] > 0) => SeniorDue(balances, pool.params, DtModel) \in U64
  /\ Accrued \in PoolBalances
  /\ AccruedMint \in U64
  /\ modelTime + DtModel \in U64

AccruePoolBackwards ==                                 \* mutant: the mark follows the clock back
  /\ pool # NoPool
  /\ AccrualFits
  /\ modelTime' = modelTime + DtModel
  /\ lastAccrued' = clock

AccruePool ==
  /\ pool # NoPool
  /\ AccrualFits
  /\ modelTime' = modelTime + DtModel
  /\ lastAccrued' = Timestamp

Accrue ==
  /\ AccruePool
  /\ balances' = Accrued
  /\ base' = AccruedBase
  /\ base' \in TokenAccounts
  /\ minted' = AccruedMint
  /\ UNCHANGED <<clock, config, pool, lossCount, events, held>>

DepositAllowed(tranche, next) ==
  tranche = "Senior" => SubordinationOk(next, pool.params.min_junior_bps)

DepositedShares(tranche, amount) ==
  SharesForDeposit(amount, Accrued.nav[tranche], Accrued.supply[tranche])

DepositedBooks(tranche, amount) ==
  AfterDeposit(Accrued, tranche, amount, DepositedShares(tranche, amount))

DepositedBase(owner, amount) ==
  [AccruedBase EXCEPT ![owner] = @ - amount, !["vault"] = @ + amount]

DepositedHoldings(owner, tranche, amount) ==
  [held EXCEPT ![tranche][owner] = @ + DepositedShares(tranche, amount)]

(* Every check a deposit meets, in the handler, in the accrual and in the  *)
(* token program.  It speaks of the state alone: the rest of Deposit gives *)
(* each variable one new value, so a deposit can be made exactly where it  *)
(* is accepted.  The other ...Accepts below are made the same way.         *)
DepositAccepts(owner, tranche, amount) ==
  /\ amount > 0
  /\ pool # NoPool
  /\ AccrualFits
  /\ DepositedShares(tranche, amount) > 0
  /\ DepositedBooks(tranche, amount) \in PoolBalances
  /\ DepositAllowed(tranche, DepositedBooks(tranche, amount))
  /\ DepositedHoldings(owner, tranche, amount) \in ShareAccounts
  /\ DepositedBase(owner, amount) \in TokenAccounts

Deposit(owner, tranche, amount) ==
  /\ DepositAccepts(owner, tranche, amount)
  /\ AccruePool
  /\ balances' = DepositedBooks(tranche, amount)
  /\ held' = DepositedHoldings(owner, tranche, amount)
  /\ base' = DepositedBase(owner, amount)
  /\ minted' = AccruedMint
  /\ UNCHANGED <<clock, config, pool, lossCount, events>>

RedeemAllowedStale(tranche, next) ==                   \* mutant: the floor without the yield due
  tranche = "Junior" =>
    SubordinationOk([next EXCEPT !.nav = [t \in Tranches |->
                                            @[t] - (Accrued.nav[t] - balances.nav[t])]],
                    pool.params.min_junior_bps)

RedeemAllowedOnFloor(tranche, next) ==                 \* mutant: the floor for senior, too
  SubordinationOk(next, pool.params.min_junior_bps)

RedeemAllowed(tranche, next) ==
  tranche = "Junior" => SubordinationOk(next, pool.params.min_junior_bps)

Redeemed(tranche, shares) ==
  AmountForRedeem(shares, Accrued.nav[tranche], Accrued.supply[tranche])

RedeemedBase(owner, amount) ==
  [AccruedBase EXCEPT !["vault"] = @ - amount, ![owner] = @ + amount]

RedeemedShares(owner, tranche, shares) == [held EXCEPT ![tranche][owner] = @ - shares]

RedeemAccepts(owner, tranche, shares) ==
  /\ shares > 0
  /\ pool # NoPool
  /\ AccrualFits
  /\ shares <= Accrued.supply[tranche]
  /\ LET amount == Redeemed(tranche, shares)
         next == AfterRedeem(Accrued, tranche, shares, amount)
     IN  /\ amount > 0
         /\ amount <= AccruedBase["vault"]
         /\ next \in PoolBalances
         /\ RedeemAllowed(tranche, next)
         /\ RedeemedBase(owner, amount) \in TokenAccounts
  /\ RedeemedShares(owner, tranche, shares) \in ShareAccounts

Redeem(owner, tranche, shares) ==
  /\ RedeemAccepts(owner, tranche, shares)
  /\ AccruePool
  /\ balances' = AfterRedeem(Accrued, tranche, shares, Redeemed(tranche, shares))
  /\ base' = RedeemedBase(owner, Redeemed(tranche, shares))
  /\ held' = RedeemedShares(owner, tranche, shares)
  /\ minted' = AccruedMint
  /\ UNCHANGED <<clock, config, pool, lossCount, events>>

LossRecordOnChainTime(amount, loss_bps, split) ==      \* mutant: chain time for model time
  [ts |-> Timestamp, model_time |-> Timestamp, loss_bps |-> loss_bps, amount |-> amount,
   junior_loss |-> split["Junior"], senior_loss |-> split["Senior"],
   assets_before |-> Accrued.assets]

LossRecord(amount, loss_bps, split) ==
  [ts |-> Timestamp, model_time |-> modelTime + DtModel, loss_bps |-> loss_bps,
   amount |-> amount, junior_loss |-> split["Junior"], senior_loss |-> split["Senior"],
   assets_before |-> Accrued.assets]

LossNow(loss_bps) == LossAmount(Accrued.assets, loss_bps)

LossSplit(loss_bps) == ApplyLoss(LossNow(loss_bps), Accrued)

BurnedBase(loss_bps) == [AccruedBase EXCEPT !["vault"] = @ - LossNow(loss_bps)]

(* The event account is created at the address of index loss_count, which  *)
(* must not exist.  The loss is burned from the vault.                     *)
LossAccepts(signer, loss_bps) ==
  /\ pool # NoPool
  /\ AccrualFits
  /\ signer = pool.operator
  /\ lossCount \notin DOMAIN events
  /\ loss_bps <= BPS
  /\ LossNow(loss_bps) > 0
  /\ AfterLoss(Accrued, LossSplit(loss_bps)) \in PoolBalances
  /\ BurnedBase(loss_bps) \in TokenAccounts
  /\ AccruedMint - LossNow(loss_bps) \in U64

RecordLoss(signer, loss_bps) ==
  /\ LossAccepts(signer, loss_bps)
  /\ AccruePool
  /\ balances' = AfterLoss(Accrued, LossSplit(loss_bps))
  /\ base' = BurnedBase(loss_bps)
  /\ minted' = AccruedMint - LossNow(loss_bps)
  /\ events' = [i \in DOMAIN events \cup {lossCount} |->
                  IF i = lossCount
                  THEN LossRecord(LossNow(loss_bps), loss_bps, LossSplit(loss_bps))
                  ELSE events[i]]
  /\ lossCount' = lossCount + 1
  /\ UNCHANGED <<clock, config, pool, held>>

PoolNext ==
  \/ ClockMoves
  \/ \E u \in Users, cap \in FaucetCaps : InitConfig(u, cap)
  \/ \E u \in Users, amount \in Amounts : Faucet(u, amount)
  \/ \E u \in Users, p \in PoolParams : CreatePool(u, p)
  \/ \E amount \in Amounts : CollectFees(amount)
  \/ Accrue
  \/ \E u \in Users, t \in Tranches, amount \in Amounts : Deposit(u, t, amount)
  \/ \E u \in Users, t \in Tranches, shares \in Amounts : Redeem(u, t, shares)
  \/ lossCount < MaxLosses /\ \E u \in Users, bps \in LossRates : RecordLoss(u, bps)

PoolSpec == PoolInit /\ [][PoolNext]_poolVars

-----------------------------------------------------------------------------
(* Properties.                                                             *)

(* Shares outstanding over nothing.                                        *)
WipedOut(assets, supply) == supply > 0 /\ assets = 0

(* Every variable has its type; the loss records are exactly those of the  *)
(* indexes below loss_count, so no index is ever skipped or written twice. *)
PoolTypeOK ==
  /\ clock \in 0 .. MaxClock
  /\ config \in Config \cup {NoConfig}
  /\ pool \in Pool \cup {NoPool}
  /\ balances \in PoolBalances
  /\ modelTime \in U64
  /\ lastAccrued \in 0 .. MaxClock
  /\ lossCount \in 0 .. MaxLosses
  /\ events \in [0 .. lossCount - 1 -> LossEvent]
  /\ base \in TokenAccounts
  /\ minted \in U64
  /\ held \in ShareAccounts

(* The books of the pool and the token accounts agree after every          *)
(* instruction: assets are the two tranches' assets, and the vault holds   *)
(* exactly them (the invariant redeem.rs and record_loss.rs rely on).      *)
Solvent ==
  /\ balances.assets = balances.nav["Senior"] + balances.nav["Junior"]
  /\ base["vault"] = balances.assets

(* No base token is lost or made outside faucet, yield and burned losses:  *)
(* the accounts add up to the supply of the mint.                          *)
Conserved == minted = Total(base, Accounts)

(* A tranche without shares has no assets, whatever roundings, losses and  *)
(* accruals came before: nothing is left over that the next depositor,     *)
(* whose shares are priced 1:1, would get for free.                        *)
EmptyTrancheHasNothing ==
  \A t \in Tranches : balances.supply[t] = 0 => balances.nav[t] = 0

(* The model clock is the chain time since creation times the scale, up to *)
(* the last accrual, in whatever order cranks, user instructions and jumps *)
(* of the chain clock came: no interval is counted twice or lost.          *)
ModelClockExact ==
  pool # NoPool =>
    modelTime = pool.params.time_scale * (lastAccrued - pool.created_at)

(* Loss records are ordered in model time as in index, and none is later   *)
(* than the pool's clock: settle_protection takes the index of an event    *)
(* for its time (settle_protection.rs, the comment on event indexes).      *)
EventsInOrder ==
  \A i \in DOMAIN events :
    /\ events[i].model_time <= modelTime
    /\ \A j \in DOMAIN events : i < j => events[i].model_time <= events[j].model_time

(* A deposit redeemed at once never brings back more than was paid, in any *)
(* state the pool can reach, for all its roundings.                        *)
RoundTripNeverGains ==
  \A t \in Tranches, amount \in Amounts :
    LET nav == balances.nav[t]
        supply == balances.supply[t]
        shares == SharesForDeposit(amount, nav, supply)
    IN  AmountForRedeem(shares, nav + amount, supply + shares) <= amount

(* Nothing in the pool can hold a senior holder back: if the accrual fits  *)
(* and the shares are worth a unit, redeeming them is possible: all of a   *)
(* holder's, or some, whoever stays behind with the rest.                  *)
SeniorCanLeave ==
  \A u \in Users : \A shares \in 1 .. held["Senior"][u] :
    /\ pool # NoPool
    /\ AccrualFits
    /\ shares * Accrued.nav["Senior"] >= Accrued.supply["Senior"]
    => RedeemAccepts(u, "Senior", shares)

(* Only a loss makes a share of a tranche worth less: no deposit, no       *)
(* redemption and no accrual dilutes the others' shares.                   *)
PriceFallsOnlyByLoss ==
  [][lossCount' = lossCount =>
       \A t \in Tranches :
         balances'.nav[t] * balances.supply[t] >= balances.nav[t] * balances'.supply[t]]_poolVars

(* A loss reaches senior only when junior has nothing left, and the record *)
(* says what happened to the balances, after the accrual in the same step. *)
JuniorFirst ==
  [][lossCount' # lossCount =>
       LET e == events'[lossCount]
       IN  /\ e.senior_loss > 0 => balances'.nav["Junior"] = 0
           /\ e.junior_loss + e.senior_loss = e.amount
           /\ balances'.assets = e.assets_before - e.amount
           /\ balances'.nav["Senior"] >= balances.nav["Senior"] - e.senior_loss]_poolVars

(* Depositors do not thin out junior below its floor: what they leave of   *)
(* the pool either meets the floor on the balances of that moment, with    *)
(* the yield due up to it, or has no thinner a junior share than this      *)
(* yield made of it.  A pool that yield or a loss took below the floor     *)
(* comes no further down but by yield and losses.  (deposit.rs, redeem.rs) *)
FloorHeld ==
  [][/\ pool # NoPool /\ balances' # balances
     /\ lossCount' = lossCount
     => \/ SubordinationOk(balances', pool.params.min_junior_bps)
        \/ balances'.nav["Junior"] * (Accrued.nav["Senior"] + Accrued.nav["Junior"])
             >= Accrued.nav["Junior"] * (balances'.nav["Senior"] + balances'.nav["Junior"])]_poolVars

(* A pool whose two tranches were both wiped out stays as it is forever:   *)
(* no yield, no deposit, no redemption, no further loss.                   *)
WipedPoolIsDead ==
  [][(\A t \in Tranches : WipedOut(balances.nav[t], balances.supply[t]))
       => balances' = balances /\ lossCount' = lossCount]_poolVars

=============================================================================
