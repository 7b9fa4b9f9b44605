# Formal verification of Wash

Wash is a Solana program with a web client. Depositors put a test stablecoin (WUSD) into a
pool with two tranches, *senior* and *junior*; yield accrues lazily in *model time* (chain
time multiplied by the pool's scale), losses recorded by the pool's operator hit junior
first, and a protection market lets sellers put up collateral from which buyers are paid when
a loss reaches their trigger within their term.

This directory holds TLA+ modules of the program, of the client that reads it and writes to
it, of the pages in front of it and of the tool that sets it up, TLC configurations that check them
on small instances, and theorems that TLAPS proves for every instance. Paths below are relative to the repository.

## The system

### Components, state and operations

| Component | State | Operations | Modelled |
|---|---|---|---|
| Arithmetic, `programs/washapp/src/math.rs` | none | yield, split of yield and loss, shares, premium, payout, floor; all quotients round down, all results are `u64` or an error | `WashMath` |
| Configuration and faucet, `init_config.rs`, `faucet.rs` | `Config` (authority, cap), base mint, treasury | `init_config`, `faucet` | `WashPool` |
| Tranche pool, `create_pool.rs`, `accrue.rs`, `deposit.rs`, `redeem.rs`, `record_loss.rs` | `Pool` (parameters, assets, two tranches, `model_time`, `last_accrued_ts`, `loss_count`), vault, two tranche mints, one `LossEvent` per loss | `create_pool`, `accrue`, `deposit`, `redeem`, `record_loss` | `WashPool` |
| Protection market, `init_protection.rs`, `provide_…`, `withdraw_…`, `buy_…`, `settle_…`, `expire_protection.rs` | `ProtectionPool` (collateral, reserve, shares, counter), pvault, one `SellerPosition` per seller, one `ProtectionContract` per buyer and nonce | the six instructions | `WashProtection` |
| Transaction sender, `apps/web/src/tx/send.ts` and the buttons that use it | one pending attempt per button: blockhash, signature | `sendInstructions`, `waitForConfirmation`, `outcomeOf` | `TxSender` |
| TypeScript mirror of the arithmetic, `packages/shared/src/waterfall.ts` | none | the functions of `math.rs` on `bigint`, and those of `settle_protection` | `WashMirror` |
| Account decoders, readers, views, `packages/chain` | none (snapshots) | `readPool`, `readWallet`, `readContracts`, `accruedView` | `WashDecoders`, `WashReaders`, `WashViews` |
| Addresses, generated instructions, builders, `packages/chain` | none | derive addresses, assemble, complete and parse the thirteen instructions | `WashAddresses`, `WashWire`, `WashBuilders` |
| Screens, `apps/web/src/screens`, `queries`, `model-clock.ts` | polled snapshots, forms | previews, quotes, contract rows, forecasts, what a button sends | `WashScreens`, `WashDesk`, `WashClient` |
| Demo tools, `tools/demo` | none | idempotent initialisation, checks of a scripted run | `WashClient`, `WashMeasure` |

Rendering, event and error decoders, build scripts and the landing page keep no state the
system's correctness depends on, and stay out.

### How they interact

- A transaction is one instruction of the program and is atomic: any failed check undoes all
  of it. What interleaves is transactions of different signers and the clock of the chain. A
  check is therefore a guard of the action, wherever in the handler it stands.
- `accrue_pool` is called first by `accrue`, `deposit`, `redeem`, `record_loss`,
  `buy_protection` and `expire_protection`; the rest of the handler works on what it
  returns. `provide_`, `withdraw_` and `settle_protection` do not accrue.
- The pool's books and the SPL token balances are different accounts, written by separate
  calls of the same handler. The program relies on `vault == assets` and
  `pvault == collateral`.
- `settle_protection` reads a `LossEvent` that `record_loss` wrote earlier, and takes its
  index for its time. Buying copies the trigger and `loss_count` into the contract.
- A claim is safe only if sellers' withdrawals, other purchases and other settlements leave
  the reserve behind it: four handlers change `reserved`, five change `collateral`.
- The client learns the fate of a transaction by polling: a signature status, and in a
  second call the block height. The chain moves between the two.
- A page reads the chain by calls to an RPC node, each from one moment. A pool with many
  losses, and a wallet with contracts, take several. Pool, market, wallet and contracts are
  separate queries with polls of their own.
- An instruction names accounts and arguments by position. Builder, generated client and
  program each have a list of their own; nothing else ties an address to a role.
- `init.ts` reads, sends, and reads again in three stages, and is run again when it failed.

### What is hard here

The hazards are listed at their source lines in `PROJECT.json`. In short: roundings that
accumulate or leak value; empty and wiped-out tranches; the junior floor after an accrual in
the same step; the order of accrual and waterfall; the model clock under cranks and a chain
clock that steps back; reserve against withdrawals; a claim settled late, twice, or after
expiry; `u64` limits; a confirmation racing the end of a blockhash; a page that puts together
reads of different moments; a nonce or an index taken from an old read; a transaction that is
repeated because its confirmation was lost; a set-up that crashes halfway; two languages that
must round alike.

### What makes each component correct

- *Pool*: the vault holds what the books say; no token appears or vanishes outside faucet,
  yield and recorded losses; only a loss lowers a share's price; no round trip gains; junior
  loses first; depositors cannot push junior below the floor, counted on the balances with the
  yield of the same step, and the floor never holds senior back; the
  model clock counts each interval once; an empty tranche holds nothing.
- *Market*: pvault holds the collateral; the reserve is the sum of the active notionals and is
  covered; a valid claim can always be paid; a contract closes once, for a record of its
  term, for the right amount; only a payout lowers a seller's share price; nobody's collateral
  stays behind.
- *Client*: what is sent means to the program what was asked for; what a page offers on a fresh
  read is taken, unless the token account it pays to or from is missing and nothing opens it; a
  request that landed cannot land again; what is shown of a pool is one moment.
- *Screens*: a preview on a fresh read is exact to the unit; a quote or a claim made of stale
  reads keeps what it promises until somebody else changes just what it rests on. A page draws
  the pool's clock to the time of its browser, so an end of a term may be shown too late, and
  reached too early, by what the browser is ahead of the chain, and by no more.
- *Set-up*: repeated often enough it ends with a pool and its market, whatever crashed.
- *Sender*: "confirmed" is true for good, "expired" cannot arrive later, no wait is endless.

## Modules

| Module | Role |
|---|---|
| `WashMath` | `math.rs` as operators on naturals. The caller's guard says the result is a `u64` |
| `Totals` | the sum of a function over a finite set, as a cardinality |
| `WashPool` | configuration, faucet, tranche pool; `PoolSpec` |
| `WashProtection` | extends `WashPool` with the market; `Spec` is the whole program |
| `DocumentedClaims` | statements of the documents and comments that the program does not keep |
| `TxSender` | the client's sender over an unreliable wallet and chain; `TxSpec` with fairness |
| `WashAddresses` | `pda.ts` and the generated address finders; an address is its seeds |
| `WashWire` | `generated/instructions` and `generated/programs`: accounts, arguments, assembly, parsers |
| `WashBuilders` | `builders/`: from what a page asks for to a transaction |
| `WashDecoders` | `generated/accounts`: six layouts and decoders |
| `WashAccounts` | the program from outside: its `Accounts` structs, its handlers' parameters, which accounts a handler opens or changes |
| `WashMirror` | `waterfall.ts`, refusals included |
| `WashViews`, `WashReaders` | `view.ts`, `read.ts` |
| `WashLedger` | the abstract specification: pools, markets, losses and contracts without addresses, amounts or transactions; `WashProtection` and `WashClient` implement it |
| `WashClient` | a tab, a reading page, other sessions and the set-up tool over the accounts; `ClientSpec` with fairness |
| `WashScreens`, `WashMeasure` | `preview.ts`, `loss-form.ts`, `cover.ts`, `forecast.ts`, `model-clock.ts`; `measure.ts` |
| `WashDesk` | the whole program of `WashProtection` with pages that poll it; `DeskSpec` |
| `MCWashPool`, `MCWashProtection`, `MCDocumentedClaims`, `MCTxSender`, `MCWashClient`, `MCWashDesk` | instances for TLC |
| `WashPoolProofs` | lemmas about the arithmetic and about sums; the pool's invariants and theorems |
| `WashProtectionProofs` | the same for the whole program, which implements `WashLedger` |
| `TxSenderProofs` | the sender's invariants |
| `WashMirrorProofs` | the mirror gives what `math.rs` gives |
| `WashDeskProofs` | what the pages show is what the program does |
| `WashRequestProofs` | what each request turns into: builder, generated client and wire, instruction by instruction |
| `WashClientProofs` | the client's invariants, and that it implements `WashLedger` |
| `WashPageProofs` | the decoders and readers, and what the pages show |

### State and actions against the code

`balances` is `Pool.assets`, `senior_assets`, `junior_assets` and the two mints' supplies, as
`PoolBalances` in `math.rs` groups them. `base` is every base-token account (wallets,
`vault`, `treasury`, `pvault`), `minted` the supply of the base mint, `held` the tranche
shares by holder. `events` and `contracts` are functions whose domain says which accounts
exist. Each instruction is the action of its name; `AccruePool` with `Due`, `Accrued`,
`AccruedBase` and `AccruedMint` is `accrue_pool`, and every action that calls it goes on from
`Accrued`. Checked arithmetic is the guard that the new value lies in its type
(`balances' \in PoolBalances`, `base' \in TokenAccounts`, ...): the transaction fails otherwise.
The SPL Token program, the clock and the cluster are modelled from their use and marked
external.

`TxSender` keeps what one button does in `pc`: `signing` (the wallet is open), `status` and
`height` (the two questions of a poll), and how the last attempt ended. Any awaited call may
reject, also the wallet's after it has sent. The chain has a newest and a confirmed height;
blocks in between may be rolled back.

`WashAccounts` is the program a second time, as a client meets it: `accts` maps an address to
its account, and an instruction is what is on the wire. `WashPool` and `WashProtection` know
amounts and no addresses, `WashAccounts` knows addresses and no amounts (a handler may refuse
for the sake of money, which is `Drop`). `XOk` is the `Accounts` struct of instruction X with
what the handler checks of accounts, `XDone` which accounts it opens and which fields it writes
that an address, an index or a nonce depends on. The lists of accounts are written down three
times, from three sources: the Rust structs (`Accounts`), the generated client (`WashWire`), the
builders (`WashBuilders`); `OneMeaning` compares them. Likewise the account layouts
(`ConfigFields`... from `state/`, `ConfigLayout`... from the generated decoders): a decoder reads
cells by position and size, and `PageIsOneMoment` compares what comes out with what went in.

`WashClient` has a tab with at most one transaction that was built and has not arrived, a page
with at most one read under way, and the tool with its stage. A transaction may arrive at any
later time, arrive again, or be lost. A read goes on call by call while other sessions send.
`cast` fixes for a behaviour who does what in which pool.

`WashDesk` extends `WashProtection`: `seen` is what the queries brought home, at most one poll
each, and `PoolNow`, `MarketNow`, `WalletNow` are what the readers would bring home now. Since a
poll may happen at any moment and what was polled is never replaced, every combination of three
moments is reached that a page of any age could hold. What such a page takes for now is any
moment of `UnixNow`, the chain's clock and a skew out of `Skews` (`useUnixNow` reads `Date.now()`);
`Early` says how much model time a browser that is ahead draws too far.

### Abstractions

- Amounts, rates and times are small integers, the denominators `BPS` and `YEAR` are
  constants. Every identity proved holds for their real values.
- One pool. Pools share only the base mint and the treasury, to which each adds.
- Shares are not transferred between wallets outside the program and nobody burns tokens
  directly; such calls are SPL Token's and would only lower a supply or move a balance.
- Of an error only the refusal is kept; events and logs change no state.
- Accounts are never closed by the program, so there is no action that removes one; a wallet may
  close its own token account (`CloseAta`).
- In `WashClient` amounts and rates are names, each for the argument it is meant to become; a
  swap of two is what `OneMeaning` finds.
- In `WashDesk` the query of the pool's contracts is taken from the moment of the wallet.
- `WashDesk` has two clocks, the chain's and the browser's. What a page shows from old reads
  (`QuoteHolds`, `ClaimShownIsPayable`) is stated for any skew between them. `PreviewExact`,
  `DeskExact` and `ForecastIsShown` compare computations and are stated at the chain's clock: at
  another moment a page accrues to another moment, exactly, which is not the one the instruction
  will run at.
- In the modules with amounts (`WashPool` to `WashDesk`) every wallet has its base-token account; one
  without a balance and one that is closed are told apart in `WashAccounts` and `WashClient`. What
  `ClaimsPayable` and `SeniorCanLeave` promise is promised to somebody with such an account.
- `WashClient` knows no rates: a market may ask no premium, so its purchases are offered to
  wallets without a token account, too.
- Public keys, seeds and discriminators are structured values; that hashes do not collide is
  assumed.
- Typed text, the parsing of it and the wording of a refusal are left out: a form holds one of
  the amounts `Tried`, a refusal is its reason.

## What is checked

| Run | Question | Bounds |
|---|---|---|
| `pool_books` | Do the books agree in every state, with yield, fee, losses of a quarter up to everything, refused parameters, a clock that jumps both ways, and a `u64` that is reached? Can senior always leave? | one wallet, no floor, one of a quarter and of a half, a senior rate at which yield thins junior out, chain times 0..2 at scale 2, `u64` up to 5, `BPS` 4, one loss |
| `cover_books` | Is the reserve right and every claim payable with two contracts at once and two losses? | one wallet in every role, two nonces, `u64` up to 5, two losses, terms 0..3 with `MaxTerm` 2 |
| `cover_claims` | Is a contract paid for the right record, over a pool that earns, and is every instruction one step of `WashLedger`? | one wallet, one nonce, triggers below and above a loss, two losses, terms ending on, before and after a loss |
| `tx_sender` | Does the sender tell the truth, and does it end? | one button (buttons share nothing but the chain), heights 0..6, validity 2 |
| `client` | Does what is sent mean what was asked for, does it land once, is what is read one moment, does the tool converge, and does all of it implement `WashLedger`? | two pools, three users, five casts, two losses and two contracts per pool, two crashes in a row, one record per call (`EagerLossEvents` and `Batch` 1), so that two losses already take two calls |
| `desk` | Are previews exact on a fresh read, do quotes and claims made of stale reads hold, do the demo tool's checks agree with the program? | a founder who sells cover and a saver who buys it, 140 units in two tranches, one contract from the start, three more transactions, clock 0..1 at scale 2, a browser a second behind, in time, one or two ahead, two losses, amounts 10, 25, 60 |

Why they are enough to be of interest: with a denominator of 2 or 4 every quotient rounds in
some reachable state; a `u64` of 5 or 6 makes every overflow guard fire; two losses let
records before, inside and after a term coexist; amounts 0 and arguments over the limit are
offered so that the refusals are reached. In `client` each cast puts together the buttons that
meet at the same accounts (deposits and a closed token account; collateral and purchases; two
buyers, losses, claims, expiries and a closed token account; two pools with a page that reads; two buyers with a page);
within a cast every order is explored, with a delayed and a repeated transaction at any point,
but tab, page and tool take turns: two of them at once add nothing that other sessions
(`Elsewhere`, `SetUpElsewhere`) do not already do in between. In `desk` the amounts are large
enough that yields, premiums, payouts and shares round, that a loss eats into senior, and that
the floor, the purse and the free collateral each refuse something. `PreviewExact` and
`DeskExact` are about fresh reads only, so they are evaluated in the states where nothing has
been polled; every state of the chain the bounds allow is one of those. `MaxSent` counts from a
market that is set up, with a contract bought: the transactions before are `cover_books`'.
Every property has a mutant in `PROJECT.json`, a
plausible bug in one mapped definition, that TLC finds under the same bounds.

`tx_sender` is the only run without deadlock checking: its chain ends at `MaxHeight`, and a
button nobody clicks is at rest. The other state machines always have an enabled action (the
clock).

### Fairness

`TxSpec` and `ClientSpec` have liveness. In `TxSpec` polls are weakly fair: the loop of `waitForConfirmation` asks
again as long as its calls answer. Blocks are weakly fair and confirmation is strongly fair:
validators may roll back blocks again and again, but a cluster that is up confirms some. The
user and the wallet get no fairness, and a wallet dialogue may stay open forever. In `ClientSpec` a run of the tool that has begun goes on
to its next step, whatever that is (it may be a crash), and a pool to be set up is tried again
after every run that failed: the tool is a script with a person before it who reads "Idempotent"
at its head, and `MaxCrashes` bounds the crashes in a row, not altogether. A tab does not wait for ever, which
is what `WaitEnds` shows of the sender, and a page ends its read: both are weakly fair, so that
the tool gets its turn. Sends, losses and other sessions get no fairness. The program
itself has no scheduler, and nothing is claimed about when anyone calls it; instead
`SeniorCanLeave`, `SellerCanLeave` and `ClaimsPayable` say which calls are always possible.

### Where documents and code differ

| Run | The text | The code |
|---|---|---|
| `claim_senior_cap` | `README.md:22`: senior gets at most its rate | without junior shares senior gets all of the net yield (`math.rs:85`) |
| `claim_wiped` | `preview.ts:122`: a wiped tranche is closed until a new pool | junior, wiped out under a living senior, takes the next residue and opens again |
| `claim_expiry` | `settle_protection.rs:11`: a claim can be settled even after expiry | the operator (or the buyer) can expire the contract first, and the claim is gone |
| `claim_expired` | `send.ts:91`, `errors.ts:23`: expired means not sent or not taken, try again | confirmed between the two calls of a poll, the transaction was executed |
| `claim_failed` | `send.ts:64`: `processed` may be rolled back and does not count | an error counts at `processed`; the transaction may yet be executed on the other fork |
| `claim_forecast` | `forecast.ts:1`: what the wallet would hold if every covered claim were settled | a seller's sheet joins the market of one poll with the contracts of another; after a purchase or a closing in between `afterSettle` throws `Overflow` while the page is drawn (`PositionScreen.tsx:39`, no error boundary). After an own transaction `SendButton.tsx:62` refreshes pool, market and wallet, and not the contracts |

Five observations have no run of their own. `tests/accrue.rs:70` says that several cranks give
no less than one; each accrual rounds down and keeps no remainder, so with amounts whose yield
rounds to nothing they give less. `forecast.ts:70` and `cover.ts:247` say that the buyer picks
the loss to claim on; `settle_protection` needs no signature of the buyer, so anybody can settle
on a smaller one (what is shown stays payable only until then, which is how `ClaimShownIsPayable`
states it). And the row of a finished contract says "TERM OVER · no covered loss" from the
losses as polled: a click on Close that is overtaken by a record of the term forfeits it.

The other two are about what a page takes for granted. `settle_protection` pays into the buyer's
token account, and the buyer may have closed it when it was empty. `readWallet` reads a missing
account as a balance of 0, the row offers Settle all the same (`ProtectionScreen.tsx:236`), and
`builders/settle.ts:16`, unlike `buildRedeem` and `buildWithdraw`, does not open the account; the
program refuses until somebody does. A purchase is the same where the premium rate is 0, which
`init_protection` accepts: nothing is due, so nothing is missing (`builders/buy.ts:19`). `FreshIsTaken`
states both as the exact exceptions to "what is offered is taken". And `cover.ts:267` says of the
projected clock that "the chain will be at least there": it will, unless the browser's clock is
ahead (`model-clock.ts:49`). A second ahead at the scale of 43 200 is half a model day, by which a
quote's end is shown too late and TERM OVER with its Close too early; `expire_protection` refuses
such a Close with `NotExpired`, and nothing is lost. `QuoteHolds` and `ClaimShownIsPayable` bound
it by `Early`.

## What is proved

`PROJECT.json` lists the theorems. They hold for every value of the constants the modules'
assumptions allow: `BPS`, `YEAR` and `MaxU64` are any positive numbers, arguments are any
sets of `u64`s, the parameters any naturals that `create_pool` and `init_protection` are
asked to accept, the wallets any finite set of accounts that are not the program's. Nothing
is assumed about clocks, rates or the order of transactions.

### The argument

*Arithmetic* (first part of `WashPoolProofs`). What every quotient needs is one fact, that `q = n \div d`
means `q * d <= n < (q + 1) * d`; from it: a part of an amount is at most the amount, an
accrual's parts add up to the net yield, a loss's parts to the loss, neither deposits nor
redemptions lower the price of a share, and a round trip never gains.

*Pool* (`WashPoolProofs`). `PoolInv` is inductive. The invariants `PoolTypeOK`, `Solvent`,
`EmptyTrancheHasNothing`, `ModelClockExact` and `EventsInOrder` (of which the checked `IndexIsTime`
is what the market needs) are not, by themselves; missing are

- that the parameters were accepted (with a fee above 100 % the net yield would be negative),
- and that before the pool exists its books and records are empty (`create_pool` starts with
  nothing in the vault and with no record at index 0).

There is one lemma per instruction, all resting on what `accrue_pool` does to books, vault and
clock. `PriceFallsOnlyByLoss`, `JuniorFirst`, `FloorHeld` and `WipedPoolIsDead` follow from
`PoolInv` step by step. `FloorHeld` speaks of the books after the accrual of the same step: senior
money in and junior money out are checked there, and junior money in and senior money out only
raise junior's part of them, whether the floor holds or not.

*Market* (`WashProtectionProofs`). `CoverInv` contains `PoolInv`, so the pool's theorems hold
again with the market running (`PoolSoundUnderMarket`). It adds that the market's parameters
were accepted (a fee above the premium would take collateral from the sellers), that there is
no market before its pool and no contract before the market, that a market without shares has
no collateral, and `ContractOK` of each contract: it did not start in the future, its first
covered index was a number of records then on file, it is open and unpaid or closed for a
reason. `HistoryGrows` is what every step owes the contracts: the pool stays, its clock does
not go back, records are only added, at the end and at the time of the step.

*Sums* (at the end of `WashPoolProofs` and of `WashProtectionProofs`). `Total` counts units instead of adding up
recursively, so that what a sum does when one or two values change follows from the
cardinality of unions, with no induction. That the base tokens add up to the mint, the open
notionals to the reserve and the positions to the shares is then proved instruction by
instruction, for any finite set of wallets. `SumsInv` adds that the contracts are finitely many.

*Nobody is locked in* (the same). `SeniorCanLeave`, `SellerCanLeave` and `ClaimsPayable`
say that a call is accepted. Each handler with such a promise is written as the conjunction of
its checks (`RedeemAccepts`, `WithdrawAccepts`, `SettleAccepts`: every condition, every checked
subtraction and every CPI's balance check) and of assignments that can always be made, so that
the promise is about a state and needs no `ENABLED`. Why the checks cannot fail is in the sums:
a holder's shares are a part of the supply (`SharesAreHeld`: the wallets' shares add up to the
mint's supply) and the value of the shares is a part of the tranche's assets, which the vault
holds; what is paid out fits the account it goes to, because no two accounts hold more than
the mint; one notional is a part of the reserve (`ReserveIsWhatIsOpen`), the reserve is covered
(`CoverIsSolvent`), and with no contract open the reserve is nothing, so that all collateral is
free.

*Sender* (`TxSenderProofs`). `TxInv` adds to the checked invariants that the blockhash of an
expired transaction is out of date at the *confirmed* height, which does not fall. This is why
"expired" cannot arrive later although the newest height falls in a rollback.

*Client* (`WashRequestProofs`, `WashClientProofs`). Two layers. The first is about one request:
for each of the thirteen instructions, the builder's transaction through the generated client is
alone or behind the opening of a token account (`Alone`, `Opens`), its accounts stand in the order
of the program's struct and whoever must sign does (`SentAs`, `Signed`), and the context the
handler sees is the roles and arguments asked for (`Meaning`). The second is about the accounts:
what such a transaction does to them (`Carried`: they stay linked, grow, keep its trace, and one
thing is done to them; `RequestCarried`, by a lemma per instruction). `ClientInv` is
inductive; the checked invariants are not by themselves, and missing are

- that accounts are *linked* (`AccountsOK`): each lies at the address its own fields give, what it
  points at is there (a contract's market, a market's pool, a pool's mints), a contract's number
  is below its market's counter and a loss's index below its pool's, so that what is numbered by a
  counter just read is free;
- that what waits in the tab was built from accounts that were there (`Known`), and that every
  request that landed left a trace (`Spent`): the account it opened, the status it changed, the
  counter it raised. That accounts only grow (`Grows`: none is closed but those of the token
  library, counters do not fall, a closed contract stays closed) keeps both true.

From it: `OneMeaning` (three lists of accounts agree, for any request), `FreshIsTaken` (what is
offered passes every check of accounts; of a claim and a purchase all but one, and that one holds
exactly where the buyer's token account is there), `LandedNeverAgain` and `ClientTypeOK`. All hold for any set of users, any pools, any cast of
buttons and any bounds. The addresses are the tuples of their seeds, so two different ones are
different: that the hash does not collide is the one thing assumed of them.

*Pages* (`WashPageProofs`). A page reads call by call while others go on. `PageInv` is inductive:
to `ClientInv` it adds that every loss a pool counts is on record (`Recorded`), and what a page
under way holds: the pool as it was at the first call, all the losses it counted then, and the
first so many of them read; for a wallet, contracts that are there, and none where no market was
found. It stays true because a loss on record never changes and a contract keeps its address, so
`PageIsOneMoment` and `WalletSeesItsContracts` hold for any `EAGER_LOSS_EVENTS` and `BATCH`, any
number of losses and contracts, and whatever is recorded, bought, settled or closed between two
calls. Below that are the bytes. `Reads` compares a decoder's layout with the fields the program
stores, so that each is read back by its name; `CellAt` says that an offset belongs to one cell,
`ContractBytes` that the filters at 0, 8 and 40 with the size of 132 are on the kind, the pool and
the buyer, so that nothing but a contract of this buyer in this pool is found; `InOrderIs` that
the sort gives the one order of numbers that differ. An offset is a sum over the cells before it
and needs an induction: `SetInduction` (a set that has 0 and with every number the next has them
all) is proved from the well-foundedness of the order, with a set in the place of the predicate,
and used for two sets.

*The mirror* (`WashMirrorProofs`). For each operation of `math.rs` one lemma: on balances as they
are in the pool the mirror throws where the program refuses, and where it does not throw the two
results are one. The hazard is that they do not do the same things in the same order: the mirror
converts intermediate results to `u64`, and throws, where the program has a wider type.

*The desk* (`WashDeskProofs`). `DeskInit` begins in the middle, with a founded program, so all that
is proved of the program has to be proved of that beginning: `ChainInv` is the invariants of the
program, that it is founded, and `Numbered` (a contract's number is below the market's counter).
The desk's transactions are transactions of the program and keep it (`DeskKeepsTheBooks`).

`PreviewExact` and `DeskExact` are then about one state. They say of each form that it accepts what
the instruction accepts (`DepositAccepts`, `RedeemAccepts`, `LossAccepts`, `ProvideAccepts`,
`WithdrawAccepts`, `BuyAccepts`: the conjunction of all its checks, as for "nobody is locked in"),
and draws the balances the instruction leaves. The form has fewer checks than the handler: that
its few stand for all needs the sums (a wallet that has the money can pay it; what is paid fits
the account it goes to). Where they do not, the property says so: the accrual, the supply of the
sellers' shares, the end of a term and the number of a contract can leave `u64` without the page
noticing. `ForecastFits`, that the position sheet settles every claim without running out, goes
over the list of contracts one by one: what is left in reserve is the sum of the notionals of
those that are still to come (`SettlementsFit`, an induction over the list by `SetInduction`).

A read grows old. `SeenInv` is inductive and says what remains of it: the market's rates, a
contract's terms and the losses on record stay; model time, the counters and `last_accrued_ts`
only rise; a contract seen is still there. An estimate of the model clock from an old read is
ahead of the chain by no more than the browser is (`ProjectedBefore`), which is why a row says that
a term is over before the program agrees by no more than that, and never where the browser is in
time or behind. `QuoteHolds` and `ClaimShownIsPayable` follow for reads of any three moments and any
set of skews.

`MeasureAgrees` is about a step: what the demo tool reads before and after it. Each check has its
lemma (`LossMeasured`, `PurchaseMeasured`, `ClaimMeasured`, `ExpiryMeasured`), and they rest on the
mirror and the invariants of the program. The seller's check compares one withdrawal with a sum
over all contracts there ever were, and that needs `AloneInv`: all shares are the founder's, and as
long as the founder has withdrawn none of them, the collateral is what was provided, with every
premium, less every fee and every payout. The withdrawal of all shares then pays all collateral
(`RedeemKeepsPrice`), and the check's equation is the invariant's.

### Model-checked only

- `WaitEnds`: liveness under fairness is out of the prover's reach.
- `ExpiredWasNotTaken`, `FailedIsFinal` and the other documented claims are refuted by
  examples. They are in the table of differences.
- `SetUpConverges` is liveness too.

### The refinement

`WashLedger` says in one page what the accounts stand for: who runs the program, which pools and
markets are open, how many losses each pool has recorded, and the set of all contracts ever sold
with their buyer, number, first covered loss and end. Its seven actions are what may happen to
that. It is implemented twice, by the two models of the program.

*By the program with its amounts.* `Ledger` in `WashProtection` maps the accounts to it, and
`KeepsLedger` says that every instruction, with the accrual, the waterfall and the token transfers
that happen in the same step, is one of the seven or nothing. It is checked in `cover_claims` and
proved in `WashProtectionProofs` (`ProgramKeepsLedger`) for any wallets, amounts and clock. The
proof needs `CoverInv` for three things: contract accounts are at addresses of a buyer and a
nonce, so that no two stand for the same contract; the loss records are those below the counter,
so that a settlement is by a loss the ledger has counted; and no loss is on record before
`create_pool`, which resets the counter. There is one lemma per instruction that is an action of
the ledger; `OneIsReplaced` and `ClosedStanding` say what rewriting one account does to the set.

*By the program with its addresses.* `Ledger` in `WashClient` maps the accounts to it (the set of
accounts of a kind, read by their fields), and `ImplementsLedger` is checked as a property of
`client`: every transaction, fresh, stale, repeated or sent by a tool that crashed, is one of the
seven or nothing. It is where a purchase at another's address, a contract closed twice, a claim on
a loss of before, or a pool founded twice would show. `ClientImplementsLedger` proves it for any
instance. Opening an account adds one member to one of the five sets and leaves the others
(`Founds`, `OpensPool`, `OpensMarket`, `Loses`, `Sells`), changing a counter moves none; that the
accounts are linked says that what is added was not there, and that the loss a claim names has
been counted.

## What is not modelled

Because it holds no state a property could be about: rendering, styling and drawings, the wording
of refusals, wallet discovery and routing, build and deployment scripts, the landing page.

Of what does:

- *Events and their decoders* (`events.rs`, `generated/events`): emitted, and read by nothing in
  the repository.
- *`scenario.ts`* of the demo tools: one behaviour of the program with pauses, key handling and a
  report; what it checks (`measure.ts`) is modelled. Its `waitUntil` polls with a time limit and
  gives up, which ends the script.
- *Errors by name*: a refused transaction changes nothing; which of its reasons is reported is
  wording, except where the mirror's refusals decide what a page shows (`WashMirror`).
- *The RPC node*: each call answers from one moment of the confirmed chain, later calls from later
  moments. A node behind another one, which could answer a second call from an earlier moment,
  is not modelled.
- *Several tabs of one person* are other sessions; the query cache they do not share.

What would come next: an abstract specification of a share vault (what goes in is shared out pro
rata, rounding stays behind) of which both tranches and the sellers' collateral are instances,
proved from the invariants above.
