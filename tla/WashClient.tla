----------------------------- MODULE WashClient -----------------------------
(***************************************************************************)
(* The program's accounts with everybody who works on them: a browser tab  *)
(* whose transaction was built from what it last read and arrives later,   *)
(* perhaps twice; other sessions in between; a page that reads a pool or a *)
(* wallet over several calls; and the tool that sets up a pool and its     *)
(* market (tools/demo/src/init.ts), which may crash and be run again.      *)
(*                                                                         *)
(* Amounts and rates are named, not counted: each stands for the argument  *)
(* it is meant to become.  Bounds: Casts, of which a behaviour has one (who *)
(* does what in which pool); MaxLosses and MaxContracts, records per pool; *)
(* MaxCrashes in a row.  The tab, the page and the tool take turns, and    *)
(* the tool is not started when its market is there.                       *)
(***************************************************************************)
EXTENDS WashReaders, WashBuilders

CONSTANTS Users, Operator, Pools, Casts, MaxLosses, MaxContracts, MaxCrashes

Buttons ==
  {"faucet", "deposit", "redeem", "recordLoss", "accrue", "provideProtection",
   "withdrawProtection", "buyProtection", "settleProtection", "expireProtection", "look", "close"}

ASSUME ClientAssumption ==
  /\ Operator \in Users /\ Pools \subseteq U64
  /\ \A c \in Casts : c \subseteq Users \X Buttons \X Pools
  /\ MaxLosses \in Nat /\ MaxContracts \in Nat /\ MaxCrashes \in Nat

VARIABLES cast,    \* <<who, what, pool>>: the buttons that are pressed
          accts,   \* every account that is open
          tab,     \* transactions built and not known to have arrived, at most one
          landed,  \* requests that were carried out and cannot be meant twice
          page,    \* a read under way or done, at most one
          tool     \* demo:init, and how often it crashed

clientVars == <<cast, accts, tab, landed, page, tool>>

Ask(op, who, pool) == [op |-> op, who |-> who, pool |-> pool, tranche |-> "none", buyer |-> who,
                       nonce |-> 0, index |-> 0]

Params == [n \in {"yieldRateBps", "seniorRateBps", "minJuniorBps", "perfFeeBps", "timeScale",
                  "premiumRateBps", "triggerBps", "premiumFeeBps"} |-> n]

(* The buttons of the pages, and the steps of the tool.                    *)
Transaction(ask) ==
  CASE ask.op = "initConfig" -> BuildInitConfig(ask.who, "faucetCap")
    [] ask.op = "createPool" -> BuildCreatePool(ask.who, ask.pool, Params)
    [] ask.op = "initProtection" -> BuildInitProtection(ask.who, ask.pool, Params)
    [] ask.op = "faucet" -> BuildFaucet(ask.who, "amount")
    [] ask.op = "accrue" -> BuildAccrue(ask.pool)
    [] ask.op = "deposit" -> BuildDeposit(ask.who, ask.pool, ask.tranche, "amount")
    [] ask.op = "redeem" -> BuildRedeem(ask.who, ask.pool, ask.tranche, "shares")
    [] ask.op = "recordLoss" -> BuildRecordLoss(ask.who, ask.pool, "lossBps", ask.index)
    [] ask.op = "provideProtection" -> BuildProvide(ask.who, ask.pool, "amount")
    [] ask.op = "withdrawProtection" -> BuildWithdraw(ask.who, ask.pool, "shares")
    [] ask.op = "buyProtection" -> BuildBuy(ask.who, ask.pool, "notional", "term", ask.nonce)
    [] ask.op = "settleProtection" -> BuildSettle(ask.pool, ask.buyer, ask.nonce, ask.index)
    [] ask.op = "expireProtection" -> BuildExpire(ask.who, ask.pool, ask.buyer, ask.nonce)

(* What cannot be meant twice.                                             *)
Once == {"initConfig", "createPool", "initProtection", "recordLoss", "buyProtection",
         "settleProtection", "expireProtection"}

-----------------------------------------------------------------------------
(* What a page offers to a wallet, from the accounts as read now.          *)
Open(a) == a \in DOMAIN accts

Purse(who, mint) == Open(AtaAddress(who, mint))

Contracts(pool) == {a \in DOMAIN accts : accts[a].kind = "ProtectionContract"
                                         /\ accts[a].pool = PoolAddress(pool)}

RequestButton(who, p) == {ask \in {Ask("faucet", who, p)} : Open(ConfigAddress)}

SubmitButton(mode, who, p) ==
  {ask \in {[Ask(mode, who, p) EXCEPT !.tranche = t] : t \in {"senior", "junior"}} :
     CASE mode = "deposit" -> Open(PoolAddress(p)) /\ Purse(who, MintAddress)
       [] mode = "redeem" -> Purse(who, TrancheMint(PoolAccounts(p), ask.tranche))}

(* The index of a new loss is the counter of the pool as last read.        *)
OperatorPanel(kind, who, p) ==
  {[Ask(kind, who, p) EXCEPT !.index = IF kind = "recordLoss" THEN accts[pool].lossCount ELSE @] :
     pool \in {q \in {PoolAddress(p)} :
                 Open(q) /\ (kind = "recordLoss" => accts[q].operator = who)}}

SellButton(mode, who, p) ==
  {ask \in {Ask(mode, who, p)} :
     CASE mode = "provideProtection" -> Open(ProtectionAddress(PoolAddress(p)))
                                        /\ Purse(who, MintAddress)
       [] mode = "withdrawProtection" -> Open(SellerAddress(PoolAddress(p), who))}

(* The nonce of a purchase is the counter of the market as last read.  A   *)
(* market may ask no premium, so nothing need be held.                     *)
BuyButton(who, p) ==
  {[Ask("buyProtection", who, p) EXCEPT !.nonce = accts[market].contracts] :
     market \in {q \in {ProtectionAddress(PoolAddress(p))} : Open(q)}}

(* Settle and Close, on a contract that is still active.                   *)
Active(p) == {a \in Contracts(p) : accts[a].status = "active"}

Upon(kind, who, p, a) ==
  [Ask(kind, who, p) EXCEPT !.buyer = accts[a].buyer, !.nonce = accts[a].nonce]

CitableAt(p, a) == {i \in 0..(MaxLosses - 1) : /\ Open(LossEventAddress(PoolAddress(p), i))
                                               /\ i >= accts[a].lossIndexFrom}

StatusCell(kind, who, p) ==
  CASE kind = "settleProtection" ->
         UNION {{[Upon(kind, who, p, a) EXCEPT !.index = i] : i \in CitableAt(p, a)} :
                  a \in Active(p)}
    [] kind = "expireProtection" ->
         {Upon(kind, who, p, a) : a \in {b \in Active(p) :
            who \in {accts[b].buyer, accts[PoolAddress(p)].operator}}}

Offers(op, who, p) ==
  CASE op = "faucet" -> RequestButton(who, p)
    [] op \in {"deposit", "redeem"} -> SubmitButton(op, who, p)
    [] op \in {"recordLoss", "accrue"} -> OperatorPanel(op, who, p)
    [] op \in {"provideProtection", "withdrawProtection"} -> SellButton(op, who, p)
    [] op = "buyProtection" -> BuyButton(who, p)
    [] op \in {"settleProtection", "expireProtection"} -> StatusCell(op, who, p)

Offered == UNION {Offers(g[2], g[1], g[3]) : g \in {h \in cast : h[2] \notin {"look", "close"}}}

Stage == {g[3] : g \in cast}                           \* the pools in play

(* Losses and purchases the model has room for.                            *)
Room(ask) ==
  /\ ask.op = "recordLoss" => accts[PoolAddress(ask.pool)].lossCount < MaxLosses
  /\ ask.op = "buyProtection" =>
       accts[ProtectionAddress(PoolAddress(ask.pool))].contracts < MaxContracts

Takes(ask) == \E tx \in {Transaction(ask)} : TransactionOk(accts, tx, {ask.who})

Executed(ask) ==
  /\ \E tx \in {Transaction(ask)} : accts' \in {TransactionDone(accts, tx)}
  /\ landed' = IF ask.op \in Once THEN landed \cup {ask} ELSE landed

-----------------------------------------------------------------------------
(* A tab: built from a read, arriving whenever it does, and again if its   *)
(* confirmation was lost; or refused, for the sake of money or because     *)
(* something overtook it; or lost.                                         *)
Build ==
  /\ tab = {} /\ page = {} /\ tool.stage = "rest"
  /\ \E ask \in Offered : Room(ask) /\ tab' = {ask}
  /\ UNCHANGED <<cast, accts, landed, page, tool>>

Arrive ==
  /\ \E ask \in tab : Room(ask) /\ Takes(ask) /\ Executed(ask)
  /\ tab' \in {{}, tab}
  /\ UNCHANGED <<cast, page, tool>>

Drop == tab # {} /\ tab' = {} /\ UNCHANGED <<cast, accts, landed, page, tool>>

(* Another session reads and sends while the tab waits.                    *)
Elsewhere ==
  /\ \E ask \in Offered : Room(ask) /\ Takes(ask) /\ Executed(ask)
  /\ UNCHANGED <<cast, tab, page, tool>>

(* Anybody may found the program, and the operator may set up by hand.     *)
SetUpElsewhere ==
  /\ \E ask \in {Ask("initConfig", who, 0) : who \in Users}
                \cup {Ask(op, Operator, p) : op \in {"createPool", "initProtection"}, p \in Stage} :
       Takes(ask) /\ Executed(ask)
  /\ UNCHANGED <<cast, tab, page, tool>>

(* CloseAccount of the token program, on an empty account.                 *)
CloseAta(who) ==
  /\ \E p \in Pools : <<who, "close", p>> \in cast
  /\ Purse(who, MintAddress)
  /\ accts' = [a \in DOMAIN accts \ {AtaAddress(who, MintAddress)} |-> accts[a]]
  /\ UNCHANGED <<cast, tab, landed, page, tool>>

-----------------------------------------------------------------------------
(* A page reads a pool call by call.  seen is the pool with its losses, at *)
(* the first call, for the properties.                                     *)
LossesOf(pool) == {accts[a] : a \in {b \in DOMAIN accts : accts[b].kind = "LossEvent"
                                                         /\ accts[b].pool = pool}}

PageReadsPool(p) ==
  /\ tab = {} /\ page = {} /\ tool.stage = "rest"
  /\ \E who \in Users : <<who, "look", p>> \in cast
  /\ page' = {[kind |-> "pool", home |-> home,
               seen |-> [pool |-> accts[home.address], losses |-> LossesOf(home.address)]] :
                home \in readPool(accts, p)}
  /\ UNCHANGED <<cast, accts, tab, landed, tool>>

PageReadsLosses ==
  /\ \E r \in page : /\ r.kind = "pool" /\ ~ReadAll(r.home)
                     /\ page' = {[r EXCEPT !.home = readLossEvents(accts, @)]}
  /\ UNCHANGED <<cast, accts, tab, landed, tool>>

(* The wallet of somebody in the pool that was read.                       *)
NoncesOf(who, pool) ==
  {accts[a].nonce : a \in {b \in DOMAIN accts : /\ accts[b].kind = "ProtectionContract"
                                                /\ accts[b].pool = pool
                                                /\ accts[b].buyer = who}}

PageReadsWallet(who) ==
  /\ \E p \in Pools : <<who, "look", p>> \in cast
  /\ \E r \in page :
       /\ r.kind = "pool" /\ ReadAll(r.home)
       /\ page' = {[kind |-> "wallet", who |-> who, pool |-> PoolViewOf(r.home),
                    home |-> readWallet(accts, PoolViewOf(r.home), who),
                    seen |-> NoncesOf(who, r.home.address)]}
  /\ UNCHANGED <<cast, accts, tab, landed, tool>>

PageReadsContracts ==
  /\ \E r \in page :
       /\ r.kind = "wallet"
       /\ page' = {[kind |-> "shown", seen |-> r.seen,
                    view |-> readWalletContracts(accts, r.pool, r.who, r.home),
                    pool |-> r.pool.address]}
  /\ UNCHANGED <<cast, accts, tab, landed, tool>>

PageCloses == page # {} /\ page' = {} /\ UNCHANGED <<cast, accts, tab, landed, tool>>

-----------------------------------------------------------------------------
(* demo:init goes through three stages; each opens what is not open yet.   *)
ToolStates ==
  [stage : {"rest", "initConfig", "createPool", "initProtection"}, id : Pools \cup {0},
   sends : BOOLEAN, crashes : 0..MaxCrashes]

Resting(crashes) == [stage |-> "rest", id |-> 0, sends |-> FALSE, crashes |-> crashes]

ToolAsk == Ask(tool.stage, Operator, IF tool.stage = "initConfig" THEN 0 ELSE tool.id)

ToolFindsNoPool ==                                     \* mutant: a pool that is there is not noticed
  \/ tool.stage = "initConfig" /\ Open(ConfigAddress)
  \/ tool.stage = "initProtection" /\ readProtection(accts, PoolAddress(tool.id)) # {}

ToolFinds ==
  \/ tool.stage = "initConfig" /\ Open(ConfigAddress)
  \/ tool.stage = "createPool" /\ readPool(accts, tool.id) # {}
  \/ tool.stage = "initProtection" /\ readProtection(accts, PoolAddress(tool.id)) # {}

NextStage ==
  CASE tool.stage = "initConfig" -> [tool EXCEPT !.stage = "createPool", !.sends = FALSE]
    [] tool.stage = "createPool" -> [tool EXCEPT !.stage = "initProtection", !.sends = FALSE]
    [] tool.stage = "initProtection" -> Resting(0)

Foreign == Open(ConfigAddress) /\ accts[ConfigAddress].authority # Operator

ToolStarts(id) ==
  /\ tool.stage = "rest" /\ tab = {} /\ page = {}
  /\ id \in Stage /\ ~Open(ProtectionAddress(PoolAddress(id)))
  /\ tool' = [tool EXCEPT !.stage = "initConfig", !.id = id]
  /\ UNCHANGED <<cast, accts, tab, landed, page>>

ToolChecks ==
  /\ tool.stage # "rest" /\ ~tool.sends
  /\ tool' = IF tool.stage = "initConfig" /\ Foreign THEN Resting(tool.crashes)
             ELSE IF ToolFinds THEN NextStage
             ELSE [tool EXCEPT !.sends = TRUE]
  /\ UNCHANGED <<cast, accts, tab, landed, page>>

(* Sent and confirmed, or refused, which ends the run.                     *)
ToolSends ==
  /\ tool.sends
  /\ IF Takes(ToolAsk) THEN Executed(ToolAsk) /\ tool' = NextStage
     ELSE UNCHANGED <<accts, landed>> /\ tool' = Resting(tool.crashes)
  /\ UNCHANGED <<cast, tab, page>>

(* The run ends before its next step, or after a transaction whose         *)
(* confirmation it never sees.                                             *)
ToolCrashes ==
  /\ tool.stage # "rest" /\ tool.crashes < MaxCrashes
  /\ tool' = Resting(tool.crashes + 1)
  /\ \/ UNCHANGED <<accts, landed>>
     \/ tool.sends /\ Takes(ToolAsk) /\ Executed(ToolAsk)
  /\ UNCHANGED <<cast, tab, page>>

-----------------------------------------------------------------------------
ClientInit ==
  /\ cast \in Casts
  /\ accts = <<>>
  /\ tab = {} /\ landed = {} /\ page = {}
  /\ tool = Resting(0)

ClientNext ==
  \/ Build \/ Arrive \/ Drop \/ Elsewhere \/ SetUpElsewhere
  \/ \E who \in Users : CloseAta(who) \/ PageReadsWallet(who)
  \/ \E p \in Pools : PageReadsPool(p) \/ ToolStarts(p)
  \/ PageReadsLosses \/ PageReadsContracts \/ PageCloses
  \/ ToolChecks \/ ToolSends \/ ToolCrashes

(* A run of the tool goes on, whatever its next step, and a pool that is    *)
(* to be set up is tried again after every run that failed.  A tab does    *)
(* not wait for ever (TxSender), nor does a page: they hand over the turn. *)
ClientSpec ==
  /\ ClientInit /\ [][ClientNext]_clientVars
  /\ WF_tool(tool.stage # "rest" /\ tool' \in ToolStates)
  /\ WF_clientVars(Drop) /\ WF_clientVars(PageCloses)
  /\ \A p \in Pools : SF_clientVars(ToolStarts(p))

-----------------------------------------------------------------------------
(* Every account lies at the address that its own fields give, so no two   *)
(* roles ever share an address and none is opened in the place of another. *)
(* (seeds and init of the Accounts structs; pda.ts)                        *)
AddressesOf(account) ==
  CASE account.kind = "Config" -> {ConfigAddress}
    [] account.kind = "Pool" -> {PoolAddress(account.id)}
    [] account.kind = "LossEvent" -> {LossEventAddress(account.pool, account.index)}
    [] account.kind = "ProtectionPool" -> {ProtectionAddress(account.pool)}
    [] account.kind = "SellerPosition" -> {SellerAddress(account.pool, account.owner)}
    [] account.kind = "ProtectionContract" ->
         {ContractAddress(account.pool, account.buyer, account.nonce)}
    [] account.kind = "Mint" ->
         {MintAddress, SeniorMintAddress(account.authority), JuniorMintAddress(account.authority)}
    [] account.kind = "Token" ->
         {AtaAddress(account.owner, account.mint), TreasuryAddress, VaultAddress(account.owner)}
         \cup {PvaultAddress(PoolAddress(p)) : p \in Pools}

ClientTypeOK ==
  /\ \A a \in DOMAIN accts : a \in AddressesOf(accts[a])
  /\ Cardinality(tab) <= 1 /\ Cardinality(page) <= 1
  /\ tool \in ToolStates

(* The names under which the generated client would fill in an address.    *)
LeftOpen(op) ==
  CASE op \in {"accrue", "deposit", "redeem", "recordLoss"} -> {"config"}
    [] op = "buyProtection" -> {"config", "protection", "contract"}
    [] op = "expireProtection" -> {"config", "protection"}
    [] op = "createPool" -> {"config", "pool", "vault", "seniorMint", "juniorMint"}
    [] op = "faucet" -> {"config", "ownerAta"}
    [] op = "initConfig" -> {"config", "mint", "treasury"}
    [] op = "initProtection" -> {"protection", "pvault"}
    [] op \in {"provideProtection", "withdrawProtection"} -> {"protection", "position"}
    [] op = "settleProtection" -> {"protection"}

(* A transaction means the same to everyone: what the client's own parser  *)
(* reads from it is, role by role and argument by argument, what the       *)
(* program reads, and the addresses the builders derive by hand are those  *)
(* the generated client derives.  Nothing but the order of the accounts    *)
(* ties the three together.                                                *)
OneMeaning ==
  \A ask \in tab \cup {a \in {ToolAsk} : tool.sends} :
    LET tx == Transaction(ask)
        ix == tx[Len(tx)]
        parsed == ParseWashappInstruction(ix)
        read == Filled(parsed.accounts, parsed.data)
    IN  /\ IdentifyWashappInstruction(ix) = ask.op
        /\ read = Context(ix)
        /\ WashappPlugin(ask.op, [n \in DOMAIN read \ LeftOpen(ask.op) |-> read[n]]) = ix

(* What a page offers on a fresh read, the program takes: the nonce of a   *)
(* purchase is free though others buy with numbers of their own, the index *)
(* of a loss is the next, the accounts a wallet needs are there or opened  *)
(* on the way.  It refuses exactly where no builder opens the account that *)
(* the page takes for empty (readWallet): the claim of a buyer who closed  *)
(* the token account meanwhile, and a purchase without one, which is       *)
(* offered where there is no premium.                                      *)
(* (read.ts, builders/settle.ts, builders/buy.ts; money aside)             *)
FreshIsTaken ==
  \A ask \in Offered :
    Takes(ask) <=> (ask.op \in {"buyProtection", "settleProtection"} =>
                      Purse(ask.buyer, MintAddress))

(* A request that was carried out and whose confirmation got lost cannot   *)
(* be carried out a second time, however late it is repeated: no double    *)
(* purchase, loss or settlement.  (builders/buy.ts:14, LossScreen.tsx)     *)
LandedNeverAgain == \A ask \in landed : ~Takes(ask)

(* A page shows a pool as it was at the first call, with every loss of     *)
(* then and none since, in order, though the records come in over several  *)
(* calls.  (readPool and readLossEvents of read.ts, the decoders, view.ts) *)
PageIsOneMoment ==
  \A r \in page :
    r.kind = "pool" /\ ReadAll(r.home) =>
      LET view == PoolViewOf(r.home)
          pool == r.seen.pool
      IN  /\ \A n \in {"id", "operator", "mint", "vault", "lossCount"} : view[n] = pool[n]
          /\ \A n \in DOMAIN view.params : view.params[n] = pool[n]
          /\ view.senior.mint = pool.seniorMint /\ view.junior.mint = pool.juniorMint
          /\ Len(view.lossEvents) = Cardinality(r.seen.losses)
          /\ \A i \in DOMAIN view.lossEvents :
               \E e \in r.seen.losses :
                 e.index = i - 1 /\ view.lossEvents[i] = lossEventView(
                   LossEventAddress(e.pool, e.index), Filled(e, [n \in {"ts", "modelTime", "amount",
                   "juniorLoss", "seniorLoss", "assetsBefore"} |-> 0]))

(* A wallet sees its own contracts in this pool and only those, in the     *)
(* order of their numbers, and misses none that was there when the market  *)
(* was read.  (readWallet and readContracts of read.ts)                    *)
WalletSeesItsContracts ==
  \A r \in page :
    r.kind = "shown" =>
      LET list == r.view.contracts
          numbers == {list[i].nonce : i \in DOMAIN list}
      IN  /\ r.seen \subseteq numbers
          /\ numbers \subseteq NoncesOf(r.view.owner, r.pool)
          /\ \A i \in DOMAIN list : list[i].buyer = r.view.owner
          /\ \A i, j \in DOMAIN list : i < j => list[i].nonce < list[j].nonce

(* Run often enough, the tool sets up every pool and its market, whatever  *)
(* crashed halfway and whoever else does part of it, unless the program    *)
(* belongs to somebody else.  (init.ts: "Idempotent")                      *)
SetUpConverges ==
  \A p \in Pools : <>(p \notin Stage \/ Foreign \/ Open(ProtectionAddress(PoolAddress(p))))

(* What the accounts stand for.                                            *)
AuthorityIn(A) == IF ConfigAddress \in DOMAIN A THEN {A[ConfigAddress].authority} ELSE {}

PoolsIn(A) == {p \in Pools : PoolAddress(p) \in DOMAIN A}

MarketsIn(A) == {p \in Pools : ProtectionAddress(PoolAddress(p)) \in DOMAIN A}

LossesIn(A) ==
  [p \in Pools |-> IF PoolAddress(p) \in DOMAIN A THEN A[PoolAddress(p)].lossCount ELSE 0]

ContractAccounts(A) == {a \in DOMAIN A : A[a].kind = "ProtectionContract"}

Standing(A, k) ==
  [pool |-> A[k.pool].id, buyer |-> k.buyer, nonce |-> k.nonce, from |-> k.lossIndexFrom,
   status |-> k.status, by |-> k.settledLossIndex]

ContractsIn(A) == {Standing(A, A[a]) : a \in ContractAccounts(A)}

Ledger == INSTANCE WashLedger WITH
  Numbers <- 0..MaxContracts, authority <- AuthorityIn(accts), pools <- PoolsIn(accts),
  markets <- MarketsIn(accts), losses <- LossesIn(accts), contracts <- ContractsIn(accts)

(* Every transaction, fresh or stale, does one thing to the ledger or      *)
(* nothing: it opens, records, sells a new contract, or closes one that is *)
(* active; no sale overwrites another and no contract moves to another     *)
(* pool or buyer.                                                          *)
ImplementsLedger == Ledger!LedgerSpec

=============================================================================
