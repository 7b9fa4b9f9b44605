---------------------------- MODULE WashAccounts ----------------------------
(***************************************************************************)
(* The program seen from outside: which accounts an instruction names, in  *)
(* which order, what the program requires of them before a handler runs    *)
(* (the Accounts structs of programs/washapp/src/instructions), and which  *)
(* accounts a handler opens or changes.                                    *)
(*                                                                         *)
(* accts maps every open address to its account.  Amounts of money are     *)
(* WashPool's and WashProtection's business; here a handler may refuse for *)
(* their sake at any time, and fields that no address depends on are zero. *)
(***************************************************************************)
EXTENDS WashWire, FiniteSets

Stored(name, size) == [name |-> name, size |-> size]

(* programs/washapp/src/state: the fields in the order they are stored.    *)
ConfigFields ==
  <<Stored("authority", 32), Stored("mint", 32), Stored("treasury", 32), Stored("faucetCap", 8),
    Stored("bump", 1)>>

PoolFields ==
  <<Stored("id", 2), Stored("operator", 32), Stored("mint", 32), Stored("vault", 32),
    Stored("seniorMint", 32), Stored("juniorMint", 32), Stored("yieldRateBps", 2),
    Stored("seniorRateBps", 2), Stored("minJuniorBps", 2), Stored("perfFeeBps", 2),
    Stored("timeScale", 4), Stored("assets", 8), Stored("seniorAssets", 8),
    Stored("juniorAssets", 8), Stored("modelTime", 8), Stored("lastAccruedTs", 8),
    Stored("lossCount", 4), Stored("createdAt", 8), Stored("bump", 1)>>

LossEventFields ==
  <<Stored("pool", 32), Stored("index", 4), Stored("ts", 8), Stored("modelTime", 8),
    Stored("lossBps", 2), Stored("amount", 8), Stored("juniorLoss", 8), Stored("seniorLoss", 8),
    Stored("assetsBefore", 8), Stored("bump", 1)>>

ProtectionPoolFields ==
  <<Stored("pool", 32), Stored("pvault", 32), Stored("premiumRateBps", 2),
    Stored("triggerBps", 2), Stored("premiumFeeBps", 2), Stored("collateral", 8),
    Stored("reserved", 8), Stored("shareSupply", 8), Stored("contracts", 8), Stored("bump", 1)>>

SellerPositionFields ==
  <<Stored("pool", 32), Stored("owner", 32), Stored("shares", 8), Stored("bump", 1)>>

ProtectionContractFields ==
  <<Stored("pool", 32), Stored("buyer", 32), Stored("nonce", 8), Stored("notional", 8),
    Stored("premium", 8), Stored("startModelTime", 8), Stored("expiryModelTime", 8),
    Stored("triggerBps", 2), Stored("lossIndexFrom", 4), Stored("status", 1),
    Stored("settledLossIndex", 4), Stored("payout", 8), Stored("bump", 1)>>

Fields ==
  [Config |-> ConfigFields,
   Pool |-> PoolFields,
   LossEvent |-> LossEventFields,
   ProtectionPool |-> ProtectionPoolFields,
   SellerPosition |-> SellerPositionFields,
   ProtectionContract |-> ProtectionContractFields]

(* The bytes of an account as cells: the discriminator, then the fields.   *)
(* Of the accounts of the token library only the amount is ever read.      *)
Data(account) ==
  IF account.kind = "Mint" THEN <<[size |-> 82, value |-> account.supply]>>
  ELSE IF account.kind = "Token" THEN <<[size |-> 165, value |-> account.amount]>>
  ELSE
  <<[size |-> 8, value |-> account.kind]>>
  \o [i \in DOMAIN Fields[account.kind] |->
        LET field == Fields[account.kind][i]
        IN  [size |-> field.size,
             value |-> IF field.name \in DOMAIN account THEN account[field.name] ELSE 0]]

Mint(authority) == [kind |-> "Mint", authority |-> authority, supply |-> 0]

TokenAccount(mint, owner) == [kind |-> "Token", mint |-> mint, owner |-> owner, amount |-> 0]

-----------------------------------------------------------------------------
(* What an instruction names, by position: the Accounts structs ...        *)
InitConfigAccounts ==
  <<W("config"), W("mint"), W("treasury"), WS("authority"), R("tokenProgram"),
    R("systemProgram")>>

FaucetAccounts ==
  <<R("config"), W("mint"), W("ownerAta"), WS("owner"), R("tokenProgram"),
    R("associatedTokenProgram"), R("systemProgram")>>

CreatePoolAccounts ==
  <<R("config"), R("mint"), W("pool"), W("vault"), W("seniorMint"), W("juniorMint"),
    WS("operator"), R("tokenProgram"), R("systemProgram")>>

AccrueAccounts ==
  <<R("config"), W("mint"), W("treasury"), W("pool"), W("vault"), R("seniorMint"),
    R("juniorMint"), R("tokenProgram")>>

DepositAccounts ==
  <<R("config"), W("mint"), W("treasury"), W("pool"), W("vault"), W("seniorMint"),
    W("juniorMint"), W("ownerAta"), W("ownerTrancheAta"), RS("owner"),
    R("tokenProgram")>>

RedeemAccounts ==
  <<R("config"), W("mint"), W("treasury"), W("pool"), W("vault"), W("seniorMint"),
    W("juniorMint"), W("ownerAta"), W("ownerTrancheAta"), RS("owner"),
    R("tokenProgram")>>

RecordLossAccounts ==
  <<R("config"), W("mint"), W("treasury"), W("pool"), W("vault"), W("seniorMint"),
    W("juniorMint"), W("lossEvent"), WS("operator"), R("tokenProgram"),
    R("systemProgram")>>

InitProtectionAccounts ==
  <<R("pool"), R("mint"), W("protection"), W("pvault"), WS("operator"),
    R("tokenProgram"), R("systemProgram")>>

ProvideProtectionAccounts ==
  <<R("pool"), W("protection"), W("pvault"), W("ownerAta"), W("position"), WS("owner"),
    R("tokenProgram"), R("systemProgram")>>

WithdrawProtectionAccounts ==
  <<R("pool"), W("protection"), W("pvault"), W("ownerAta"), W("position"), RS("owner"),
    R("tokenProgram")>>

BuyProtectionAccounts ==
  <<R("config"), W("mint"), W("treasury"), W("pool"), W("vault"), W("seniorMint"),
    W("juniorMint"), W("protection"), W("pvault"), W("buyerAta"), W("contract"),
    WS("buyer"), R("tokenProgram"), R("systemProgram")>>

SettleProtectionAccounts ==
  <<R("pool"), W("protection"), W("pvault"), W("contract"), R("lossEvent"),
    W("buyerAta"), R("tokenProgram")>>

ExpireProtectionAccounts ==
  <<R("config"), W("mint"), W("treasury"), W("pool"), W("vault"), W("seniorMint"),
    W("juniorMint"), W("protection"), W("contract"), RS("signer"), R("tokenProgram")>>

Accounts ==
  [initConfig |-> InitConfigAccounts,
   faucet |-> FaucetAccounts,
   createPool |-> CreatePoolAccounts,
   accrue |-> AccrueAccounts,
   deposit |-> DepositAccounts,
   redeem |-> RedeemAccounts,
   recordLoss |-> RecordLossAccounts,
   initProtection |-> InitProtectionAccounts,
   provideProtection |-> ProvideProtectionAccounts,
   withdrawProtection |-> WithdrawProtectionAccounts,
   buyProtection |-> BuyProtectionAccounts,
   settleProtection |-> SettleProtectionAccounts,
   expireProtection |-> ExpireProtectionAccounts]

(* ... and the parameters of the handlers.                                 *)
Parameters ==
  [initConfig |-> <<Arg("faucetCap", "u64")>>,
   faucet |-> <<Arg("amount", "u64")>>,
   createPool |-> <<Arg("id", "u16"), Arg("yieldRateBps", "u16"), Arg("seniorRateBps", "u16"),
                    Arg("minJuniorBps", "u16"), Arg("perfFeeBps", "u16"),
                    Arg("timeScale", "u32")>>,
   accrue |-> <<>>,
   deposit |-> <<Arg("tranche", "tranche"), Arg("amount", "u64")>>,
   redeem |-> <<Arg("tranche", "tranche"), Arg("shares", "u64")>>,
   recordLoss |-> <<Arg("lossBps", "u16")>>,
   initProtection |-> <<Arg("premiumRateBps", "u16"), Arg("triggerBps", "u16"),
                        Arg("premiumFeeBps", "u16")>>,
   provideProtection |-> <<Arg("amount", "u64")>>,
   withdrawProtection |-> <<Arg("shares", "u64")>>,
   buyProtection |-> <<Arg("notional", "u64"), Arg("term", "u64"), Arg("nonce", "u64")>>,
   settleProtection |-> <<>>,
   expireProtection |-> <<>>]

(* The accounts and arguments of an instruction under the names the        *)
(* handler knows them by.                                                  *)
Context(ix) ==
  LET name == ix.data.discriminator
      struct == Accounts[name]
  IN  Filled(Named(struct, [i \in DOMAIN struct |-> ix.accounts[i].address]),
             Named(Parameters[name],
                   [i \in DOMAIN Parameters[name] |-> ix.data.args[i].value]))

(* Signer and mut, and the program accounts, which anchor checks itself.   *)
WellFormed(ix, signers) ==
  LET struct == Accounts[ix.data.discriminator]
  IN  /\ Len(ix.accounts) >= Len(struct)
      /\ \A i \in DOMAIN struct :
           LET meta == ix.accounts[i]
           IN  /\ struct[i].signer => meta.signer /\ meta.address \in signers
               /\ struct[i].writable => meta.writable
               /\ struct[i].name = "tokenProgram" => meta.address = TokenProgram
               /\ struct[i].name = "systemProgram" => meta.address = SystemProgram
               /\ struct[i].name = "associatedTokenProgram"
                    => meta.address = AssociatedTokenProgram
      /\ [i \in DOMAIN ix.data.args |-> ix.data.args[i].type]
         = [i \in DOMAIN Parameters[ix.data.discriminator] |->
              Parameters[ix.data.discriminator][i].type]

-----------------------------------------------------------------------------
Is(accts, address, kind) == address \in DOMAIN accts /\ accts[address].kind = kind

New(accts, addresses) == addresses \cap DOMAIN accts = {}

(* init and init_if_needed: what is there stays.                           *)
Opening(accts, address, account) ==
  [a \in DOMAIN accts \cup {address} |-> IF a \in DOMAIN accts THEN accts[a] ELSE account]

(* token::mint and token::authority of the structs.                        *)
Holds(accts, address, mint, owner) ==
  /\ Is(accts, address, "Token")
  /\ accts[address].mint = mint
  /\ accts[address].owner = owner

ConfigOk(accts, c) == c.config = ConfigAddress /\ Is(accts, c.config, "Config")

PoolOk(accts, c) ==
  /\ Is(accts, c.pool, "Pool")
  /\ c.pool = PoolAddress(accts[c.pool].id)

MarketOk(accts, c) ==
  /\ Is(accts, c.protection, "ProtectionPool")
  /\ c.protection = ProtectionAddress(c.pool)
  /\ c.pvault = accts[c.protection].pvault

(* The instructions that accrue first pin the same seven accounts.         *)
Pinned(accts, c) ==
  /\ ConfigOk(accts, c)
  /\ c.mint = accts[c.config].mint
  /\ c.treasury = accts[c.config].treasury
  /\ PoolOk(accts, c)
  /\ c.mint = accts[c.pool].mint
  /\ c.vault = accts[c.pool].vault
  /\ c.seniorMint = accts[c.pool].seniorMint
  /\ c.juniorMint = accts[c.pool].juniorMint

TrancheMintOf(pool, tranche) == IF tranche = "senior" THEN pool.seniorMint ELSE pool.juniorMint

-----------------------------------------------------------------------------
(* One pair per instruction: what its struct and the checks of its handler *)
(* that depend on accounts require, and what it leaves behind.             *)
InitConfigOk(accts, c) ==
  /\ c.config = ConfigAddress
  /\ c.mint = MintAddress
  /\ c.treasury = TreasuryAddress
  /\ New(accts, {c.config, c.mint, c.treasury})

InitConfigDone(accts, c) ==
  LET config == [kind |-> "Config", authority |-> c.authority, mint |-> c.mint,
                 treasury |-> c.treasury, faucetCap |-> c.faucetCap]
      withMint == Opening(accts, c.mint, Mint(c.config))
      withTreasury == Opening(withMint, c.treasury, TokenAccount(c.mint, c.authority))
  IN  Opening(withTreasury, c.config, config)

FaucetOk(accts, c) ==
  /\ ConfigOk(accts, c)
  /\ c.mint = accts[c.config].mint
  /\ c.ownerAta = AtaAddress(c.owner, c.mint)

FaucetDone(accts, c) == Opening(accts, c.ownerAta, TokenAccount(c.mint, c.owner))

CreatePoolOk(accts, c) ==
  /\ ConfigOk(accts, c)
  /\ c.mint = accts[c.config].mint
  /\ accts[c.config].authority = c.operator
  /\ c.pool = PoolAddress(c.id)
  /\ c.vault = VaultAddress(c.pool)
  /\ c.seniorMint = SeniorMintAddress(c.pool)
  /\ c.juniorMint = JuniorMintAddress(c.pool)
  /\ New(accts, {c.pool, c.vault, c.seniorMint, c.juniorMint})

CreatePoolDone(accts, c) ==
  LET pool == [kind |-> "Pool", id |-> c.id, operator |-> c.operator, mint |-> c.mint,
               vault |-> c.vault, seniorMint |-> c.seniorMint, juniorMint |-> c.juniorMint,
               yieldRateBps |-> c.yieldRateBps, seniorRateBps |-> c.seniorRateBps,
               minJuniorBps |-> c.minJuniorBps, perfFeeBps |-> c.perfFeeBps,
               timeScale |-> c.timeScale, lossCount |-> 0]
      withVault == Opening(accts, c.vault, TokenAccount(c.mint, c.pool))
      withSenior == Opening(withVault, c.seniorMint, Mint(c.pool))
      withJunior == Opening(withSenior, c.juniorMint, Mint(c.pool))
  IN  Opening(withJunior, c.pool, pool)

AccrueOk(accts, c) == Pinned(accts, c)

DepositOk(accts, c) ==
  /\ Pinned(accts, c)
  /\ Holds(accts, c.ownerAta, c.mint, c.owner)
  /\ Holds(accts, c.ownerTrancheAta, TrancheMintOf(accts[c.pool], c.tranche), c.owner)

RedeemOk(accts, c) == DepositOk(accts, c)

RecordLossOk(accts, c) ==
  /\ Pinned(accts, c)
  /\ accts[c.pool].operator = c.operator
  /\ c.lossEvent = LossEventAddress(c.pool, accts[c.pool].lossCount)
  /\ New(accts, {c.lossEvent})

RecordLossDoneAfter(accts, c) ==                       \* mutant: numbered after the count has moved
  Opening([accts EXCEPT ![c.pool].lossCount = @ + 1], c.lossEvent,
          [kind |-> "LossEvent", pool |-> c.pool, index |-> accts[c.pool].lossCount + 1,
           lossBps |-> c.lossBps])

RecordLossDone(accts, c) ==
  Opening([accts EXCEPT ![c.pool].lossCount = @ + 1], c.lossEvent,
          [kind |-> "LossEvent", pool |-> c.pool, index |-> accts[c.pool].lossCount,
           lossBps |-> c.lossBps])

InitProtectionOk(accts, c) ==
  /\ PoolOk(accts, c)
  /\ c.mint = accts[c.pool].mint
  /\ accts[c.pool].operator = c.operator
  /\ c.protection = ProtectionAddress(c.pool)
  /\ c.pvault = PvaultAddress(c.pool)
  /\ New(accts, {c.protection, c.pvault})

InitProtectionDone(accts, c) ==
  LET market == [kind |-> "ProtectionPool", pool |-> c.pool, pvault |-> c.pvault,
                 premiumRateBps |-> c.premiumRateBps, triggerBps |-> c.triggerBps,
                 premiumFeeBps |-> c.premiumFeeBps, contracts |-> 0]
  IN  Opening(Opening(accts, c.pvault, TokenAccount(c.mint, c.protection)), c.protection, market)

ProvideOk(accts, c) ==
  /\ PoolOk(accts, c)
  /\ MarketOk(accts, c)
  /\ Holds(accts, c.ownerAta, accts[c.pool].mint, c.owner)
  /\ c.position = SellerAddress(c.pool, c.owner)

ProvideDone(accts, c) ==
  Opening(accts, c.position, [kind |-> "SellerPosition", pool |-> c.pool, owner |-> c.owner])

WithdrawOk(accts, c) == ProvideOk(accts, c) /\ Is(accts, c.position, "SellerPosition")

BuyOkReopening(accts, c) ==                            \* mutant: init_if_needed on the contract
  /\ Pinned(accts, c)
  /\ MarketOk(accts, c)
  /\ Holds(accts, c.buyerAta, c.mint, c.buyer)
  /\ c.contract = ContractAddress(c.pool, c.buyer, c.nonce)

BuyOk(accts, c) ==
  /\ Pinned(accts, c)
  /\ MarketOk(accts, c)
  /\ Holds(accts, c.buyerAta, c.mint, c.buyer)
  /\ c.contract = ContractAddress(c.pool, c.buyer, c.nonce)
  /\ New(accts, {c.contract})

BuyDone(accts, c) ==
  Opening([accts EXCEPT ![c.protection].contracts = @ + 1], c.contract,
          [kind |-> "ProtectionContract", pool |-> c.pool, buyer |-> c.buyer,
           nonce |-> c.nonce, status |-> "active",
           lossIndexFrom |-> accts[c.pool].lossCount, settledLossIndex |-> 0])

SettleOkAgain(accts, c) ==                             \* mutant: the status is not looked at
  /\ PoolOk(accts, c)
  /\ MarketOk(accts, c)
  /\ Is(accts, c.contract, "ProtectionContract") /\ accts[c.contract].pool = c.pool
  /\ Is(accts, c.lossEvent, "LossEvent") /\ accts[c.lossEvent].pool = c.pool
  /\ Holds(accts, c.buyerAta, accts[c.pool].mint, accts[c.contract].buyer)
  /\ accts[c.lossEvent].index >= accts[c.contract].lossIndexFrom

SettleOk(accts, c) ==
  /\ PoolOk(accts, c)
  /\ MarketOk(accts, c)
  /\ Is(accts, c.contract, "ProtectionContract") /\ accts[c.contract].pool = c.pool
  /\ Is(accts, c.lossEvent, "LossEvent") /\ accts[c.lossEvent].pool = c.pool
  /\ Holds(accts, c.buyerAta, accts[c.pool].mint, accts[c.contract].buyer)
  /\ accts[c.contract].status = "active"
  /\ accts[c.lossEvent].index >= accts[c.contract].lossIndexFrom

SettleDone(accts, c) ==
  [accts EXCEPT ![c.contract].status = "settled",
                ![c.contract].settledLossIndex = accts[c.lossEvent].index]

ExpireOk(accts, c) ==
  /\ Pinned(accts, c)
  /\ Is(accts, c.protection, "ProtectionPool") /\ c.protection = ProtectionAddress(c.pool)
  /\ Is(accts, c.contract, "ProtectionContract") /\ accts[c.contract].pool = c.pool
  /\ c.signer \in {accts[c.contract].buyer, accts[c.pool].operator}
  /\ accts[c.contract].status = "active"

ExpireDone(accts, c) == [accts EXCEPT ![c.contract].status = "expired"]

(* The idempotent creation of the token library, whose program derives the *)
(* address again.                                                          *)
CreateAtaOk(accts, ix, signers) ==
  /\ ix.accounts[1].address \in signers
  /\ ix.accounts[2].address = AtaAddress(ix.accounts[3].address, ix.accounts[4].address)
  /\ Is(accts, ix.accounts[4].address, "Mint")

CreateAtaDone(accts, ix) ==
  Opening(accts, ix.accounts[2].address,
          TokenAccount(ix.accounts[4].address, ix.accounts[3].address))

-----------------------------------------------------------------------------
(* lib.rs: the discriminator picks the handler.                            *)
InstructionOk(accts, ix, signers) ==
  LET name == ix.data.discriminator
  IN  IF name = "createAta" THEN CreateAtaOk(accts, ix, signers)
      ELSE /\ WellFormed(ix, signers)
           /\ \A c \in {Context(ix)} :
              CASE name = "initConfig" -> InitConfigOk(accts, c)
                [] name = "faucet" -> FaucetOk(accts, c)
                [] name = "createPool" -> CreatePoolOk(accts, c)
                [] name = "accrue" -> AccrueOk(accts, c)
                [] name = "deposit" -> DepositOk(accts, c)
                [] name = "redeem" -> RedeemOk(accts, c)
                [] name = "recordLoss" -> RecordLossOk(accts, c)
                [] name = "initProtection" -> InitProtectionOk(accts, c)
                [] name = "provideProtection" -> ProvideOk(accts, c)
                [] name = "withdrawProtection" -> WithdrawOk(accts, c)
                [] name = "buyProtection" -> BuyOk(accts, c)
                [] name = "settleProtection" -> SettleOk(accts, c)
                [] name = "expireProtection" -> ExpireOk(accts, c)

InstructionDone(accts, ix) ==
  LET name == ix.data.discriminator
      c == Context(ix)
  IN  CASE name = "createAta" -> CreateAtaDone(accts, ix)
        [] name = "initConfig" -> InitConfigDone(accts, c)
        [] name = "faucet" -> FaucetDone(accts, c)
        [] name = "createPool" -> CreatePoolDone(accts, c)
        [] name = "recordLoss" -> RecordLossDone(accts, c)
        [] name = "initProtection" -> InitProtectionDone(accts, c)
        [] name = "provideProtection" -> ProvideDone(accts, c)
        [] name = "buyProtection" -> BuyDone(accts, c)
        [] name = "settleProtection" -> SettleDone(accts, c)
        [] name = "expireProtection" -> ExpireDone(accts, c)
        [] OTHER -> accts

(* A transaction: its instructions in order, all of them or none.  The     *)
(* builders make one or two.                                               *)
AfterFirst(accts, tx) == IF Len(tx) = 1 THEN accts ELSE InstructionDone(accts, tx[1])

TransactionOk(accts, tx, signers) ==
  /\ Len(tx) > 1 => InstructionOk(accts, tx[1], signers)
  /\ InstructionOk(AfterFirst(accts, tx), tx[Len(tx)], signers)

TransactionDone(accts, tx) == InstructionDone(AfterFirst(accts, tx), tx[Len(tx)])

=============================================================================
