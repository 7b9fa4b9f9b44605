------------------------------ MODULE WashWire ------------------------------
(***************************************************************************)
(* The generated client of the program, packages/chain/src/generated: for  *)
(* each instruction the accounts in the order they travel, with what the   *)
(* transaction may do to them, the order and types of the arguments, the   *)
(* function that assembles an instruction, the one that first fills in     *)
(* addresses left open, and the parser.                                    *)
(*                                                                         *)
(* An instruction names its accounts by position only; nothing but the     *)
(* order ties an address to the role the program gives it.  The same holds *)
(* for the arguments, which travel as bytes after an eight byte            *)
(* discriminator (here: the name of the instruction).                      *)
(***************************************************************************)
EXTENDS WashAddresses, Sequences

(* Account metas: read, write, sign, write and sign.                       *)
R(name) == [name |-> name, writable |-> FALSE, signer |-> FALSE]

W(name) == [name |-> name, writable |-> TRUE, signer |-> FALSE]

RS(name) == [name |-> name, writable |-> FALSE, signer |-> TRUE]

WS(name) == [name |-> name, writable |-> TRUE, signer |-> TRUE]

Arg(name, type) == [name |-> name, type |-> type]

(* The metas and the data of one instruction, from an input that names     *)
(* accounts and arguments.                                                 *)
Assembled(discriminator, metas, args, input) ==
  [accounts |-> [i \in DOMAIN metas |->
                   [address |-> input[metas[i].name], writable |-> metas[i].writable,
                    signer |-> metas[i].signer]],
   data |-> [discriminator |-> discriminator,
             args |-> [i \in DOMAIN args |->
                         [type |-> args[i].type, value |-> input[args[i].name]]]]]

(* The fields given, and of the defaults those that were left open.        *)
Filled(given, defaults) ==
  [n \in DOMAIN given \cup DOMAIN defaults |->
     IF n \in DOMAIN given THEN given[n] ELSE defaults[n]]

NameOf(list, i) == list[i].name

Named(list, values) ==
  [n \in {NameOf(list, i) : i \in DOMAIN list} |->
     values[CHOOSE i \in DOMAIN list : NameOf(list, i) = n]]

TooFewAccounts == "insufficient account metas"

(* The parsers take the accounts in order; more than they know are left.   *)
Parsed(metas, args, instruction) ==
  IF Len(instruction.accounts) < Len(metas) THEN TooFewAccounts
  ELSE [accounts |-> Named(metas, [i \in DOMAIN metas |-> instruction.accounts[i].address]),
        data |-> Named(args, [i \in DOMAIN args |-> instruction.data.args[i].value])]

-----------------------------------------------------------------------------
AccrueInstruction ==
  <<R("config"), W("mint"), W("treasury"), W("pool"), W("vault"), R("seniorMint"),
    R("juniorMint"), R("tokenProgram")>>

AccrueInstructionData == <<>>

GetAccrueInstruction(input) ==
  Assembled("accrue", AccrueInstruction, AccrueInstructionData,
            Filled(input, [tokenProgram |-> TokenProgram]))

GetAccrueInstructionAsync(input) ==
  GetAccrueInstruction(Filled(input, [config |-> FindConfigPda]))

ParseAccrueInstruction(instruction) ==
  Parsed(AccrueInstruction, AccrueInstructionData, instruction)

-----------------------------------------------------------------------------
BuyProtectionInstruction ==
  <<R("config"), W("mint"), W("treasury"), W("pool"), W("vault"), W("seniorMint"),
    W("juniorMint"), W("protection"), W("pvault"), W("buyerAta"), W("contract"),
    WS("buyer"), R("tokenProgram"), R("systemProgram")>>

BuyProtectionInstructionDataSwapped ==                 \* mutant: term before notional
  <<Arg("term", "u64"), Arg("notional", "u64"), Arg("nonce", "u64")>>

BuyProtectionInstructionData == <<Arg("notional", "u64"), Arg("term", "u64"), Arg("nonce", "u64")>>

GetBuyProtectionInstruction(input) ==
  Assembled("buyProtection", BuyProtectionInstruction, BuyProtectionInstructionData,
            Filled(input, [tokenProgram |-> TokenProgram, systemProgram |-> SystemProgram]))

GetBuyProtectionInstructionAsync(input) ==
  GetBuyProtectionInstruction(
    Filled(input, [config |-> FindConfigPda, protection |-> FindProtectionPda(input.pool),
                   contract |-> FindContractPda(input.pool, input.buyer, input.nonce)]))

ParseBuyProtectionInstruction(instruction) ==
  Parsed(BuyProtectionInstruction, BuyProtectionInstructionData, instruction)

-----------------------------------------------------------------------------
CreatePoolInstruction ==
  <<R("config"), R("mint"), W("pool"), W("vault"), W("seniorMint"), W("juniorMint"),
    WS("operator"), R("tokenProgram"), R("systemProgram")>>

CreatePoolInstructionData ==
  <<Arg("id", "u16"), Arg("yieldRateBps", "u16"), Arg("seniorRateBps", "u16"),
    Arg("minJuniorBps", "u16"), Arg("perfFeeBps", "u16"), Arg("timeScale", "u32")>>

GetCreatePoolInstruction(input) ==
  Assembled("createPool", CreatePoolInstruction, CreatePoolInstructionData,
            Filled(input, [tokenProgram |-> TokenProgram, systemProgram |-> SystemProgram]))

GetCreatePoolInstructionAsync(input) ==
  LET given == Filled(input, [config |-> FindConfigPda, pool |-> FindPoolPda(input.id)])
  IN  GetCreatePoolInstruction(
        Filled(given, [vault |-> FindVaultPda(given.pool),
                       seniorMint |-> FindSeniorMintPda(given.pool),
                       juniorMint |-> FindJuniorMintPda(given.pool)]))

ParseCreatePoolInstruction(instruction) ==
  Parsed(CreatePoolInstruction, CreatePoolInstructionData, instruction)

-----------------------------------------------------------------------------
DepositInstruction ==
  <<R("config"), W("mint"), W("treasury"), W("pool"), W("vault"), W("seniorMint"),
    W("juniorMint"), W("ownerAta"), W("ownerTrancheAta"), RS("owner"), R("tokenProgram")>>

DepositInstructionData == <<Arg("tranche", "tranche"), Arg("amount", "u64")>>

GetDepositInstruction(input) ==
  Assembled("deposit", DepositInstruction, DepositInstructionData,
            Filled(input, [tokenProgram |-> TokenProgram]))

GetDepositInstructionAsync(input) ==
  GetDepositInstruction(Filled(input, [config |-> FindConfigPda]))

ParseDepositInstruction(instruction) ==
  Parsed(DepositInstruction, DepositInstructionData, instruction)

-----------------------------------------------------------------------------
ExpireProtectionInstruction ==
  <<R("config"), W("mint"), W("treasury"), W("pool"), W("vault"), W("seniorMint"),
    W("juniorMint"), W("protection"), W("contract"), RS("signer"), R("tokenProgram")>>

ExpireProtectionInstructionData == <<>>

GetExpireProtectionInstruction(input) ==
  Assembled("expireProtection", ExpireProtectionInstruction, ExpireProtectionInstructionData,
            Filled(input, [tokenProgram |-> TokenProgram]))

GetExpireProtectionInstructionAsync(input) ==
  GetExpireProtectionInstruction(
    Filled(input, [config |-> FindConfigPda, protection |-> FindProtectionPda(input.pool)]))

ParseExpireProtectionInstruction(instruction) ==
  Parsed(ExpireProtectionInstruction, ExpireProtectionInstructionData, instruction)

-----------------------------------------------------------------------------
FaucetInstruction ==
  <<R("config"), W("mint"), W("ownerAta"), WS("owner"), R("tokenProgram"),
    R("associatedTokenProgram"), R("systemProgram")>>

FaucetInstructionData == <<Arg("amount", "u64")>>

GetFaucetInstruction(input) ==
  Assembled("faucet", FaucetInstruction, FaucetInstructionData,
            Filled(input, [tokenProgram |-> TokenProgram,
                           associatedTokenProgram |-> AssociatedTokenProgram,
                           systemProgram |-> SystemProgram]))

GetFaucetInstructionAsync(input) ==
  GetFaucetInstruction(
    Filled(input, [config |-> FindConfigPda, ownerAta |-> AtaAddress(input.owner, input.mint)]))

ParseFaucetInstruction(instruction) ==
  Parsed(FaucetInstruction, FaucetInstructionData, instruction)

-----------------------------------------------------------------------------
InitConfigInstruction ==
  <<W("config"), W("mint"), W("treasury"), WS("authority"), R("tokenProgram"),
    R("systemProgram")>>

InitConfigInstructionData == <<Arg("faucetCap", "u64")>>

GetInitConfigInstruction(input) ==
  Assembled("initConfig", InitConfigInstruction, InitConfigInstructionData,
            Filled(input, [tokenProgram |-> TokenProgram, systemProgram |-> SystemProgram]))

GetInitConfigInstructionAsync(input) ==
  GetInitConfigInstruction(
    Filled(input, [config |-> FindConfigPda, mint |-> FindMintPda, treasury |-> FindTreasuryPda]))

ParseInitConfigInstruction(instruction) ==
  Parsed(InitConfigInstruction, InitConfigInstructionData, instruction)

-----------------------------------------------------------------------------
InitProtectionInstruction ==
  <<R("pool"), R("mint"), W("protection"), W("pvault"), WS("operator"), R("tokenProgram"),
    R("systemProgram")>>

InitProtectionInstructionData ==
  <<Arg("premiumRateBps", "u16"), Arg("triggerBps", "u16"), Arg("premiumFeeBps", "u16")>>

GetInitProtectionInstruction(input) ==
  Assembled("initProtection", InitProtectionInstruction, InitProtectionInstructionData,
            Filled(input, [tokenProgram |-> TokenProgram, systemProgram |-> SystemProgram]))

GetInitProtectionInstructionAsync(input) ==
  GetInitProtectionInstruction(
    Filled(input, [protection |-> FindProtectionPda(input.pool),
                   pvault |-> FindPvaultPda(input.pool)]))

ParseInitProtectionInstruction(instruction) ==
  Parsed(InitProtectionInstruction, InitProtectionInstructionData, instruction)

-----------------------------------------------------------------------------
ProvideProtectionInstruction ==
  <<R("pool"), W("protection"), W("pvault"), W("ownerAta"), W("position"), WS("owner"),
    R("tokenProgram"), R("systemProgram")>>

ProvideProtectionInstructionData == <<Arg("amount", "u64")>>

GetProvideProtectionInstruction(input) ==
  Assembled("provideProtection", ProvideProtectionInstruction, ProvideProtectionInstructionData,
            Filled(input, [tokenProgram |-> TokenProgram, systemProgram |-> SystemProgram]))

GetProvideProtectionInstructionAsync(input) ==
  GetProvideProtectionInstruction(
    Filled(input, [protection |-> FindProtectionPda(input.pool),
                   position |-> FindPositionPda(input.pool, input.owner)]))

ParseProvideProtectionInstruction(instruction) ==
  Parsed(ProvideProtectionInstruction, ProvideProtectionInstructionData, instruction)

-----------------------------------------------------------------------------
RecordLossInstruction ==
  <<R("config"), W("mint"), W("treasury"), W("pool"), W("vault"), W("seniorMint"),
    W("juniorMint"), W("lossEvent"), WS("operator"), R("tokenProgram"), R("systemProgram")>>

RecordLossInstructionData == <<Arg("lossBps", "u16")>>

GetRecordLossInstruction(input) ==
  Assembled("recordLoss", RecordLossInstruction, RecordLossInstructionData,
            Filled(input, [tokenProgram |-> TokenProgram, systemProgram |-> SystemProgram]))

GetRecordLossInstructionAsync(input) ==
  GetRecordLossInstruction(Filled(input, [config |-> FindConfigPda]))

ParseRecordLossInstruction(instruction) ==
  Parsed(RecordLossInstruction, RecordLossInstructionData, instruction)

-----------------------------------------------------------------------------
RedeemInstruction ==
  <<R("config"), W("mint"), W("treasury"), W("pool"), W("vault"), W("seniorMint"),
    W("juniorMint"), W("ownerAta"), W("ownerTrancheAta"), RS("owner"), R("tokenProgram")>>

RedeemInstructionData == <<Arg("tranche", "tranche"), Arg("shares", "u64")>>

GetRedeemInstruction(input) ==
  Assembled("redeem", RedeemInstruction, RedeemInstructionData,
            Filled(input, [tokenProgram |-> TokenProgram]))

GetRedeemInstructionAsync(input) ==
  GetRedeemInstruction(Filled(input, [config |-> FindConfigPda]))

ParseRedeemInstruction(instruction) ==
  Parsed(RedeemInstruction, RedeemInstructionData, instruction)

-----------------------------------------------------------------------------
SettleProtectionInstruction ==
  <<R("pool"), W("protection"), W("pvault"), W("contract"), R("lossEvent"), W("buyerAta"),
    R("tokenProgram")>>

SettleProtectionInstructionData == <<>>

GetSettleProtectionInstruction(input) ==
  Assembled("settleProtection", SettleProtectionInstruction, SettleProtectionInstructionData,
            Filled(input, [tokenProgram |-> TokenProgram]))

GetSettleProtectionInstructionAsync(input) ==
  GetSettleProtectionInstruction(
    Filled(input, [protection |-> FindProtectionPda(input.pool)]))

ParseSettleProtectionInstruction(instruction) ==
  Parsed(SettleProtectionInstruction, SettleProtectionInstructionData, instruction)

-----------------------------------------------------------------------------
WithdrawProtectionInstruction ==
  <<R("pool"), W("protection"), W("pvault"), W("ownerAta"), W("position"), RS("owner"),
    R("tokenProgram")>>

WithdrawProtectionInstructionData == <<Arg("shares", "u64")>>

GetWithdrawProtectionInstruction(input) ==
  Assembled("withdrawProtection", WithdrawProtectionInstruction, WithdrawProtectionInstructionData,
            Filled(input, [tokenProgram |-> TokenProgram]))

GetWithdrawProtectionInstructionAsync(input) ==
  GetWithdrawProtectionInstruction(
    Filled(input, [protection |-> FindProtectionPda(input.pool),
                   position |-> FindPositionPda(input.pool, input.owner)]))

ParseWithdrawProtectionInstruction(instruction) ==
  Parsed(WithdrawProtectionInstruction, WithdrawProtectionInstructionData, instruction)

-----------------------------------------------------------------------------
(* generated/programs/washapp.ts: the first discriminator that matches the *)
(* data decides; no match is an error.                                     *)
WashappInstructions ==
  {"accrue", "buyProtection", "createPool", "deposit", "expireProtection", "faucet",
   "initConfig", "initProtection", "provideProtection", "recordLoss", "redeem",
   "settleProtection", "withdrawProtection"}

IdentifyWashappInstruction(instruction) ==
  CHOOSE n \in WashappInstructions : n = instruction.data.discriminator

ParseWashappInstruction(instruction) ==
  LET type == IdentifyWashappInstruction(instruction)
  IN  CASE type = "accrue" -> ParseAccrueInstruction(instruction)
        [] type = "buyProtection" -> ParseBuyProtectionInstruction(instruction)
        [] type = "createPool" -> ParseCreatePoolInstruction(instruction)
        [] type = "deposit" -> ParseDepositInstruction(instruction)
        [] type = "expireProtection" -> ParseExpireProtectionInstruction(instruction)
        [] type = "faucet" -> ParseFaucetInstruction(instruction)
        [] type = "initConfig" -> ParseInitConfigInstruction(instruction)
        [] type = "initProtection" -> ParseInitProtectionInstruction(instruction)
        [] type = "provideProtection" -> ParseProvideProtectionInstruction(instruction)
        [] type = "recordLoss" -> ParseRecordLossInstruction(instruction)
        [] type = "redeem" -> ParseRedeemInstruction(instruction)
        [] type = "settleProtection" -> ParseSettleProtectionInstruction(instruction)
        [] type = "withdrawProtection" -> ParseWithdrawProtectionInstruction(instruction)

(* The client plugin offers every instruction with its open addresses      *)
(* filled in.                                                              *)
WashappPlugin(type, input) ==
  CASE type = "accrue" -> GetAccrueInstructionAsync(input)
    [] type = "buyProtection" -> GetBuyProtectionInstructionAsync(input)
    [] type = "createPool" -> GetCreatePoolInstructionAsync(input)
    [] type = "deposit" -> GetDepositInstructionAsync(input)
    [] type = "expireProtection" -> GetExpireProtectionInstructionAsync(input)
    [] type = "faucet" -> GetFaucetInstructionAsync(input)
    [] type = "initConfig" -> GetInitConfigInstructionAsync(input)
    [] type = "initProtection" -> GetInitProtectionInstructionAsync(input)
    [] type = "provideProtection" -> GetProvideProtectionInstructionAsync(input)
    [] type = "recordLoss" -> GetRecordLossInstructionAsync(input)
    [] type = "redeem" -> GetRedeemInstructionAsync(input)
    [] type = "settleProtection" -> GetSettleProtectionInstructionAsync(input)
    [] type = "withdrawProtection" -> GetWithdrawProtectionInstructionAsync(input)

=============================================================================
