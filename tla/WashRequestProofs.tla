------------------------- MODULE WashRequestProofs --------------------------
(***************************************************************************)
(* What a request turns into.  The builders' transaction, through the      *)
(* generated client, gives every role of the program's Accounts struct the *)
(* address that belongs to what was asked for, is signed where a signature *)
(* is asked for, and names the programs that anchor checks.  The order of  *)
(* the accounts, which is all that ties an address to a role, is the same  *)
(* on both sides.                                                          *)
(***************************************************************************)
EXTENDS WashClient, TLAPS

(* The names in a list of accounts or arguments, and those that sign.      *)
Names(list) == {NameOf(list, i) : i \in DOMAIN list}

Signers(metas) == {metas[i].name : i \in {j \in DOMAIN metas : metas[j].signer}}

(* A list as the wire has it: a sequence of some length.                   *)
Listed(metas) == \E m \in Nat : DOMAIN metas = 1 .. m /\ Len(metas) = m

(* What an input must give for the checks that anchor makes itself.        *)
Authorised(metas, input, signers) ==
  /\ \A n \in Signers(metas) : input[n] \in signers
  /\ "tokenProgram" \in Names(metas) => input.tokenProgram = TokenProgram
  /\ "systemProgram" \in Names(metas) => input.systemProgram = SystemProgram
  /\ "associatedTokenProgram" \in Names(metas)
       => input.associatedTokenProgram = AssociatedTokenProgram

(* The instruction of the program in what is sent for a request, and what  *)
(* its handler reads from it.                                              *)
Main(ask) == LET tx == Transaction(ask) IN tx[Len(tx)]

Meaning(ask) == Context(Main(ask))

(* It travels alone, or behind one that opens an account of the token      *)
(* library.                                                                *)
Alone(ask) == Transaction(ask) = <<Main(ask)>>

Opens(ask, mint) == Transaction(ask) = <<CreateAta(ask.who, ask.who, mint), Main(ask)>>

(* It is assembled from the program's own lists, and well formed.          *)
SentAs(ask, input) ==
  Main(ask) = Assembled(ask.op, Accounts[ask.op], Parameters[ask.op], input)

Signed(ask) ==
  /\ \E input : SentAs(ask, input)
  /\ WellFormed(Main(ask), {ask.who})

(* The seven accounts that accruing instructions pin, and the two of the   *)
(* market.                                                                 *)
PinnedTo(c, pool) ==
  /\ c.config = ConfigAddress /\ c.mint = MintAddress /\ c.treasury = TreasuryAddress
  /\ c.pool = pool /\ c.vault = VaultAddress(pool)
  /\ c.seniorMint = SeniorMintAddress(pool) /\ c.juniorMint = JuniorMintAddress(pool)

MarketOf(c, pool) == c.protection = ProtectionAddress(pool) /\ c.pvault = PvaultAddress(pool)

(* Reading a list back by name gives what it was made from.                *)
LEMMA NamedOf ==
  ASSUME NEW list, NEW input
  PROVE  Named(list, [i \in DOMAIN list |-> input[list[i].name]]) = [n
    \in Names(list) |-> input[n]]
<1> DEFINE values == [i \in DOMAIN list |-> input[list[i].name]]
<1>1. ASSUME NEW n \in Names(list)
      PROVE  values[CHOOSE i \in DOMAIN list : NameOf(list, i) = n] = input[n]
  BY <1>1 DEF NameOf, Names
<1> QED
  BY <1>1 DEF Named, Names

(* A handler reads, under every name, what the input gave.                 *)
LEMMA MeaningOf ==
  ASSUME NEW ask, NEW input, SentAs(ask, input)
  PROVE  LET names == Names(Accounts[ask.op]) \cup Names(Parameters[ask.op])
         IN  DOMAIN Meaning(ask) = names /\ \A n \in names : Meaning(ask)[n] = input[n]
<1> DEFINE metas == Accounts[ask.op]
           args == Parameters[ask.op]
           ix == Main(ask)
<1>1. /\ ix.data.discriminator = ask.op
      /\ \A i \in DOMAIN metas : ix.accounts[i].address = input[metas[i].name]
      /\ \A i \in DOMAIN args : ix.data.args[i].value = input[args[i].name]
  BY DEF SentAs, Assembled
<1> HIDE DEF ix
<1>2. /\ [i \in DOMAIN metas |-> ix.accounts[i].address]
           = [i \in DOMAIN metas |-> input[metas[i].name]]
      /\ [i \in DOMAIN args |-> ix.data.args[i].value]
           = [i \in DOMAIN args |-> input[args[i].name]]
  BY <1>1
<1>3. Context(ix) = Filled([n \in Names(metas) |-> input[n]], [n \in Names(args) |-> input[n]])
  BY <1>1, <1>2, NamedOf DEF Context
<1> QED
  BY <1>3 DEF Filled, Meaning, ix

(* An input that gives what anchor asks for makes a well-formed            *)
(* instruction.                                                            *)
LEMMA WellFormedOf ==
  ASSUME NEW name, NEW input, NEW signers, Listed(Accounts[name]),
         Authorised(Accounts[name], input, signers)
  PROVE  WellFormed(Assembled(name, Accounts[name], Parameters[name], input), signers)
<1>m. PICK m \in Nat : DOMAIN Accounts[name] = 1 .. m /\ Len(Accounts[name]) = m
  BY DEF Listed
<1> DEFINE metas == Accounts[name]
           args == Parameters[name]
           ix == Assembled(name, metas, args, input)
<1>1. /\ ix.data.discriminator = name
      /\ ix.accounts = [i \in DOMAIN metas |->
                          [address |-> input[metas[i].name], writable |-> metas[i].writable,
                           signer |-> metas[i].signer]]
      /\ ix.data.args = [i \in DOMAIN args |->
                           [type |-> args[i].type, value |-> input[args[i].name]]]
  BY DEF Assembled
<1>2. Len(ix.accounts) = m
  BY <1>m, <1>1
<1>3. \A i \in DOMAIN metas : /\ ix.accounts[i].address = input[metas[i].name]
                              /\ ix.accounts[i].writable = metas[i].writable
                              /\ ix.accounts[i].signer = metas[i].signer
  BY <1>1
<1>4. [i \in DOMAIN ix.data.args |-> ix.data.args[i].type] = [i \in DOMAIN args |-> args[i].type]
  BY <1>1
<1>5. \A i \in DOMAIN metas : metas[i].name \in Names(metas)
                              /\ (metas[i].signer => metas[i].name \in Signers(metas))
  BY DEF Names, NameOf, Signers
<1> HIDE DEF ix, metas, args
<1>6. ASSUME NEW i \in DOMAIN metas
      PROVE  LET meta == ix.accounts[i]
             IN  /\ metas[i].signer => meta.signer /\ meta.address \in signers
                 /\ metas[i].writable => meta.writable
                 /\ metas[i].name = "tokenProgram" => meta.address = TokenProgram
                 /\ metas[i].name = "systemProgram" => meta.address = SystemProgram
                 /\ metas[i].name = "associatedTokenProgram"
                      => meta.address = AssociatedTokenProgram
  BY <1>3, <1>5 DEF metas, Authorised
<1> QED
  BY <1>m, <1>1, <1>2, <1>4, <1>6 DEF WellFormed, ix, metas, args

(* What is filled in: a field given stays, a default stands where nothing  *)
(* was given, and nothing else appears.                                    *)
LEMMA FilledGiven ==
  ASSUME NEW given, NEW defaults, NEW n \in DOMAIN given
  PROVE  n \in DOMAIN Filled(given, defaults) /\ Filled(given, defaults)[n] = given[n]
BY DEF Filled

LEMMA FilledDefault ==
  ASSUME NEW given, NEW defaults, NEW n \in DOMAIN defaults
  PROVE  /\ n \in DOMAIN Filled(given, defaults)
         /\ n \notin DOMAIN given => Filled(given, defaults)[n] = defaults[n]
BY DEF Filled

LEMMA FilledDomain ==
  ASSUME NEW given, NEW defaults
  PROVE  DOMAIN Filled(given, defaults) = DOMAIN given \cup DOMAIN defaults
BY DEF Filled

LEMMA FilledTwice ==
  ASSUME NEW first, NEW second, NEW third
  PROVE  LET all == Filled(Filled(first, second), third)
         IN  /\ \A n \in DOMAIN first : all[n] = first[n]
             /\ \A n \in DOMAIN second : n \notin DOMAIN first => all[n] = second[n]
             /\ \A n \in DOMAIN third :
                  n \notin DOMAIN first /\ n \notin DOMAIN second => all[n] = third[n]
<1> DEFINE both == Filled(first, second)
<1>1. DOMAIN both = DOMAIN first \cup DOMAIN second
  BY FilledDomain
<1>2. /\ \A n \in DOMAIN first : both[n] = first[n]
      /\ \A n \in DOMAIN second : n \notin DOMAIN first => both[n] = second[n]
  BY FilledGiven, FilledDefault
<1> HIDE DEF both
<1>3. \A n \in DOMAIN both : Filled(both, third)[n] = both[n]
  BY FilledGiven
<1>4. \A n \in DOMAIN third : n \notin DOMAIN both => Filled(both, third)[n] = third[n]
  BY FilledDefault
<1> QED
  BY <1>1, <1>2, <1>3, <1>4 DEF both

(* The addresses that follow from the number of a pool.                    *)
LEMMA PoolAccountsAre ==
  ASSUME NEW id
  PROVE  LET a == PoolAccounts(id)
             pool == PoolAddress(id)
         IN  /\ a.config = ConfigAddress /\ a.mint = MintAddress /\ a.treasury = TreasuryAddress
             /\ a.pool = pool /\ a.vault = VaultAddress(pool)
             /\ a.seniorMint = SeniorMintAddress(pool) /\ a.juniorMint = JuniorMintAddress(pool)
             /\ DOMAIN a = {"config", "mint", "treasury", "pool", "vault", "seniorMint",
                            "juniorMint"}
BY DEF PoolAccounts

LEMMA ProtectionAccountsAre ==
  ASSUME NEW id
  PROVE  LET a == ProtectionAccounts(id)
             p == PoolAccounts(id)
         IN  /\ \A n \in DOMAIN p : a[n] = p[n]
             /\ a.protection = ProtectionAddress(p.pool) /\ a.pvault = PvaultAddress(p.pool)
             /\ DOMAIN a = DOMAIN p \cup {"protection", "pvault"}
<1> DEFINE p == PoolAccounts(id)
           more == [protection |-> ProtectionAddress(p.pool), pvault |-> PvaultAddress(p.pool)]
<1>1. more.protection = ProtectionAddress(p.pool) /\ more.pvault = PvaultAddress(p.pool)
      /\ DOMAIN more = {"protection", "pvault"}
  OBVIOUS
<1>2. "protection" \notin DOMAIN p /\ "pvault" \notin DOMAIN p
  BY PoolAccountsAre
<1>3. ProtectionAccounts(id) = Filled(p, more)
  BY DEF ProtectionAccounts
<1> HIDE DEF p, more
<1>4. \A n \in DOMAIN p : Filled(p, more)[n] = p[n]
  BY FilledGiven
<1>5. Filled(p, more).protection = more.protection /\ Filled(p, more).pvault = more.pvault
  BY <1>1, <1>2, FilledDefault
<1>6. DOMAIN Filled(p, more) = DOMAIN p \cup {"protection", "pvault"}
  BY <1>1, FilledDomain
<1> QED
  BY <1>1, <1>3, <1>4, <1>5, <1>6 DEF p

LEMMA MarketAccountsAre ==
  ASSUME NEW id
  PROVE  LET a == MarketAccounts(id)
             pool == PoolAddress(id)
         IN  /\ a.pool = pool /\ a.protection = ProtectionAddress(pool)
             /\ a.pvault = PvaultAddress(pool)
             /\ DOMAIN a = {"pool", "protection", "pvault"}
BY PoolAccountsAre, ProtectionAccountsAre DEF MarketAccounts, Only

(* The lists of the generated client and of the program are the same,      *)
(* instruction by instruction: names, order, signers and what may be       *)
(* written.                                                                *)
LEMMA InitConfigStruct ==
  /\ Accounts["initConfig"] = InitConfigInstruction
  /\ Parameters["initConfig"] = InitConfigInstructionData
  /\ DOMAIN InitConfigInstruction = 1 .. 6 /\ Len(InitConfigInstruction) = 6
  /\ Names(InitConfigInstruction) = {"config", "mint", "treasury", "authority",
         "tokenProgram", "systemProgram"}
  /\ Names(InitConfigInstructionData) = {"faucetCap"}
  /\ Signers(InitConfigInstruction) = {"authority"}
<1>1. Accounts["initConfig"] = InitConfigInstruction
  BY DEF Accounts, InitConfigAccounts, InitConfigInstruction
<1>2. Parameters["initConfig"] = InitConfigInstructionData
  BY DEF Parameters, InitConfigInstructionData
<1>3. DOMAIN InitConfigInstruction = 1 .. 6 /\ Len(InitConfigInstruction) = 6
  BY DEF InitConfigInstruction
<1>4. Names(InitConfigInstruction) = {"config", "mint", "treasury", "authority",
         "tokenProgram", "systemProgram"}
  BY DEF Names, NameOf, InitConfigInstruction, R, W, RS, WS
<1>5. Names(InitConfigInstructionData) = {"faucetCap"}
  BY DEF Names, NameOf, InitConfigInstructionData, Arg
<1>6. Signers(InitConfigInstruction) = {"authority"}
  BY DEF Signers, InitConfigInstruction, R, W, RS, WS
<1> QED
  BY <1>1, <1>2, <1>3, <1>4, <1>5, <1>6

LEMMA FaucetStruct ==
  /\ Accounts["faucet"] = FaucetInstruction
  /\ Parameters["faucet"] = FaucetInstructionData
  /\ DOMAIN FaucetInstruction = 1 .. 7 /\ Len(FaucetInstruction) = 7
  /\ Names(FaucetInstruction) = {"config", "mint", "ownerAta", "owner", "tokenProgram",
         "associatedTokenProgram", "systemProgram"}
  /\ Names(FaucetInstructionData) = {"amount"}
  /\ Signers(FaucetInstruction) = {"owner"}
<1>1. Accounts["faucet"] = FaucetInstruction
  BY DEF Accounts, FaucetAccounts, FaucetInstruction
<1>2. Parameters["faucet"] = FaucetInstructionData
  BY DEF Parameters, FaucetInstructionData
<1>3. DOMAIN FaucetInstruction = 1 .. 7 /\ Len(FaucetInstruction) = 7
  BY DEF FaucetInstruction
<1>4. Names(FaucetInstruction) = {"config", "mint", "ownerAta", "owner", "tokenProgram",
         "associatedTokenProgram", "systemProgram"}
  BY DEF Names, NameOf, FaucetInstruction, R, W, RS, WS
<1>5. Names(FaucetInstructionData) = {"amount"}
  BY DEF Names, NameOf, FaucetInstructionData, Arg
<1>6. Signers(FaucetInstruction) = {"owner"}
  BY DEF Signers, FaucetInstruction, R, W, RS, WS
<1> QED
  BY <1>1, <1>2, <1>3, <1>4, <1>5, <1>6

LEMMA CreatePoolStruct ==
  /\ Accounts["createPool"] = CreatePoolInstruction
  /\ Parameters["createPool"] = CreatePoolInstructionData
  /\ DOMAIN CreatePoolInstruction = 1 .. 9 /\ Len(CreatePoolInstruction) = 9
  /\ Names(CreatePoolInstruction) = {"config", "mint", "pool", "vault", "seniorMint",
         "juniorMint", "operator", "tokenProgram", "systemProgram"}
  /\ Names(CreatePoolInstructionData) = {"id", "yieldRateBps", "seniorRateBps", "minJuniorBps",
       "perfFeeBps", "timeScale"}
  /\ Signers(CreatePoolInstruction) = {"operator"}
<1>1. Accounts["createPool"] = CreatePoolInstruction
  BY DEF Accounts, CreatePoolAccounts, CreatePoolInstruction
<1>2. Parameters["createPool"] = CreatePoolInstructionData
  BY DEF Parameters, CreatePoolInstructionData
<1>3. DOMAIN CreatePoolInstruction = 1 .. 9 /\ Len(CreatePoolInstruction) = 9
  BY DEF CreatePoolInstruction
<1>4. Names(CreatePoolInstruction) = {"config", "mint", "pool", "vault", "seniorMint",
         "juniorMint", "operator", "tokenProgram", "systemProgram"}
  BY DEF Names, NameOf, CreatePoolInstruction, R, W, RS, WS
<1>5. Names(CreatePoolInstructionData) = {"id", "yieldRateBps", "seniorRateBps", "minJuniorBps",
        "perfFeeBps", "timeScale"}
  BY DEF Names, NameOf, CreatePoolInstructionData, Arg
<1>6. Signers(CreatePoolInstruction) = {"operator"}
  BY DEF Signers, CreatePoolInstruction, R, W, RS, WS
<1> QED
  BY <1>1, <1>2, <1>3, <1>4, <1>5, <1>6

LEMMA AccrueStruct ==
  /\ Accounts["accrue"] = AccrueInstruction
  /\ Parameters["accrue"] = AccrueInstructionData
  /\ DOMAIN AccrueInstruction = 1 .. 8 /\ Len(AccrueInstruction) = 8
  /\ Names(AccrueInstruction) = {"config", "mint", "treasury", "pool", "vault", "seniorMint",
         "juniorMint", "tokenProgram"}
  /\ Names(AccrueInstructionData) = {}
  /\ Signers(AccrueInstruction) = {}
<1>1. Accounts["accrue"] = AccrueInstruction
  BY DEF Accounts, AccrueAccounts, AccrueInstruction
<1>2. Parameters["accrue"] = AccrueInstructionData
  BY DEF Parameters, AccrueInstructionData
<1>3. DOMAIN AccrueInstruction = 1 .. 8 /\ Len(AccrueInstruction) = 8
  BY DEF AccrueInstruction
<1>4. Names(AccrueInstruction) = {"config", "mint", "treasury", "pool", "vault", "seniorMint",
         "juniorMint", "tokenProgram"}
  BY DEF Names, NameOf, AccrueInstruction, R, W, RS, WS
<1>5. Names(AccrueInstructionData) = {}
  BY DEF Names, NameOf, AccrueInstructionData, Arg
<1>6. Signers(AccrueInstruction) = {}
  BY DEF Signers, AccrueInstruction, R, W, RS, WS
<1> QED
  BY <1>1, <1>2, <1>3, <1>4, <1>5, <1>6

LEMMA DepositStruct ==
  /\ Accounts["deposit"] = DepositInstruction
  /\ Parameters["deposit"] = DepositInstructionData
  /\ DOMAIN DepositInstruction = 1 .. 11 /\ Len(DepositInstruction) = 11
  /\ Names(DepositInstruction) = {"config", "mint", "treasury", "pool", "vault", "seniorMint",
         "juniorMint", "ownerAta", "ownerTrancheAta", "owner", "tokenProgram"}
  /\ Names(DepositInstructionData) = {"tranche", "amount"}
  /\ Signers(DepositInstruction) = {"owner"}
<1>1. Accounts["deposit"] = DepositInstruction
  BY DEF Accounts, DepositAccounts, DepositInstruction
<1>2. Parameters["deposit"] = DepositInstructionData
  BY DEF Parameters, DepositInstructionData
<1>3. DOMAIN DepositInstruction = 1 .. 11 /\ Len(DepositInstruction) = 11
  BY DEF DepositInstruction
<1>4. Names(DepositInstruction) = {"config", "mint", "treasury", "pool", "vault",
         "seniorMint", "juniorMint", "ownerAta", "ownerTrancheAta", "owner", "tokenProgram"}
  BY DEF Names, NameOf, DepositInstruction, R, W, RS, WS
<1>5. Names(DepositInstructionData) = {"tranche", "amount"}
  BY DEF Names, NameOf, DepositInstructionData, Arg
<1>6. Signers(DepositInstruction) = {"owner"}
  BY DEF Signers, DepositInstruction, R, W, RS, WS
<1> QED
  BY <1>1, <1>2, <1>3, <1>4, <1>5, <1>6

LEMMA RedeemStruct ==
  /\ Accounts["redeem"] = RedeemInstruction
  /\ Parameters["redeem"] = RedeemInstructionData
  /\ DOMAIN RedeemInstruction = 1 .. 11 /\ Len(RedeemInstruction) = 11
  /\ Names(RedeemInstruction) = {"config", "mint", "treasury", "pool", "vault", "seniorMint",
         "juniorMint", "ownerAta", "ownerTrancheAta", "owner", "tokenProgram"}
  /\ Names(RedeemInstructionData) = {"tranche", "shares"}
  /\ Signers(RedeemInstruction) = {"owner"}
<1>1. Accounts["redeem"] = RedeemInstruction
  BY DEF Accounts, RedeemAccounts, RedeemInstruction
<1>2. Parameters["redeem"] = RedeemInstructionData
  BY DEF Parameters, RedeemInstructionData
<1>3. DOMAIN RedeemInstruction = 1 .. 11 /\ Len(RedeemInstruction) = 11
  BY DEF RedeemInstruction
<1>4. Names(RedeemInstruction) = {"config", "mint", "treasury", "pool", "vault", "seniorMint",
         "juniorMint", "ownerAta", "ownerTrancheAta", "owner", "tokenProgram"}
  BY DEF Names, NameOf, RedeemInstruction, R, W, RS, WS
<1>5. Names(RedeemInstructionData) = {"tranche", "shares"}
  BY DEF Names, NameOf, RedeemInstructionData, Arg
<1>6. Signers(RedeemInstruction) = {"owner"}
  BY DEF Signers, RedeemInstruction, R, W, RS, WS
<1> QED
  BY <1>1, <1>2, <1>3, <1>4, <1>5, <1>6

LEMMA RecordLossStruct ==
  /\ Accounts["recordLoss"] = RecordLossInstruction
  /\ Parameters["recordLoss"] = RecordLossInstructionData
  /\ DOMAIN RecordLossInstruction = 1 .. 11 /\ Len(RecordLossInstruction) = 11
  /\ Names(RecordLossInstruction) = {"config", "mint", "treasury", "pool", "vault",
         "seniorMint", "juniorMint", "lossEvent", "operator", "tokenProgram", "systemProgram"}
  /\ Names(RecordLossInstructionData) = {"lossBps"}
  /\ Signers(RecordLossInstruction) = {"operator"}
<1>1. Accounts["recordLoss"] = RecordLossInstruction
  BY DEF Accounts, RecordLossAccounts, RecordLossInstruction
<1>2. Parameters["recordLoss"] = RecordLossInstructionData
  BY DEF Parameters, RecordLossInstructionData
<1>3. DOMAIN RecordLossInstruction = 1 .. 11 /\ Len(RecordLossInstruction) = 11
  BY DEF RecordLossInstruction
<1>4. Names(RecordLossInstruction) = {"config", "mint", "treasury", "pool", "vault",
         "seniorMint", "juniorMint", "lossEvent", "operator", "tokenProgram", "systemProgram"}
  BY DEF Names, NameOf, RecordLossInstruction, R, W, RS, WS
<1>5. Names(RecordLossInstructionData) = {"lossBps"}
  BY DEF Names, NameOf, RecordLossInstructionData, Arg
<1>6. Signers(RecordLossInstruction) = {"operator"}
  BY DEF Signers, RecordLossInstruction, R, W, RS, WS
<1> QED
  BY <1>1, <1>2, <1>3, <1>4, <1>5, <1>6

LEMMA InitProtectionStruct ==
  /\ Accounts["initProtection"] = InitProtectionInstruction
  /\ Parameters["initProtection"] = InitProtectionInstructionData
  /\ DOMAIN InitProtectionInstruction = 1 .. 7 /\ Len(InitProtectionInstruction) = 7
  /\ Names(InitProtectionInstruction) = {"pool", "mint", "protection", "pvault", "operator",
         "tokenProgram", "systemProgram"}
  /\ Names(InitProtectionInstructionData) = {"premiumRateBps", "triggerBps", "premiumFeeBps"}
  /\ Signers(InitProtectionInstruction) = {"operator"}
<1>1. Accounts["initProtection"] = InitProtectionInstruction
  BY DEF Accounts, InitProtectionAccounts, InitProtectionInstruction
<1>2. Parameters["initProtection"] = InitProtectionInstructionData
  BY DEF Parameters, InitProtectionInstructionData
<1>3. DOMAIN InitProtectionInstruction = 1 .. 7 /\ Len(InitProtectionInstruction) = 7
  BY DEF InitProtectionInstruction
<1>4. Names(InitProtectionInstruction) = {"pool", "mint", "protection", "pvault", "operator",
         "tokenProgram", "systemProgram"}
  BY DEF Names, NameOf, InitProtectionInstruction, R, W, RS, WS
<1>5. Names(InitProtectionInstructionData) = {"premiumRateBps", "triggerBps", "premiumFeeBps"}
  BY DEF Names, NameOf, InitProtectionInstructionData, Arg
<1>6. Signers(InitProtectionInstruction) = {"operator"}
  BY DEF Signers, InitProtectionInstruction, R, W, RS, WS
<1> QED
  BY <1>1, <1>2, <1>3, <1>4, <1>5, <1>6

LEMMA ProvideProtectionStruct ==
  /\ Accounts["provideProtection"] = ProvideProtectionInstruction
  /\ Parameters["provideProtection"] = ProvideProtectionInstructionData
  /\ DOMAIN ProvideProtectionInstruction = 1 .. 8 /\ Len(ProvideProtectionInstruction) = 8
  /\ Names(ProvideProtectionInstruction) = {"pool", "protection", "pvault", "ownerAta",
         "position", "owner", "tokenProgram", "systemProgram"}
  /\ Names(ProvideProtectionInstructionData) = {"amount"}
  /\ Signers(ProvideProtectionInstruction) = {"owner"}
<1>1. Accounts["provideProtection"] = ProvideProtectionInstruction
  BY DEF Accounts, ProvideProtectionAccounts, ProvideProtectionInstruction
<1>2. Parameters["provideProtection"] = ProvideProtectionInstructionData
  BY DEF Parameters, ProvideProtectionInstructionData
<1>3. DOMAIN ProvideProtectionInstruction = 1 .. 8 /\ Len(ProvideProtectionInstruction) = 8
  BY DEF ProvideProtectionInstruction
<1>4. Names(ProvideProtectionInstruction) = {"pool", "protection", "pvault", "ownerAta",
         "position", "owner", "tokenProgram", "systemProgram"}
  BY DEF Names, NameOf, ProvideProtectionInstruction, R, W, RS, WS
<1>5. Names(ProvideProtectionInstructionData) = {"amount"}
  BY DEF Names, NameOf, ProvideProtectionInstructionData, Arg
<1>6. Signers(ProvideProtectionInstruction) = {"owner"}
  BY DEF Signers, ProvideProtectionInstruction, R, W, RS, WS
<1> QED
  BY <1>1, <1>2, <1>3, <1>4, <1>5, <1>6

LEMMA WithdrawProtectionStruct ==
  /\ Accounts["withdrawProtection"] = WithdrawProtectionInstruction
  /\ Parameters["withdrawProtection"] = WithdrawProtectionInstructionData
  /\ DOMAIN WithdrawProtectionInstruction = 1 .. 7 /\ Len(WithdrawProtectionInstruction) = 7
  /\ Names(WithdrawProtectionInstruction) = {"pool", "protection", "pvault", "ownerAta",
         "position", "owner", "tokenProgram"}
  /\ Names(WithdrawProtectionInstructionData) = {"shares"}
  /\ Signers(WithdrawProtectionInstruction) = {"owner"}
<1>1. Accounts["withdrawProtection"] = WithdrawProtectionInstruction
  BY DEF Accounts, WithdrawProtectionAccounts, WithdrawProtectionInstruction
<1>2. Parameters["withdrawProtection"] = WithdrawProtectionInstructionData
  BY DEF Parameters, WithdrawProtectionInstructionData
<1>3. DOMAIN WithdrawProtectionInstruction = 1 .. 7 /\ Len(WithdrawProtectionInstruction) = 7
  BY DEF WithdrawProtectionInstruction
<1>4. Names(WithdrawProtectionInstruction) = {"pool", "protection", "pvault", "ownerAta",
         "position", "owner", "tokenProgram"}
  BY DEF Names, NameOf, WithdrawProtectionInstruction, R, W, RS, WS
<1>5. Names(WithdrawProtectionInstructionData) = {"shares"}
  BY DEF Names, NameOf, WithdrawProtectionInstructionData, Arg
<1>6. Signers(WithdrawProtectionInstruction) = {"owner"}
  BY DEF Signers, WithdrawProtectionInstruction, R, W, RS, WS
<1> QED
  BY <1>1, <1>2, <1>3, <1>4, <1>5, <1>6

LEMMA BuyProtectionStruct ==
  /\ Accounts["buyProtection"] = BuyProtectionInstruction
  /\ Parameters["buyProtection"] = BuyProtectionInstructionData
  /\ DOMAIN BuyProtectionInstruction = 1 .. 14 /\ Len(BuyProtectionInstruction) = 14
  /\ Names(BuyProtectionInstruction) = {"config", "mint", "treasury", "pool", "vault",
         "seniorMint", "juniorMint", "protection", "pvault", "buyerAta", "contract", "buyer",
         "tokenProgram", "systemProgram"}
  /\ Names(BuyProtectionInstructionData) = {"notional", "term", "nonce"}
  /\ Signers(BuyProtectionInstruction) = {"buyer"}
<1>1. Accounts["buyProtection"] = BuyProtectionInstruction
  BY DEF Accounts, BuyProtectionAccounts, BuyProtectionInstruction
<1>2. Parameters["buyProtection"] = BuyProtectionInstructionData
  BY DEF Parameters, BuyProtectionInstructionData
<1>3. DOMAIN BuyProtectionInstruction = 1 .. 14 /\ Len(BuyProtectionInstruction) = 14
  BY DEF BuyProtectionInstruction
<1>4. Names(BuyProtectionInstruction) = {"config", "mint", "treasury", "pool", "vault",
         "seniorMint", "juniorMint", "protection", "pvault", "buyerAta", "contract", "buyer",
         "tokenProgram", "systemProgram"}
  BY DEF Names, NameOf, BuyProtectionInstruction, R, W, RS, WS
<1>5. Names(BuyProtectionInstructionData) = {"notional", "term", "nonce"}
  BY DEF Names, NameOf, BuyProtectionInstructionData, Arg
<1>6. Signers(BuyProtectionInstruction) = {"buyer"}
  BY DEF Signers, BuyProtectionInstruction, R, W, RS, WS
<1> QED
  BY <1>1, <1>2, <1>3, <1>4, <1>5, <1>6

LEMMA SettleProtectionStruct ==
  /\ Accounts["settleProtection"] = SettleProtectionInstruction
  /\ Parameters["settleProtection"] = SettleProtectionInstructionData
  /\ DOMAIN SettleProtectionInstruction = 1 .. 7 /\ Len(SettleProtectionInstruction) = 7
  /\ Names(SettleProtectionInstruction) = {"pool", "protection", "pvault", "contract",
         "lossEvent", "buyerAta", "tokenProgram"}
  /\ Names(SettleProtectionInstructionData) = {}
  /\ Signers(SettleProtectionInstruction) = {}
<1>1. Accounts["settleProtection"] = SettleProtectionInstruction
  BY DEF Accounts, SettleProtectionAccounts, SettleProtectionInstruction
<1>2. Parameters["settleProtection"] = SettleProtectionInstructionData
  BY DEF Parameters, SettleProtectionInstructionData
<1>3. DOMAIN SettleProtectionInstruction = 1 .. 7 /\ Len(SettleProtectionInstruction) = 7
  BY DEF SettleProtectionInstruction
<1>4. Names(SettleProtectionInstruction) = {"pool", "protection", "pvault", "contract",
         "lossEvent", "buyerAta", "tokenProgram"}
  BY DEF Names, NameOf, SettleProtectionInstruction, R, W, RS, WS
<1>5. Names(SettleProtectionInstructionData) = {}
  BY DEF Names, NameOf, SettleProtectionInstructionData, Arg
<1>6. Signers(SettleProtectionInstruction) = {}
  BY DEF Signers, SettleProtectionInstruction, R, W, RS, WS
<1> QED
  BY <1>1, <1>2, <1>3, <1>4, <1>5, <1>6

LEMMA ExpireProtectionStruct ==
  /\ Accounts["expireProtection"] = ExpireProtectionInstruction
  /\ Parameters["expireProtection"] = ExpireProtectionInstructionData
  /\ DOMAIN ExpireProtectionInstruction = 1 .. 11 /\ Len(ExpireProtectionInstruction) = 11
  /\ Names(ExpireProtectionInstruction) = {"config", "mint", "treasury", "pool", "vault",
         "seniorMint", "juniorMint", "protection", "contract", "signer", "tokenProgram"}
  /\ Names(ExpireProtectionInstructionData) = {}
  /\ Signers(ExpireProtectionInstruction) = {"signer"}
<1>1. Accounts["expireProtection"] = ExpireProtectionInstruction
  BY DEF Accounts, ExpireProtectionAccounts, ExpireProtectionInstruction
<1>2. Parameters["expireProtection"] = ExpireProtectionInstructionData
  BY DEF Parameters, ExpireProtectionInstructionData
<1>3. DOMAIN ExpireProtectionInstruction = 1 .. 11 /\ Len(ExpireProtectionInstruction) = 11
  BY DEF ExpireProtectionInstruction
<1>4. Names(ExpireProtectionInstruction) = {"config", "mint", "treasury", "pool", "vault",
         "seniorMint", "juniorMint", "protection", "contract", "signer", "tokenProgram"}
  BY DEF Names, NameOf, ExpireProtectionInstruction, R, W, RS, WS
<1>5. Names(ExpireProtectionInstructionData) = {}
  BY DEF Names, NameOf, ExpireProtectionInstructionData, Arg
<1>6. Signers(ExpireProtectionInstruction) = {"signer"}
  BY DEF Signers, ExpireProtectionInstruction, R, W, RS, WS
<1> QED
  BY <1>1, <1>2, <1>3, <1>4, <1>5, <1>6

(* What the handler reads from a request, instruction by instruction: each *)
(* role gets the address that belongs to the pool, the person and the      *)
(* number that were asked for.                                             *)
LEMMA InitConfigMeans ==
  ASSUME NEW ask, ask.op = "initConfig"
  PROVE  LET c == Meaning(ask)
             pool == PoolAddress(ask.pool)
         IN  /\ Signed(ask)
             /\ Alone(ask)
             /\ c.config = ConfigAddress /\ c.mint = MintAddress
             /\ c.treasury = TreasuryAddress /\ c.authority = ask.who
<1> DEFINE pool == PoolAddress(ask.pool)
           accounts == [authority |-> ask.who,
                       faucetCap |-> "faucetCap"]
           given == [config |-> FindConfigPda,
                    mint |-> FindMintPda,
                    treasury |-> FindTreasuryPda]
           programs == [tokenProgram |-> TokenProgram,
                       systemProgram |-> SystemProgram]
           input == Filled(Filled(accounts, given), programs)
<1>1. Transaction(ask)
        = <<Assembled("initConfig", InitConfigInstruction, InitConfigInstructionData, input)>>
  BY DEF Transaction, BuildInitConfig, GetInitConfigInstruction, GetInitConfigInstructionAsync
<1>2. /\ accounts.authority = ask.who /\ accounts.faucetCap = "faucetCap"
      /\ DOMAIN accounts = {"authority", "faucetCap"}
  OBVIOUS
<1> HIDE DEF accounts
<1>3. /\ given.config = FindConfigPda /\ given.mint = FindMintPda
      /\ given.treasury = FindTreasuryPda
      /\ DOMAIN given = {"config", "mint", "treasury"}
  OBVIOUS
<1> HIDE DEF given
<1>4. /\ programs.tokenProgram = TokenProgram /\ programs.systemProgram = SystemProgram
      /\ DOMAIN programs = {"tokenProgram", "systemProgram"}
  OBVIOUS
<1> HIDE DEF programs
<1>5. /\ \A n \in DOMAIN accounts : input[n] = accounts[n]
      /\ \A n \in DOMAIN given : n \notin DOMAIN accounts => input[n] = given[n]
      /\ \A n \in DOMAIN programs :
           n \notin DOMAIN accounts /\ n \notin DOMAIN given => input[n] = programs[n]
  BY FilledTwice
<1> HIDE DEF input
<1>6. /\ input.config = ConfigAddress /\ input.mint = MintAddress
      /\ input.treasury = TreasuryAddress /\ input.authority = ask.who
  BY <1>2, <1>3, <1>5 DEF Pda, ConfigAddress, MintAddress, TreasuryAddress, FindConfigPda,
     FindMintPda, FindTreasuryPda
<1>7. /\ input.tokenProgram = TokenProgram /\ input.systemProgram = SystemProgram
  BY <1>2, <1>3, <1>4, <1>5
<1>8. SentAs(ask, input) /\ Alone(ask)
  BY <1>1, InitConfigStruct DEF SentAs, Main, Alone
<1>9. \A n \in Names(Accounts[ask.op]) \cup Names(Parameters[ask.op]) : Meaning(ask)[n] = input[n]
  BY <1>8, MeaningOf
<1>10. LET c == Meaning(ask)
       IN  /\ c.config = ConfigAddress /\ c.mint = MintAddress
           /\ c.treasury = TreasuryAddress /\ c.authority = ask.who
  BY <1>6, <1>9, InitConfigStruct
<1>11. Listed(Accounts[ask.op]) /\ Authorised(Accounts[ask.op], input, {ask.who})
  BY <1>6, <1>7, InitConfigStruct DEF Listed, Authorised
<1> QED
  BY <1>8, <1>10, <1>11, WellFormedOf DEF Signed, SentAs

LEMMA FaucetMeans ==
  ASSUME NEW ask, ask.op = "faucet"
  PROVE  LET c == Meaning(ask)
             pool == PoolAddress(ask.pool)
         IN  /\ Signed(ask)
             /\ Alone(ask)
             /\ c.config = ConfigAddress /\ c.mint = MintAddress
             /\ c.ownerAta = AtaAddress(ask.who, MintAddress) /\ c.owner = ask.who
<1> DEFINE pool == PoolAddress(ask.pool)
           accounts == [mint |-> MintAddress,
                       owner |-> ask.who,
                       amount |-> "amount"]
           given == [config |-> FindConfigPda,
                    ownerAta |-> AtaAddress(accounts.owner, accounts.mint)]
           programs == [tokenProgram |-> TokenProgram,
                       associatedTokenProgram |-> AssociatedTokenProgram,
                       systemProgram |-> SystemProgram]
           input == Filled(Filled(accounts, given), programs)
<1>1. Transaction(ask)
        = <<Assembled("faucet", FaucetInstruction, FaucetInstructionData, input)>>
  BY DEF Transaction, BuildFaucet, GetFaucetInstruction, GetFaucetInstructionAsync
<1>2. /\ accounts.mint = MintAddress /\ accounts.owner = ask.who
      /\ accounts.amount = "amount"
      /\ DOMAIN accounts = {"mint", "owner", "amount"}
  OBVIOUS
<1> HIDE DEF accounts
<1>3. /\ given.config = FindConfigPda
      /\ given.ownerAta = AtaAddress(accounts.owner, accounts.mint)
      /\ DOMAIN given = {"config", "ownerAta"}
  OBVIOUS
<1> HIDE DEF given
<1>4. /\ programs.tokenProgram = TokenProgram
      /\ programs.associatedTokenProgram = AssociatedTokenProgram
      /\ programs.systemProgram = SystemProgram
      /\ DOMAIN programs = {"tokenProgram", "associatedTokenProgram", "systemProgram"}
  OBVIOUS
<1> HIDE DEF programs
<1>5. /\ \A n \in DOMAIN accounts : input[n] = accounts[n]
      /\ \A n \in DOMAIN given : n \notin DOMAIN accounts => input[n] = given[n]
      /\ \A n \in DOMAIN programs :
           n \notin DOMAIN accounts /\ n \notin DOMAIN given => input[n] = programs[n]
  BY FilledTwice
<1> HIDE DEF input
<1>6. /\ input.config = ConfigAddress /\ input.mint = MintAddress
      /\ input.ownerAta = AtaAddress(ask.who, MintAddress) /\ input.owner = ask.who
  BY <1>2, <1>3, <1>5 DEF Pda, ConfigAddress, FindConfigPda
<1>7. /\ input.tokenProgram = TokenProgram
      /\ input.associatedTokenProgram = AssociatedTokenProgram
      /\ input.systemProgram = SystemProgram
  BY <1>2, <1>3, <1>4, <1>5
<1>8. SentAs(ask, input) /\ Alone(ask)
  BY <1>1, FaucetStruct DEF SentAs, Main, Alone
<1>9. \A n \in Names(Accounts[ask.op]) \cup Names(Parameters[ask.op]) : Meaning(ask)[n] = input[n]
  BY <1>8, MeaningOf
<1>10. LET c == Meaning(ask)
       IN  /\ c.config = ConfigAddress /\ c.mint = MintAddress
           /\ c.ownerAta = AtaAddress(ask.who, MintAddress) /\ c.owner = ask.who
  BY <1>6, <1>9, FaucetStruct
<1>11. Listed(Accounts[ask.op]) /\ Authorised(Accounts[ask.op], input, {ask.who})
  BY <1>6, <1>7, FaucetStruct DEF Listed, Authorised
<1> QED
  BY <1>8, <1>10, <1>11, WellFormedOf DEF Signed, SentAs

LEMMA CreatePoolMeans ==
  ASSUME NEW ask, ask.op = "createPool"
  PROVE  LET c == Meaning(ask)
             pool == PoolAddress(ask.pool)
         IN  /\ Signed(ask)
             /\ Alone(ask)
             /\ c.pool = pool /\ c.config = ConfigAddress /\ c.mint = MintAddress
             /\ c.vault = VaultAddress(pool) /\ c.seniorMint = SeniorMintAddress(pool)
             /\ c.juniorMint = JuniorMintAddress(pool) /\ c.operator = ask.who
             /\ c.id = ask.pool
<1> DEFINE pool == PoolAddress(ask.pool)
           asked == [operator |-> ask.who,
                     mint |-> MintAddress,
                     id |-> ask.pool,
                     yieldRateBps |-> Params.yieldRateBps,
                     seniorRateBps |-> Params.seniorRateBps,
                     minJuniorBps |-> Params.minJuniorBps,
                     perfFeeBps |-> Params.perfFeeBps,
                     timeScale |-> Params.timeScale]
           derived == [config |-> FindConfigPda, pool |-> FindPoolPda(asked.id)]
           accounts == Filled(asked, derived)
           given == [vault |-> FindVaultPda(accounts.pool),
                    seniorMint |-> FindSeniorMintPda(accounts.pool),
                    juniorMint |-> FindJuniorMintPda(accounts.pool)]
           programs == [tokenProgram |-> TokenProgram,
                       systemProgram |-> SystemProgram]
           input == Filled(Filled(accounts, given), programs)
<1>1. Transaction(ask)
        = <<Assembled("createPool", CreatePoolInstruction, CreatePoolInstructionData, input)>>
  BY DEF Transaction, BuildCreatePool, GetCreatePoolInstruction, GetCreatePoolInstructionAsync
<1>2. /\ accounts.config = FindConfigPda /\ accounts.pool = FindPoolPda(ask.pool)
      /\ accounts.mint = MintAddress /\ accounts.operator = ask.who
      /\ accounts.id = ask.pool
      /\ DOMAIN accounts = DOMAIN asked \cup DOMAIN derived
  <2>1. /\ asked.operator = ask.who /\ asked.mint = MintAddress /\ asked.id = ask.pool
        /\ DOMAIN asked = {"operator", "mint", "id", "yieldRateBps", "seniorRateBps",
                           "minJuniorBps", "perfFeeBps",
                           "timeScale"}
    OBVIOUS
  <2> HIDE DEF asked
  <2>2. /\ derived.config = FindConfigPda /\ derived.pool = FindPoolPda(asked.id)
        /\ DOMAIN derived = {"config", "pool"}
    OBVIOUS
  <2> HIDE DEF derived
  <2>3. \A n \in DOMAIN asked : accounts[n] = asked[n]
    BY FilledGiven
  <2>4. accounts.config = derived.config /\ accounts.pool = derived.pool
    BY <2>1, <2>2, FilledDefault
  <2>5. DOMAIN accounts = DOMAIN asked \cup DOMAIN derived
    BY FilledDomain
  <2> QED
    BY <2>1, <2>2, <2>3, <2>4, <2>5
<1>d. DOMAIN asked \cup DOMAIN derived
        = {"operator", "mint", "id", "yieldRateBps", "seniorRateBps", "minJuniorBps",
           "perfFeeBps", "timeScale", "config", "pool"}
  OBVIOUS
<1> HIDE DEF asked, derived
<1> HIDE DEF accounts
<1>3. /\ given.vault = FindVaultPda(accounts.pool)
      /\ given.seniorMint = FindSeniorMintPda(accounts.pool)
      /\ given.juniorMint = FindJuniorMintPda(accounts.pool)
      /\ DOMAIN given = {"vault", "seniorMint", "juniorMint"}
  OBVIOUS
<1> HIDE DEF given
<1>4. /\ programs.tokenProgram = TokenProgram /\ programs.systemProgram = SystemProgram
      /\ DOMAIN programs = {"tokenProgram", "systemProgram"}
  OBVIOUS
<1> HIDE DEF programs
<1>5. /\ \A n \in DOMAIN accounts : input[n] = accounts[n]
      /\ \A n \in DOMAIN given : n \notin DOMAIN accounts => input[n] = given[n]
      /\ \A n \in DOMAIN programs :
           n \notin DOMAIN accounts /\ n \notin DOMAIN given => input[n] = programs[n]
  BY FilledTwice
<1> HIDE DEF input
<1>6. /\ input.pool = pool /\ input.config = ConfigAddress /\ input.mint = MintAddress
      /\ input.vault = VaultAddress(pool) /\ input.seniorMint = SeniorMintAddress(pool)
      /\ input.juniorMint = JuniorMintAddress(pool) /\ input.operator = ask.who
      /\ input.id = ask.pool
  BY <1>2, <1>d, <1>3, <1>5 DEF Pda, ConfigAddress, FindConfigPda, PoolAddress, FindPoolPda,
     VaultAddress, FindVaultPda, SeniorMintAddress, FindSeniorMintPda, JuniorMintAddress,
       FindJuniorMintPda
<1>7. /\ input.tokenProgram = TokenProgram /\ input.systemProgram = SystemProgram
  BY <1>2, <1>d, <1>3, <1>4, <1>5
<1>8. SentAs(ask, input) /\ Alone(ask)
  BY <1>1, CreatePoolStruct DEF SentAs, Main, Alone
<1>9. \A n \in Names(Accounts[ask.op]) \cup Names(Parameters[ask.op]) : Meaning(ask)[n] = input[n]
  BY <1>8, MeaningOf
<1>10. LET c == Meaning(ask)
       IN  /\ c.pool = pool /\ c.config = ConfigAddress /\ c.mint = MintAddress
           /\ c.vault = VaultAddress(pool) /\ c.seniorMint = SeniorMintAddress(pool)
           /\ c.juniorMint = JuniorMintAddress(pool) /\ c.operator = ask.who
           /\ c.id = ask.pool
  BY <1>6, <1>9, CreatePoolStruct
<1>11. Listed(Accounts[ask.op]) /\ Authorised(Accounts[ask.op], input, {ask.who})
  BY <1>6, <1>7, CreatePoolStruct DEF Listed, Authorised
<1> QED
  BY <1>8, <1>10, <1>11, WellFormedOf DEF Signed, SentAs

LEMMA AccrueMeans ==
  ASSUME NEW ask, ask.op = "accrue"
  PROVE  LET c == Meaning(ask)
             pool == PoolAddress(ask.pool)
         IN  /\ Signed(ask)
             /\ Alone(ask)
             /\ PinnedTo(c, pool)
<1> DEFINE pool == PoolAddress(ask.pool)
           accounts == PoolAccounts(ask.pool)
           programs == [tokenProgram |-> TokenProgram]
           input == Filled(accounts, programs)
<1>1. Transaction(ask)
        = <<Assembled("accrue", AccrueInstruction, AccrueInstructionData, input)>>
  BY DEF Transaction, BuildAccrue, GetAccrueInstruction
<1>2. /\ PinnedTo(accounts, pool)
      /\ DOMAIN accounts = {"config", "mint", "treasury", "pool", "vault", "seniorMint",
           "juniorMint"}
  BY PoolAccountsAre DEF PinnedTo
<1> HIDE DEF accounts
<1>3. /\ programs.tokenProgram = TokenProgram
      /\ DOMAIN programs = {"tokenProgram"}
  OBVIOUS
<1> HIDE DEF programs
<1>5. /\ \A n \in DOMAIN accounts : input[n] = accounts[n]
      /\ \A n \in DOMAIN programs : n \notin DOMAIN accounts => input[n] = programs[n]
  BY FilledGiven, FilledDefault
<1> HIDE DEF input
<1>6. /\ PinnedTo(input, pool)
  BY <1>2, <1>3, <1>5 DEF PinnedTo
<1>7. /\ input.tokenProgram = TokenProgram
  BY <1>2, <1>3, <1>5 DEF PinnedTo
<1>8. SentAs(ask, input) /\ Alone(ask)
  BY <1>1, AccrueStruct DEF SentAs, Main, Alone
<1>9. \A n \in Names(Accounts[ask.op]) \cup Names(Parameters[ask.op]) : Meaning(ask)[n] = input[n]
  BY <1>8, MeaningOf
<1>10. LET c == Meaning(ask)
       IN  /\ PinnedTo(c, pool)
  BY <1>6, <1>9, AccrueStruct DEF PinnedTo
<1>11. Listed(Accounts[ask.op]) /\ Authorised(Accounts[ask.op], input, {ask.who})
  BY <1>6, <1>7, AccrueStruct DEF Listed, Authorised
<1> QED
  BY <1>8, <1>10, <1>11, WellFormedOf DEF Signed, SentAs

LEMMA DepositMeans ==
  ASSUME NEW ask, ask.op = "deposit"
  PROVE  LET c == Meaning(ask)
             pool == PoolAddress(ask.pool)
         IN  /\ Signed(ask)
             /\ Opens(ask, TrancheMint(PoolAccounts(ask.pool), ask.tranche))
             /\ PinnedTo(c, pool) /\ c.ownerAta = AtaAddress(ask.who, MintAddress)
             /\ c.ownerTrancheAta = AtaAddress(ask.who, TrancheMint(PoolAccounts(ask.pool),
                  ask.tranche))
             /\ c.owner = ask.who /\ c.tranche = ask.tranche
<1> DEFINE pool == PoolAddress(ask.pool)
           mint == TrancheMint(PoolAccounts(ask.pool), ask.tranche)
           accounts == PoolAccounts(ask.pool)
           given == [ownerAta |-> AtaAddress(ask.who, accounts.mint),
                    ownerTrancheAta |-> AtaAddress(ask.who, mint),
                    owner |-> ask.who,
                    tranche |-> ask.tranche,
                    amount |-> "amount"]
           programs == [tokenProgram |-> TokenProgram]
           input == Filled(Filled(accounts, given), programs)
<1>1. Transaction(ask)
        = <<CreateAta(ask.who, ask.who, TrancheMint(PoolAccounts(ask.pool), ask.tranche)),
            Assembled("deposit", DepositInstruction, DepositInstructionData, input)>>
  BY DEF Transaction, BuildDeposit, GetDepositInstruction
<1>2. /\ PinnedTo(accounts, pool)
      /\ DOMAIN accounts = {"config", "mint", "treasury", "pool", "vault", "seniorMint",
           "juniorMint"}
  BY PoolAccountsAre DEF PinnedTo
<1> HIDE DEF accounts
<1>3. /\ given.ownerAta = AtaAddress(ask.who, accounts.mint)
      /\ given.ownerTrancheAta = AtaAddress(ask.who, mint) /\ given.owner = ask.who
      /\ given.tranche = ask.tranche /\ given.amount = "amount"
      /\ DOMAIN given = {"ownerAta", "ownerTrancheAta", "owner", "tranche", "amount"}
  OBVIOUS
<1> HIDE DEF given
<1>4. /\ programs.tokenProgram = TokenProgram
      /\ DOMAIN programs = {"tokenProgram"}
  OBVIOUS
<1> HIDE DEF programs
<1>5. /\ \A n \in DOMAIN accounts : input[n] = accounts[n]
      /\ \A n \in DOMAIN given : n \notin DOMAIN accounts => input[n] = given[n]
      /\ \A n \in DOMAIN programs :
           n \notin DOMAIN accounts /\ n \notin DOMAIN given => input[n] = programs[n]
  BY FilledTwice
<1> HIDE DEF input
<1>6. /\ PinnedTo(input, pool) /\ input.ownerAta = AtaAddress(ask.who, MintAddress)
      /\ input.ownerTrancheAta = AtaAddress(ask.who, TrancheMint(PoolAccounts(ask.pool),
           ask.tranche))
      /\ input.owner = ask.who /\ input.tranche = ask.tranche
  BY <1>2, <1>3, <1>5 DEF PinnedTo
<1>7. /\ input.tokenProgram = TokenProgram
  BY <1>2, <1>3, <1>4, <1>5 DEF PinnedTo
<1>8. SentAs(ask, input) /\ Opens(ask, TrancheMint(PoolAccounts(ask.pool), ask.tranche))
  BY <1>1, DepositStruct DEF SentAs, Main, Opens
<1>9. \A n \in Names(Accounts[ask.op]) \cup Names(Parameters[ask.op]) : Meaning(ask)[n] = input[n]
  BY <1>8, MeaningOf
<1>10. LET c == Meaning(ask)
       IN  /\ PinnedTo(c, pool) /\ c.ownerAta = AtaAddress(ask.who, MintAddress)
           /\ c.ownerTrancheAta = AtaAddress(ask.who, TrancheMint(PoolAccounts(ask.pool),
                ask.tranche))
           /\ c.owner = ask.who /\ c.tranche = ask.tranche
  BY <1>6, <1>9, DepositStruct DEF PinnedTo
<1>11. Listed(Accounts[ask.op]) /\ Authorised(Accounts[ask.op], input, {ask.who})
  BY <1>6, <1>7, DepositStruct DEF Listed, Authorised
<1> QED
  BY <1>8, <1>10, <1>11, WellFormedOf DEF Signed, SentAs

LEMMA RedeemMeans ==
  ASSUME NEW ask, ask.op = "redeem"
  PROVE  LET c == Meaning(ask)
             pool == PoolAddress(ask.pool)
         IN  /\ Signed(ask)
             /\ Opens(ask, MintAddress)
             /\ PinnedTo(c, pool) /\ c.ownerAta = AtaAddress(ask.who, MintAddress)
             /\ c.ownerTrancheAta = AtaAddress(ask.who, TrancheMint(PoolAccounts(ask.pool),
                  ask.tranche))
             /\ c.owner = ask.who /\ c.tranche = ask.tranche
<1> DEFINE pool == PoolAddress(ask.pool)
           mint == TrancheMint(PoolAccounts(ask.pool), ask.tranche)
           accounts == PoolAccounts(ask.pool)
           given == [ownerAta |-> AtaAddress(ask.who, accounts.mint),
                    ownerTrancheAta |-> AtaAddress(ask.who, mint),
                    owner |-> ask.who,
                    tranche |-> ask.tranche,
                    shares |-> "shares"]
           programs == [tokenProgram |-> TokenProgram]
           input == Filled(Filled(accounts, given), programs)
<1>1. Transaction(ask)
        = <<CreateAta(ask.who, ask.who, accounts.mint),
            Assembled("redeem", RedeemInstruction, RedeemInstructionData, input)>>
  BY DEF Transaction, BuildRedeem, GetRedeemInstruction
<1>2. /\ PinnedTo(accounts, pool)
      /\ DOMAIN accounts = {"config", "mint", "treasury", "pool", "vault", "seniorMint",
           "juniorMint"}
  BY PoolAccountsAre DEF PinnedTo
<1> HIDE DEF accounts
<1>3. /\ given.ownerAta = AtaAddress(ask.who, accounts.mint)
      /\ given.ownerTrancheAta = AtaAddress(ask.who, mint) /\ given.owner = ask.who
      /\ given.tranche = ask.tranche /\ given.shares = "shares"
      /\ DOMAIN given = {"ownerAta", "ownerTrancheAta", "owner", "tranche", "shares"}
  OBVIOUS
<1> HIDE DEF given
<1>4. /\ programs.tokenProgram = TokenProgram
      /\ DOMAIN programs = {"tokenProgram"}
  OBVIOUS
<1> HIDE DEF programs
<1>5. /\ \A n \in DOMAIN accounts : input[n] = accounts[n]
      /\ \A n \in DOMAIN given : n \notin DOMAIN accounts => input[n] = given[n]
      /\ \A n \in DOMAIN programs :
           n \notin DOMAIN accounts /\ n \notin DOMAIN given => input[n] = programs[n]
  BY FilledTwice
<1> HIDE DEF input
<1>6. /\ PinnedTo(input, pool) /\ input.ownerAta = AtaAddress(ask.who, MintAddress)
      /\ input.ownerTrancheAta = AtaAddress(ask.who, TrancheMint(PoolAccounts(ask.pool),
           ask.tranche))
      /\ input.owner = ask.who /\ input.tranche = ask.tranche
  BY <1>2, <1>3, <1>5 DEF PinnedTo
<1>7. /\ input.tokenProgram = TokenProgram
  BY <1>2, <1>3, <1>4, <1>5 DEF PinnedTo
<1>8. SentAs(ask, input) /\ Opens(ask, MintAddress)
  BY <1>1, <1>2, RedeemStruct DEF SentAs, Main, Opens, PinnedTo
<1>9. \A n \in Names(Accounts[ask.op]) \cup Names(Parameters[ask.op]) : Meaning(ask)[n] = input[n]
  BY <1>8, MeaningOf
<1>10. LET c == Meaning(ask)
       IN  /\ PinnedTo(c, pool) /\ c.ownerAta = AtaAddress(ask.who, MintAddress)
           /\ c.ownerTrancheAta = AtaAddress(ask.who, TrancheMint(PoolAccounts(ask.pool),
                ask.tranche))
           /\ c.owner = ask.who /\ c.tranche = ask.tranche
  BY <1>6, <1>9, RedeemStruct DEF PinnedTo
<1>11. Listed(Accounts[ask.op]) /\ Authorised(Accounts[ask.op], input, {ask.who})
  BY <1>6, <1>7, RedeemStruct DEF Listed, Authorised
<1> QED
  BY <1>8, <1>10, <1>11, WellFormedOf DEF Signed, SentAs

LEMMA RecordLossMeans ==
  ASSUME NEW ask, ask.op = "recordLoss"
  PROVE  LET c == Meaning(ask)
             pool == PoolAddress(ask.pool)
         IN  /\ Signed(ask)
             /\ Alone(ask)
             /\ PinnedTo(c, pool) /\ c.lossEvent = LossEventAddress(pool, ask.index)
             /\ c.operator = ask.who
<1> DEFINE pool == PoolAddress(ask.pool)
           accounts == PoolAccounts(ask.pool)
           given == [lossEvent |-> LossEventAddress(accounts.pool, ask.index),
                    operator |-> ask.who,
                    lossBps |-> "lossBps"]
           programs == [tokenProgram |-> TokenProgram,
                       systemProgram |-> SystemProgram]
           input == Filled(Filled(accounts, given), programs)
<1>1. Transaction(ask)
        = <<Assembled("recordLoss", RecordLossInstruction, RecordLossInstructionData, input)>>
  BY DEF Transaction, BuildRecordLoss, GetRecordLossInstruction
<1>2. /\ PinnedTo(accounts, pool)
      /\ DOMAIN accounts = {"config", "mint", "treasury", "pool", "vault", "seniorMint",
           "juniorMint"}
  BY PoolAccountsAre DEF PinnedTo
<1> HIDE DEF accounts
<1>3. /\ given.lossEvent = LossEventAddress(accounts.pool, ask.index)
      /\ given.operator = ask.who /\ given.lossBps = "lossBps"
      /\ DOMAIN given = {"lossEvent", "operator", "lossBps"}
  OBVIOUS
<1> HIDE DEF given
<1>4. /\ programs.tokenProgram = TokenProgram /\ programs.systemProgram = SystemProgram
      /\ DOMAIN programs = {"tokenProgram", "systemProgram"}
  OBVIOUS
<1> HIDE DEF programs
<1>5. /\ \A n \in DOMAIN accounts : input[n] = accounts[n]
      /\ \A n \in DOMAIN given : n \notin DOMAIN accounts => input[n] = given[n]
      /\ \A n \in DOMAIN programs :
           n \notin DOMAIN accounts /\ n \notin DOMAIN given => input[n] = programs[n]
  BY FilledTwice
<1> HIDE DEF input
<1>6. /\ PinnedTo(input, pool) /\ input.lossEvent = LossEventAddress(pool, ask.index)
      /\ input.operator = ask.who
  BY <1>2, <1>3, <1>5 DEF PinnedTo
<1>7. /\ input.tokenProgram = TokenProgram /\ input.systemProgram = SystemProgram
  BY <1>2, <1>3, <1>4, <1>5 DEF PinnedTo
<1>8. SentAs(ask, input) /\ Alone(ask)
  BY <1>1, RecordLossStruct DEF SentAs, Main, Alone
<1>9. \A n \in Names(Accounts[ask.op]) \cup Names(Parameters[ask.op]) : Meaning(ask)[n] = input[n]
  BY <1>8, MeaningOf
<1>10. LET c == Meaning(ask)
       IN  /\ PinnedTo(c, pool) /\ c.lossEvent = LossEventAddress(pool, ask.index)
           /\ c.operator = ask.who
  BY <1>6, <1>9, RecordLossStruct DEF PinnedTo
<1>11. Listed(Accounts[ask.op]) /\ Authorised(Accounts[ask.op], input, {ask.who})
  BY <1>6, <1>7, RecordLossStruct DEF Listed, Authorised
<1> QED
  BY <1>8, <1>10, <1>11, WellFormedOf DEF Signed, SentAs

LEMMA InitProtectionMeans ==
  ASSUME NEW ask, ask.op = "initProtection"
  PROVE  LET c == Meaning(ask)
             pool == PoolAddress(ask.pool)
         IN  /\ Signed(ask)
             /\ Alone(ask)
             /\ c.pool = pool /\ MarketOf(c, pool) /\ c.mint = MintAddress
             /\ c.operator = ask.who
<1> DEFINE pool == PoolAddress(ask.pool)
           all == ProtectionAccounts(ask.pool)
           accounts == Only(all, {"pool", "mint", "protection", "pvault"})
           given == [operator |-> ask.who,
                    premiumRateBps |-> Params.premiumRateBps,
                    triggerBps |-> Params.triggerBps,
                    premiumFeeBps |-> Params.premiumFeeBps]
           programs == [tokenProgram |-> TokenProgram,
                       systemProgram |-> SystemProgram]
           input == Filled(Filled(accounts, given), programs)
<1>1. Transaction(ask)
        = <<Assembled("initProtection", InitProtectionInstruction,
          InitProtectionInstructionData, input)>>
  BY DEF Transaction, BuildInitProtection, GetInitProtectionInstruction
<1>2. /\ accounts.pool = pool /\ accounts.mint = MintAddress /\ MarketOf(accounts, pool)
      /\ DOMAIN accounts = {"pool", "mint", "protection", "pvault"}
  <2>1. all.pool = pool /\ all.mint = MintAddress /\ MarketOf(all, pool)
    <3> DEFINE p == PoolAccounts(ask.pool)
    <3>1. "pool" \in DOMAIN p /\ "mint" \in DOMAIN p /\ p.pool = pool /\ p.mint = MintAddress
      BY PoolAccountsAre
    <3> QED
      BY <3>1, ProtectionAccountsAre DEF MarketOf
  <2> HIDE DEF all
  <2> QED
    BY <2>1 DEF Only, MarketOf
<1> HIDE DEF accounts
<1>3. /\ given.operator = ask.who /\ given.premiumRateBps = Params.premiumRateBps
      /\ given.triggerBps = Params.triggerBps /\ given.premiumFeeBps = Params.premiumFeeBps
      /\ DOMAIN given = {"operator", "premiumRateBps", "triggerBps", "premiumFeeBps"}
  OBVIOUS
<1> HIDE DEF given
<1>4. /\ programs.tokenProgram = TokenProgram /\ programs.systemProgram = SystemProgram
      /\ DOMAIN programs = {"tokenProgram", "systemProgram"}
  OBVIOUS
<1> HIDE DEF programs
<1>5. /\ \A n \in DOMAIN accounts : input[n] = accounts[n]
      /\ \A n \in DOMAIN given : n \notin DOMAIN accounts => input[n] = given[n]
      /\ \A n \in DOMAIN programs :
           n \notin DOMAIN accounts /\ n \notin DOMAIN given => input[n] = programs[n]
  BY FilledTwice
<1> HIDE DEF input
<1>6. /\ input.pool = pool /\ MarketOf(input, pool) /\ input.mint = MintAddress
      /\ input.operator = ask.who
  BY <1>2, <1>3, <1>5 DEF MarketOf
<1>7. /\ input.tokenProgram = TokenProgram /\ input.systemProgram = SystemProgram
  BY <1>2, <1>3, <1>4, <1>5 DEF MarketOf
<1>8. SentAs(ask, input) /\ Alone(ask)
  BY <1>1, InitProtectionStruct DEF SentAs, Main, Alone
<1>9. \A n \in Names(Accounts[ask.op]) \cup Names(Parameters[ask.op]) : Meaning(ask)[n] = input[n]
  BY <1>8, MeaningOf
<1>10. LET c == Meaning(ask)
       IN  /\ c.pool = pool /\ MarketOf(c, pool) /\ c.mint = MintAddress
           /\ c.operator = ask.who
  BY <1>6, <1>9, InitProtectionStruct DEF MarketOf
<1>11. Listed(Accounts[ask.op]) /\ Authorised(Accounts[ask.op], input, {ask.who})
  BY <1>6, <1>7, InitProtectionStruct DEF Listed, Authorised
<1> QED
  BY <1>8, <1>10, <1>11, WellFormedOf DEF Signed, SentAs

LEMMA ProvideProtectionMeans ==
  ASSUME NEW ask, ask.op = "provideProtection"
  PROVE  LET c == Meaning(ask)
             pool == PoolAddress(ask.pool)
         IN  /\ Signed(ask)
             /\ Alone(ask)
             /\ c.pool = pool /\ MarketOf(c, pool)
             /\ c.ownerAta = AtaAddress(ask.who, MintAddress)
             /\ c.position = SellerAddress(pool, ask.who) /\ c.owner = ask.who
<1> DEFINE pool == PoolAddress(ask.pool)
           accounts == MarketAccounts(ask.pool)
           given == [ownerAta |-> AtaAddress(ask.who, MintAddress),
                    position |-> SellerAddress(accounts.pool, ask.who),
                    owner |-> ask.who,
                    amount |-> "amount"]
           programs == [tokenProgram |-> TokenProgram,
                       systemProgram |-> SystemProgram]
           input == Filled(Filled(accounts, given), programs)
<1>1. Transaction(ask)
        = <<Assembled("provideProtection", ProvideProtectionInstruction,
          ProvideProtectionInstructionData, input)>>
  BY DEF Transaction, BuildProvide, GetProvideProtectionInstruction
<1>2. /\ accounts.pool = pool /\ MarketOf(accounts, pool)
      /\ DOMAIN accounts = {"pool", "protection", "pvault"}
  BY MarketAccountsAre DEF MarketOf
<1> HIDE DEF accounts
<1>3. /\ given.ownerAta = AtaAddress(ask.who, MintAddress)
      /\ given.position = SellerAddress(accounts.pool, ask.who) /\ given.owner = ask.who
      /\ given.amount = "amount"
      /\ DOMAIN given = {"ownerAta", "position", "owner", "amount"}
  OBVIOUS
<1> HIDE DEF given
<1>4. /\ programs.tokenProgram = TokenProgram /\ programs.systemProgram = SystemProgram
      /\ DOMAIN programs = {"tokenProgram", "systemProgram"}
  OBVIOUS
<1> HIDE DEF programs
<1>5. /\ \A n \in DOMAIN accounts : input[n] = accounts[n]
      /\ \A n \in DOMAIN given : n \notin DOMAIN accounts => input[n] = given[n]
      /\ \A n \in DOMAIN programs :
           n \notin DOMAIN accounts /\ n \notin DOMAIN given => input[n] = programs[n]
  BY FilledTwice
<1> HIDE DEF input
<1>6. /\ input.pool = pool /\ MarketOf(input, pool)
      /\ input.ownerAta = AtaAddress(ask.who, MintAddress)
      /\ input.position = SellerAddress(pool, ask.who) /\ input.owner = ask.who
  BY <1>2, <1>3, <1>5 DEF MarketOf
<1>7. /\ input.tokenProgram = TokenProgram /\ input.systemProgram = SystemProgram
  BY <1>2, <1>3, <1>4, <1>5 DEF MarketOf
<1>8. SentAs(ask, input) /\ Alone(ask)
  BY <1>1, ProvideProtectionStruct DEF SentAs, Main, Alone
<1>9. \A n \in Names(Accounts[ask.op]) \cup Names(Parameters[ask.op]) : Meaning(ask)[n] = input[n]
  BY <1>8, MeaningOf
<1>10. LET c == Meaning(ask)
       IN  /\ c.pool = pool /\ MarketOf(c, pool)
           /\ c.ownerAta = AtaAddress(ask.who, MintAddress)
           /\ c.position = SellerAddress(pool, ask.who) /\ c.owner = ask.who
  BY <1>6, <1>9, ProvideProtectionStruct DEF MarketOf
<1>11. Listed(Accounts[ask.op]) /\ Authorised(Accounts[ask.op], input, {ask.who})
  BY <1>6, <1>7, ProvideProtectionStruct DEF Listed, Authorised
<1> QED
  BY <1>8, <1>10, <1>11, WellFormedOf DEF Signed, SentAs

LEMMA WithdrawProtectionMeans ==
  ASSUME NEW ask, ask.op = "withdrawProtection"
  PROVE  LET c == Meaning(ask)
             pool == PoolAddress(ask.pool)
         IN  /\ Signed(ask)
             /\ Opens(ask, MintAddress)
             /\ c.pool = pool /\ MarketOf(c, pool)
             /\ c.ownerAta = AtaAddress(ask.who, MintAddress)
             /\ c.position = SellerAddress(pool, ask.who) /\ c.owner = ask.who
<1> DEFINE pool == PoolAddress(ask.pool)
           accounts == MarketAccounts(ask.pool)
           given == [ownerAta |-> AtaAddress(ask.who, MintAddress),
                    position |-> SellerAddress(accounts.pool, ask.who),
                    owner |-> ask.who,
                    shares |-> "shares"]
           programs == [tokenProgram |-> TokenProgram]
           input == Filled(Filled(accounts, given), programs)
<1>1. Transaction(ask)
        = <<CreateAta(ask.who, ask.who, MintAddress),
            Assembled("withdrawProtection", WithdrawProtectionInstruction,
              WithdrawProtectionInstructionData, input)>>
  BY DEF Transaction, BuildWithdraw, GetWithdrawProtectionInstruction
<1>2. /\ accounts.pool = pool /\ MarketOf(accounts, pool)
      /\ DOMAIN accounts = {"pool", "protection", "pvault"}
  BY MarketAccountsAre DEF MarketOf
<1> HIDE DEF accounts
<1>3. /\ given.ownerAta = AtaAddress(ask.who, MintAddress)
      /\ given.position = SellerAddress(accounts.pool, ask.who) /\ given.owner = ask.who
      /\ given.shares = "shares"
      /\ DOMAIN given = {"ownerAta", "position", "owner", "shares"}
  OBVIOUS
<1> HIDE DEF given
<1>4. /\ programs.tokenProgram = TokenProgram
      /\ DOMAIN programs = {"tokenProgram"}
  OBVIOUS
<1> HIDE DEF programs
<1>5. /\ \A n \in DOMAIN accounts : input[n] = accounts[n]
      /\ \A n \in DOMAIN given : n \notin DOMAIN accounts => input[n] = given[n]
      /\ \A n \in DOMAIN programs :
           n \notin DOMAIN accounts /\ n \notin DOMAIN given => input[n] = programs[n]
  BY FilledTwice
<1> HIDE DEF input
<1>6. /\ input.pool = pool /\ MarketOf(input, pool)
      /\ input.ownerAta = AtaAddress(ask.who, MintAddress)
      /\ input.position = SellerAddress(pool, ask.who) /\ input.owner = ask.who
  BY <1>2, <1>3, <1>5 DEF MarketOf
<1>7. /\ input.tokenProgram = TokenProgram
  BY <1>2, <1>3, <1>4, <1>5 DEF MarketOf
<1>8. SentAs(ask, input) /\ Opens(ask, MintAddress)
  BY <1>1, WithdrawProtectionStruct DEF SentAs, Main, Opens
<1>9. \A n \in Names(Accounts[ask.op]) \cup Names(Parameters[ask.op]) : Meaning(ask)[n] = input[n]
  BY <1>8, MeaningOf
<1>10. LET c == Meaning(ask)
       IN  /\ c.pool = pool /\ MarketOf(c, pool)
           /\ c.ownerAta = AtaAddress(ask.who, MintAddress)
           /\ c.position = SellerAddress(pool, ask.who) /\ c.owner = ask.who
  BY <1>6, <1>9, WithdrawProtectionStruct DEF MarketOf
<1>11. Listed(Accounts[ask.op]) /\ Authorised(Accounts[ask.op], input, {ask.who})
  BY <1>6, <1>7, WithdrawProtectionStruct DEF Listed, Authorised
<1> QED
  BY <1>8, <1>10, <1>11, WellFormedOf DEF Signed, SentAs

LEMMA BuyProtectionMeans ==
  ASSUME NEW ask, ask.op = "buyProtection"
  PROVE  LET c == Meaning(ask)
             pool == PoolAddress(ask.pool)
         IN  /\ Signed(ask)
             /\ Alone(ask)
             /\ PinnedTo(c, pool) /\ MarketOf(c, pool)
             /\ c.buyerAta = AtaAddress(ask.who, MintAddress)
             /\ c.contract = ContractAddress(pool, ask.who, ask.nonce) /\ c.buyer = ask.who
             /\ c.nonce = ask.nonce
<1> DEFINE pool == PoolAddress(ask.pool)
           accounts == ProtectionAccounts(ask.pool)
           given == [buyerAta |-> AtaAddress(ask.who, accounts.mint),
                    contract |-> ContractAddress(accounts.pool, ask.who, ask.nonce),
                    buyer |-> ask.who,
                    notional |-> "notional",
                    term |-> "term",
                    nonce |-> ask.nonce]
           programs == [tokenProgram |-> TokenProgram,
                       systemProgram |-> SystemProgram]
           input == Filled(Filled(accounts, given), programs)
<1>1. Transaction(ask)
        = <<Assembled("buyProtection", BuyProtectionInstruction, BuyProtectionInstructionData,
          input)>>
  BY DEF Transaction, BuildBuy, GetBuyProtectionInstruction
<1>2. /\ PinnedTo(accounts, pool) /\ MarketOf(accounts, pool)
      /\ DOMAIN accounts = {"config", "mint", "treasury", "pool", "vault", "seniorMint",
           "juniorMint", "protection",
                         "pvault"}
  BY PoolAccountsAre, ProtectionAccountsAre DEF PinnedTo, MarketOf
<1> HIDE DEF accounts
<1>3. /\ given.buyerAta = AtaAddress(ask.who, accounts.mint)
      /\ given.contract = ContractAddress(accounts.pool, ask.who, ask.nonce)
      /\ given.buyer = ask.who /\ given.notional = "notional" /\ given.term = "term"
      /\ given.nonce = ask.nonce
      /\ DOMAIN given = {"buyerAta", "contract", "buyer", "notional", "term", "nonce"}
  OBVIOUS
<1> HIDE DEF given
<1>4. /\ programs.tokenProgram = TokenProgram /\ programs.systemProgram = SystemProgram
      /\ DOMAIN programs = {"tokenProgram", "systemProgram"}
  OBVIOUS
<1> HIDE DEF programs
<1>5. /\ \A n \in DOMAIN accounts : input[n] = accounts[n]
      /\ \A n \in DOMAIN given : n \notin DOMAIN accounts => input[n] = given[n]
      /\ \A n \in DOMAIN programs :
           n \notin DOMAIN accounts /\ n \notin DOMAIN given => input[n] = programs[n]
  BY FilledTwice
<1> HIDE DEF input
<1>6. /\ PinnedTo(input, pool) /\ MarketOf(input, pool)
      /\ input.buyerAta = AtaAddress(ask.who, MintAddress)
      /\ input.contract = ContractAddress(pool, ask.who, ask.nonce) /\ input.buyer = ask.who
      /\ input.nonce = ask.nonce
  BY <1>2, <1>3, <1>5 DEF PinnedTo, MarketOf
<1>7. /\ input.tokenProgram = TokenProgram /\ input.systemProgram = SystemProgram
  BY <1>2, <1>3, <1>4, <1>5 DEF PinnedTo, MarketOf
<1>8. SentAs(ask, input) /\ Alone(ask)
  BY <1>1, BuyProtectionStruct DEF SentAs, Main, Alone
<1>9. \A n \in Names(Accounts[ask.op]) \cup Names(Parameters[ask.op]) : Meaning(ask)[n] = input[n]
  BY <1>8, MeaningOf
<1>10. LET c == Meaning(ask)
       IN  /\ PinnedTo(c, pool) /\ MarketOf(c, pool)
           /\ c.buyerAta = AtaAddress(ask.who, MintAddress)
           /\ c.contract = ContractAddress(pool, ask.who, ask.nonce) /\ c.buyer = ask.who
           /\ c.nonce = ask.nonce
  BY <1>6, <1>9, BuyProtectionStruct DEF PinnedTo, MarketOf
<1>11. Listed(Accounts[ask.op]) /\ Authorised(Accounts[ask.op], input, {ask.who})
  BY <1>6, <1>7, BuyProtectionStruct DEF Listed, Authorised
<1> QED
  BY <1>8, <1>10, <1>11, WellFormedOf DEF Signed, SentAs

LEMMA SettleProtectionMeans ==
  ASSUME NEW ask, ask.op = "settleProtection"
  PROVE  LET c == Meaning(ask)
             pool == PoolAddress(ask.pool)
         IN  /\ Signed(ask)
             /\ Alone(ask)
             /\ c.pool = pool /\ MarketOf(c, pool)
             /\ c.contract = ContractAddress(pool, ask.buyer, ask.nonce)
             /\ c.lossEvent = LossEventAddress(pool, ask.index)
             /\ c.buyerAta = AtaAddress(ask.buyer, MintAddress)
<1> DEFINE pool == PoolAddress(ask.pool)
           accounts == MarketAccounts(ask.pool)
           given == [contract |-> ContractAddress(accounts.pool, ask.buyer, ask.nonce),
                    lossEvent |-> LossEventAddress(accounts.pool, ask.index),
                    buyerAta |-> AtaAddress(ask.buyer, MintAddress)]
           programs == [tokenProgram |-> TokenProgram]
           input == Filled(Filled(accounts, given), programs)
<1>1. Transaction(ask)
        = <<Assembled("settleProtection", SettleProtectionInstruction,
          SettleProtectionInstructionData, input)>>
  BY DEF Transaction, BuildSettle, GetSettleProtectionInstruction
<1>2. /\ accounts.pool = pool /\ MarketOf(accounts, pool)
      /\ DOMAIN accounts = {"pool", "protection", "pvault"}
  BY MarketAccountsAre DEF MarketOf
<1> HIDE DEF accounts
<1>3. /\ given.contract = ContractAddress(accounts.pool, ask.buyer, ask.nonce)
      /\ given.lossEvent = LossEventAddress(accounts.pool, ask.index)
      /\ given.buyerAta = AtaAddress(ask.buyer, MintAddress)
      /\ DOMAIN given = {"contract", "lossEvent", "buyerAta"}
  OBVIOUS
<1> HIDE DEF given
<1>4. /\ programs.tokenProgram = TokenProgram
      /\ DOMAIN programs = {"tokenProgram"}
  OBVIOUS
<1> HIDE DEF programs
<1>5. /\ \A n \in DOMAIN accounts : input[n] = accounts[n]
      /\ \A n \in DOMAIN given : n \notin DOMAIN accounts => input[n] = given[n]
      /\ \A n \in DOMAIN programs :
           n \notin DOMAIN accounts /\ n \notin DOMAIN given => input[n] = programs[n]
  BY FilledTwice
<1> HIDE DEF input
<1>6. /\ input.pool = pool /\ MarketOf(input, pool)
      /\ input.contract = ContractAddress(pool, ask.buyer, ask.nonce)
      /\ input.lossEvent = LossEventAddress(pool, ask.index)
      /\ input.buyerAta = AtaAddress(ask.buyer, MintAddress)
  BY <1>2, <1>3, <1>5 DEF MarketOf
<1>7. /\ input.tokenProgram = TokenProgram
  BY <1>2, <1>3, <1>4, <1>5 DEF MarketOf
<1>8. SentAs(ask, input) /\ Alone(ask)
  BY <1>1, SettleProtectionStruct DEF SentAs, Main, Alone
<1>9. \A n \in Names(Accounts[ask.op]) \cup Names(Parameters[ask.op]) : Meaning(ask)[n] = input[n]
  BY <1>8, MeaningOf
<1>10. LET c == Meaning(ask)
       IN  /\ c.pool = pool /\ MarketOf(c, pool)
           /\ c.contract = ContractAddress(pool, ask.buyer, ask.nonce)
           /\ c.lossEvent = LossEventAddress(pool, ask.index)
           /\ c.buyerAta = AtaAddress(ask.buyer, MintAddress)
  BY <1>6, <1>9, SettleProtectionStruct DEF MarketOf
<1>11. Listed(Accounts[ask.op]) /\ Authorised(Accounts[ask.op], input, {ask.who})
  BY <1>6, <1>7, SettleProtectionStruct DEF Listed, Authorised
<1> QED
  BY <1>8, <1>10, <1>11, WellFormedOf DEF Signed, SentAs

LEMMA ExpireProtectionMeans ==
  ASSUME NEW ask, ask.op = "expireProtection"
  PROVE  LET c == Meaning(ask)
             pool == PoolAddress(ask.pool)
         IN  /\ Signed(ask)
             /\ Alone(ask)
             /\ PinnedTo(c, pool) /\ c.protection = ProtectionAddress(pool)
             /\ c.contract = ContractAddress(pool, ask.buyer, ask.nonce)
             /\ c.signer = ask.who
<1> DEFINE pool == PoolAddress(ask.pool)
           accounts == ProtectionAccounts(ask.pool)
           given == [contract |-> ContractAddress(accounts.pool, ask.buyer, ask.nonce),
                    signer |-> ask.who]
           programs == [tokenProgram |-> TokenProgram]
           input == Filled(Filled(accounts, given), programs)
<1>1. Transaction(ask)
        = <<Assembled("expireProtection", ExpireProtectionInstruction,
          ExpireProtectionInstructionData, input)>>
  BY DEF Transaction, BuildExpire, GetExpireProtectionInstruction
<1>2. /\ PinnedTo(accounts, pool) /\ MarketOf(accounts, pool)
      /\ DOMAIN accounts = {"config", "mint", "treasury", "pool", "vault", "seniorMint",
           "juniorMint", "protection",
                         "pvault"}
  BY PoolAccountsAre, ProtectionAccountsAre DEF PinnedTo, MarketOf
<1> HIDE DEF accounts
<1>3. /\ given.contract = ContractAddress(accounts.pool, ask.buyer, ask.nonce)
      /\ given.signer = ask.who
      /\ DOMAIN given = {"contract", "signer"}
  OBVIOUS
<1> HIDE DEF given
<1>4. /\ programs.tokenProgram = TokenProgram
      /\ DOMAIN programs = {"tokenProgram"}
  OBVIOUS
<1> HIDE DEF programs
<1>5. /\ \A n \in DOMAIN accounts : input[n] = accounts[n]
      /\ \A n \in DOMAIN given : n \notin DOMAIN accounts => input[n] = given[n]
      /\ \A n \in DOMAIN programs :
           n \notin DOMAIN accounts /\ n \notin DOMAIN given => input[n] = programs[n]
  BY FilledTwice
<1> HIDE DEF input
<1>6. /\ PinnedTo(input, pool) /\ input.protection = ProtectionAddress(pool)
      /\ input.contract = ContractAddress(pool, ask.buyer, ask.nonce)
      /\ input.signer = ask.who
  BY <1>2, <1>3, <1>5 DEF PinnedTo, MarketOf
<1>7. /\ input.tokenProgram = TokenProgram
  BY <1>2, <1>3, <1>4, <1>5 DEF PinnedTo, MarketOf
<1>8. SentAs(ask, input) /\ Alone(ask)
  BY <1>1, ExpireProtectionStruct DEF SentAs, Main, Alone
<1>9. \A n \in Names(Accounts[ask.op]) \cup Names(Parameters[ask.op]) : Meaning(ask)[n] = input[n]
  BY <1>8, MeaningOf
<1>10. LET c == Meaning(ask)
       IN  /\ PinnedTo(c, pool) /\ c.protection = ProtectionAddress(pool)
           /\ c.contract = ContractAddress(pool, ask.buyer, ask.nonce) /\ c.signer = ask.who
  BY <1>6, <1>9, ExpireProtectionStruct DEF PinnedTo, MarketOf
<1>11. Listed(Accounts[ask.op]) /\ Authorised(Accounts[ask.op], input, {ask.who})
  BY <1>6, <1>7, ExpireProtectionStruct DEF Listed, Authorised
<1> QED
  BY <1>8, <1>10, <1>11, WellFormedOf DEF Signed, SentAs

=============================================================================
