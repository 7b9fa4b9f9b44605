-------------------------- MODULE WashClientProofs --------------------------
(***************************************************************************)
(* The client against the program's accounts, for any users, pools,        *)
(* buttons and bounds.  Two things carry the proofs.  Accounts only grow:  *)
(* but for those of the token library none is ever closed, counters never  *)
(* fall and a closed contract stays closed, so what was true of a read     *)
(* remains true, and what was done leaves a trace by which it is refused a *)
(* second time.  And accounts are linked: a contract's number is below its *)
(* market's counter and a loss's index below its pool's, so what is        *)
(* numbered by a counter just read is free.  An address is the tuple of    *)
(* its seeds (WashAddresses); the theorems rest on that, as the program    *)
(* does on the hash.                                                       *)
(***************************************************************************)
EXTENDS WashRequestProofs, FiniteSetTheorems

(* A transaction of one instruction, or of two the first of which opens an *)
(* account of the token library.                                           *)
LEMMA AloneTakes ==
  ASSUME NEW ask, NEW A, Alone(ask)
  PROVE  /\ TransactionOk(A, Transaction(ask), {ask.who})
              <=> InstructionOk(A, Main(ask), {ask.who})
         /\ TransactionDone(A, Transaction(ask)) = InstructionDone(A, Main(ask))
<1> DEFINE ix == Main(ask)
           tx == Transaction(ask)
<1>1. tx = <<ix>>
  BY DEF Alone
<1> HIDE DEF ix, tx
<1>2. Len(tx) = 1 /\ tx[Len(tx)] = ix
  BY <1>1
<1> QED
  BY <1>2 DEF TransactionOk, TransactionDone, AfterFirst, ix, tx

(* The accounts after an idempotent creation.                              *)
AtaOpened(A, who, mint) == Opening(A, AtaAddress(who, mint), TokenAccount(mint, who))

(* Of two instructions the second meets what the first left.               *)
LEMMA OpensTakes ==
  ASSUME NEW ask, NEW A, NEW mint, Opens(ask, mint)
  PROVE  LET B == AtaOpened(A, ask.who, mint)
         IN  /\ TransactionOk(A, Transaction(ask), {ask.who})
                  <=> Is(A, mint, "Mint") /\ InstructionOk(B, Main(ask), {ask.who})
             /\ TransactionDone(A, Transaction(ask)) = InstructionDone(B, Main(ask))
<1> DEFINE ix == Main(ask)
           first == CreateAta(ask.who, ask.who, mint)
           tx == Transaction(ask)
           B == AtaOpened(A, ask.who, mint)
<1>1. tx = <<first, ix>>
  BY DEF Opens
<1>2. /\ first.data.discriminator = "createAta"
      /\ first.accounts[1].address = ask.who
      /\ first.accounts[2].address = AtaAddress(ask.who, mint)
      /\ first.accounts[3].address = ask.who
      /\ first.accounts[4].address = mint
  BY DEF CreateAta, Assembled, WS, W, R
<1> HIDE DEF ix, tx, first
<1>3. Len(tx) = 2 /\ tx[1] = first /\ tx[Len(tx)] = ix
  BY <1>1
<1>4. InstructionOk(A, first, {ask.who}) <=> Is(A, mint, "Mint")
  BY <1>2 DEF InstructionOk, CreateAtaOk
<1>5. InstructionDone(A, first) = B
  BY <1>2 DEF InstructionDone, CreateAtaDone, AtaOpened
<1>6. AfterFirst(A, tx) = B
  BY <1>3, <1>5 DEF AfterFirst
<1> QED
  BY <1>3, <1>4, <1>6 DEF TransactionOk, TransactionDone, ix, tx

(* The instruction that is sent carries the name of what was asked for.    *)
LEMMA DiscriminatorIs ==
  ASSUME NEW ask, Signed(ask)
  PROVE  Main(ask).data.discriminator = ask.op
<1>1. PICK input : SentAs(ask, input)
  BY DEF Signed
<1> QED
  BY <1>1 DEF SentAs, Assembled

(* The discriminator picks the handler, instruction by instruction.        *)
LEMMA InitConfigHandled ==
  ASSUME NEW ask, NEW A, ask.op = "initConfig", Signed(ask)
  PROVE  /\ InstructionOk(A, Main(ask), {ask.who}) <=> InitConfigOk(A, Meaning(ask))
         /\ InstructionDone(A, Main(ask)) = InitConfigDone(A, Meaning(ask))
BY DiscriminatorIs DEF Signed, InstructionOk, InstructionDone, Meaning

LEMMA FaucetHandled ==
  ASSUME NEW ask, NEW A, ask.op = "faucet", Signed(ask)
  PROVE  /\ InstructionOk(A, Main(ask), {ask.who}) <=> FaucetOk(A, Meaning(ask))
         /\ InstructionDone(A, Main(ask)) = FaucetDone(A, Meaning(ask))
BY DiscriminatorIs DEF Signed, InstructionOk, InstructionDone, Meaning

LEMMA CreatePoolHandled ==
  ASSUME NEW ask, NEW A, ask.op = "createPool", Signed(ask)
  PROVE  /\ InstructionOk(A, Main(ask), {ask.who}) <=> CreatePoolOk(A, Meaning(ask))
         /\ InstructionDone(A, Main(ask)) = CreatePoolDone(A, Meaning(ask))
BY DiscriminatorIs DEF Signed, InstructionOk, InstructionDone, Meaning

LEMMA AccrueHandled ==
  ASSUME NEW ask, NEW A, ask.op = "accrue", Signed(ask)
  PROVE  /\ InstructionOk(A, Main(ask), {ask.who}) <=> AccrueOk(A, Meaning(ask))
         /\ InstructionDone(A, Main(ask)) = A
BY DiscriminatorIs DEF Signed, InstructionOk, InstructionDone, Meaning

LEMMA DepositHandled ==
  ASSUME NEW ask, NEW A, ask.op = "deposit", Signed(ask)
  PROVE  /\ InstructionOk(A, Main(ask), {ask.who}) <=> DepositOk(A, Meaning(ask))
         /\ InstructionDone(A, Main(ask)) = A
BY DiscriminatorIs DEF Signed, InstructionOk, InstructionDone, Meaning

LEMMA RedeemHandled ==
  ASSUME NEW ask, NEW A, ask.op = "redeem", Signed(ask)
  PROVE  /\ InstructionOk(A, Main(ask), {ask.who}) <=> RedeemOk(A, Meaning(ask))
         /\ InstructionDone(A, Main(ask)) = A
BY DiscriminatorIs DEF Signed, InstructionOk, InstructionDone, Meaning

LEMMA RecordLossHandled ==
  ASSUME NEW ask, NEW A, ask.op = "recordLoss", Signed(ask)
  PROVE  /\ InstructionOk(A, Main(ask), {ask.who}) <=> RecordLossOk(A, Meaning(ask))
         /\ InstructionDone(A, Main(ask)) = RecordLossDone(A, Meaning(ask))
BY DiscriminatorIs DEF Signed, InstructionOk, InstructionDone, Meaning

LEMMA InitProtectionHandled ==
  ASSUME NEW ask, NEW A, ask.op = "initProtection", Signed(ask)
  PROVE  /\ InstructionOk(A, Main(ask), {ask.who}) <=> InitProtectionOk(A, Meaning(ask))
         /\ InstructionDone(A, Main(ask)) = InitProtectionDone(A, Meaning(ask))
BY DiscriminatorIs DEF Signed, InstructionOk, InstructionDone, Meaning

LEMMA ProvideHandled ==
  ASSUME NEW ask, NEW A, ask.op = "provideProtection", Signed(ask)
  PROVE  /\ InstructionOk(A, Main(ask), {ask.who}) <=> ProvideOk(A, Meaning(ask))
         /\ InstructionDone(A, Main(ask)) = ProvideDone(A, Meaning(ask))
BY DiscriminatorIs DEF Signed, InstructionOk, InstructionDone, Meaning

LEMMA WithdrawHandled ==
  ASSUME NEW ask, NEW A, ask.op = "withdrawProtection", Signed(ask)
  PROVE  /\ InstructionOk(A, Main(ask), {ask.who}) <=> WithdrawOk(A, Meaning(ask))
         /\ InstructionDone(A, Main(ask)) = A
BY DiscriminatorIs DEF Signed, InstructionOk, InstructionDone, Meaning

LEMMA BuyHandled ==
  ASSUME NEW ask, NEW A, ask.op = "buyProtection", Signed(ask)
  PROVE  /\ InstructionOk(A, Main(ask), {ask.who}) <=> BuyOk(A, Meaning(ask))
         /\ InstructionDone(A, Main(ask)) = BuyDone(A, Meaning(ask))
BY DiscriminatorIs DEF Signed, InstructionOk, InstructionDone, Meaning

LEMMA SettleHandled ==
  ASSUME NEW ask, NEW A, ask.op = "settleProtection", Signed(ask)
  PROVE  /\ InstructionOk(A, Main(ask), {ask.who}) <=> SettleOk(A, Meaning(ask))
         /\ InstructionDone(A, Main(ask)) = SettleDone(A, Meaning(ask))
BY DiscriminatorIs DEF Signed, InstructionOk, InstructionDone, Meaning

LEMMA ExpireHandled ==
  ASSUME NEW ask, NEW A, ask.op = "expireProtection", Signed(ask)
  PROVE  /\ InstructionOk(A, Main(ask), {ask.who}) <=> ExpireOk(A, Meaning(ask))
         /\ InstructionDone(A, Main(ask)) = ExpireDone(A, Meaning(ask))
BY DiscriminatorIs DEF Signed, InstructionOk, InstructionDone, Meaning

-----------------------------------------------------------------------------
(* The accounts.                                                           *)
ConfigAt(a, k) ==
  /\ k.kind = "Config" /\ a = ConfigAddress
  /\ {"kind", "authority", "mint", "treasury"} \subseteq DOMAIN k
  /\ k.authority \in Users /\ k.mint = MintAddress /\ k.treasury = TreasuryAddress

(* What an account of each kind is like where it lies.                     *)
PoolAt(a, k) ==
  /\ k.kind = "Pool" /\ a = PoolAddress(k.id)
  /\ {"kind", "id", "operator", "mint", "vault", "seniorMint", "juniorMint", "lossCount",
      "yieldRateBps", "seniorRateBps", "minJuniorBps", "perfFeeBps", "timeScale"} \subseteq DOMAIN k
  /\ k.id \in Pools /\ k.lossCount \in Nat
  /\ k.mint = MintAddress /\ k.vault = VaultAddress(a)
  /\ k.seniorMint = SeniorMintAddress(a) /\ k.juniorMint = JuniorMintAddress(a)

OfPool(k) == \E p \in Pools : k.pool = PoolAddress(p)

LossAt(a, k) ==
  /\ k.kind = "LossEvent" /\ a = LossEventAddress(k.pool, k.index)
  /\ {"kind", "pool", "index", "lossBps"} \subseteq DOMAIN k
  /\ OfPool(k) /\ k.index \in Nat

MarketAt(a, k) ==
  /\ k.kind = "ProtectionPool" /\ a = ProtectionAddress(k.pool)
  /\ {"kind", "pool", "pvault", "contracts"} \subseteq DOMAIN k
  /\ OfPool(k) /\ k.pvault = PvaultAddress(k.pool) /\ k.contracts \in Nat

SellerAt(a, k) ==
  /\ k.kind = "SellerPosition" /\ a = SellerAddress(k.pool, k.owner)
  /\ OfPool(k)

ContractAt(a, k) ==
  /\ k.kind = "ProtectionContract" /\ a = ContractAddress(k.pool, k.buyer, k.nonce)
  /\ {"kind", "pool", "buyer", "nonce", "status", "lossIndexFrom", "settledLossIndex"}
       \subseteq DOMAIN k
  /\ OfPool(k) /\ k.buyer \in Users /\ k.nonce \in Nat /\ k.lossIndexFrom \in Nat

MintAt(a, k) ==
  /\ k.kind = "Mint"
  /\ a \in {MintAddress, SeniorMintAddress(k.authority), JuniorMintAddress(k.authority)}

TokenAt(a, k) ==
  /\ k.kind = "Token"
  /\ \/ a = AtaAddress(k.owner, k.mint)
     \/ a = TreasuryAddress
     \/ a = VaultAddress(k.owner)
     \/ \E p \in Pools : a = PvaultAddress(PoolAddress(p))

(* Every account is of one of these kinds ...                              *)
AccountAt(a, k) ==
  \/ ConfigAt(a, k) \/ PoolAt(a, k) \/ LossAt(a, k) \/ MarketAt(a, k)
  \/ SellerAt(a, k) \/ ContractAt(a, k) \/ MintAt(a, k) \/ TokenAt(a, k)

(* ... and points at accounts that are there: a loss and a contract are    *)
(* counted by the pool and the market they belong to.                      *)
LinkedAt(A, a) ==
  LET k == A[a]
  IN  /\ k.kind = "Config" => MintAddress \in DOMAIN A
      /\ k.kind = "Pool" => /\ ConfigAddress \in DOMAIN A
                            /\ SeniorMintAddress(a) \in DOMAIN A
                            /\ JuniorMintAddress(a) \in DOMAIN A
      /\ k.kind = "LossEvent" => k.pool \in DOMAIN A /\ k.index < A[k.pool].lossCount
      /\ k.kind = "ProtectionPool" => k.pool \in DOMAIN A
      /\ k.kind = "SellerPosition" => ProtectionAddress(k.pool) \in DOMAIN A
      /\ k.kind = "ProtectionContract" =>
           /\ ProtectionAddress(k.pool) \in DOMAIN A
           /\ k.nonce < A[ProtectionAddress(k.pool)].contracts
      /\ k.kind = "Mint" => a = MintAddress \/ Is(A, k.authority, "Pool")
      /\ k.kind = "Token" /\ a = AtaAddress(k.owner, k.mint) => Is(A, k.mint, "Mint")

AccountsOK(A) ==
  \A a \in DOMAIN A : AccountAt(a, A[a]) /\ LinkedAt(A, a)

(* What an account may become, and how the accounts may change: only those *)
(* of the token library ever go away, counters never fall, a loss stays on *)
(* record as it is, and a contract that is closed stays closed.            *)
Follows(k, l) ==
  /\ l.kind = k.kind
  /\ k.kind = "Pool" => l.lossCount >= k.lossCount
  /\ k.kind = "ProtectionPool" => l.contracts >= k.contracts
  /\ k.kind = "LossEvent" => l = k
  /\ k.kind = "ProtectionContract" /\ k.status # "active" => l.status = k.status

Grows(A, B) ==
  \A a \in DOMAIN A : A[a].kind # "Token" => a \in DOMAIN B /\ Follows(A[a], B[a])

(* A request: its operation, its people, its pool and its numbers.         *)
Ops == Once \cup {"faucet", "accrue", "deposit", "redeem", "provideProtection",
  "withdrawProtection"}

AskOK(ask) ==
  /\ ask.op \in Ops
  /\ ask.who \in Users /\ ask.buyer \in Users
  /\ ask.op # "initConfig" => ask.pool \in Pools
  /\ ask.nonce \in Nat /\ ask.index \in Nat
  /\ ask.op \in {"deposit", "redeem"} => ask.tranche \in {"senior", "junior"}

(* A purchase was numbered by the counter of a market that was there.      *)
Known(A, ask) ==
  ask.op = "buyProtection" =>
    /\ ProtectionAddress(PoolAddress(ask.pool)) \in DOMAIN A
    /\ ask.nonce <= A[ProtectionAddress(PoolAddress(ask.pool))].contracts

(* What is left behind by a request that cannot be meant twice.            *)
Spent(A, ask) ==
  LET pool == PoolAddress(ask.pool)
      contract == ContractAddress(pool, ask.buyer, ask.nonce)
  IN  /\ ask.op \in Once
      /\ ask.op = "initConfig" => ConfigAddress \in DOMAIN A
      /\ ask.op = "createPool" => pool \in DOMAIN A
      /\ ask.op = "initProtection" => ProtectionAddress(pool) \in DOMAIN A
      /\ ask.op = "recordLoss" => pool \in DOMAIN A /\ A[pool].lossCount > ask.index
      /\ ask.op = "buyProtection" => ContractAddress(pool, ask.who, ask.nonce) \in DOMAIN A
      /\ ask.op \in {"settleProtection", "expireProtection"} =>
           contract \in DOMAIN A /\ A[contract].status # "active"

(* One tab, one page, one tool.                                            *)
AtMostOne(S) == \A x, y \in S : x = y

ToolOK ==
  /\ tool \in ToolStates
  /\ tool.stage # "rest" => tool.id \in Pools
  /\ tool.sends => tool.stage # "rest"

(* The inductive invariant: the accounts are linked, what waits was built  *)
(* from accounts that were there, and of everything that landed the trace  *)
(* is still there.                                                         *)
ClientInv ==
  /\ cast \in Casts
  /\ AccountsOK(accts)
  /\ \A ask \in tab : AskOK(ask) /\ Known(accts, ask)
  /\ \A ask \in landed : AskOK(ask) /\ Spent(accts, ask)
  /\ AtMostOne(tab) /\ AtMostOne(page)
  /\ ToolOK

-----------------------------------------------------------------------------
(* What lies at an address.                                                *)
USE DEF AccountAt, ConfigAt, PoolAt, LossAt, MarketAt, SellerAt, ContractAt, MintAt, TokenAt,
        Pda, AtaAddress, ConfigAddress, MintAddress, TreasuryAddress, PoolAddress, VaultAddress,
        SeniorMintAddress, JuniorMintAddress, LossEventAddress, ProtectionAddress, PvaultAddress,
        SellerAddress, ContractAddress

(* What lies at an address is the account of these seeds, kind by kind.    *)
LEMMA ConfigThere ==
  ASSUME NEW A, AccountsOK(A), ConfigAddress \in DOMAIN A
  PROVE  ConfigAt(ConfigAddress, A[ConfigAddress]) /\ LinkedAt(A, ConfigAddress)
BY DEF AccountsOK

LEMMA PoolThere ==
  ASSUME NEW A, AccountsOK(A), NEW p, PoolAddress(p) \in DOMAIN A
  PROVE  LET a == PoolAddress(p)
         IN  PoolAt(a, A[a]) /\ LinkedAt(A, a) /\ A[a].id = p
BY DEF AccountsOK

LEMMA MarketThere ==
  ASSUME NEW A, AccountsOK(A), NEW pool, ProtectionAddress(pool) \in DOMAIN A
  PROVE  LET a == ProtectionAddress(pool)
         IN  MarketAt(a, A[a]) /\ LinkedAt(A, a) /\ A[a].pool = pool
BY DEF AccountsOK

LEMMA LossThere ==
  ASSUME NEW A, AccountsOK(A), NEW pool, NEW i, LossEventAddress(pool, i) \in DOMAIN A
  PROVE  LET a == LossEventAddress(pool, i)
         IN  LossAt(a, A[a]) /\ LinkedAt(A, a) /\ A[a].pool = pool /\ A[a].index = i
BY DEF AccountsOK

LEMMA SellerThere ==
  ASSUME NEW A, AccountsOK(A), NEW pool, NEW who, SellerAddress(pool, who) \in DOMAIN A
  PROVE  LET a == SellerAddress(pool, who)
         IN  SellerAt(a, A[a]) /\ LinkedAt(A, a) /\ A[a].pool = pool
BY DEF AccountsOK

LEMMA ContractThere ==
  ASSUME NEW A, AccountsOK(A), NEW pool, NEW who, NEW n, ContractAddress(pool, who, n)
    \in DOMAIN A
  PROVE  LET a == ContractAddress(pool, who, n)
         IN  /\ ContractAt(a, A[a]) /\ LinkedAt(A, a)
             /\ A[a].pool = pool /\ A[a].buyer = who /\ A[a].nonce = n
BY DEF AccountsOK

LEMMA MintThere ==
  ASSUME NEW A, AccountsOK(A), NEW pool,
         NEW a \in {MintAddress, SeniorMintAddress(pool), JuniorMintAddress(pool)}, a \in DOMAIN A
  PROVE  /\ MintAt(a, A[a])
         /\ a # MintAddress => Is(A, pool, "Pool")
<1>1. MintAt(a, A[a]) /\ LinkedAt(A, a)
  BY DEF AccountsOK
<1>2. a # MintAddress => A[a].authority = pool
  BY <1>1
<1> QED
  BY <1>1, <1>2 DEF LinkedAt

LEMMA AtaThere ==
  ASSUME NEW A, AccountsOK(A), NEW who, NEW mint, AtaAddress(who, mint) \in DOMAIN A
  PROVE  LET a == AtaAddress(who, mint)
         IN  /\ A[a].kind = "Token" /\ A[a].owner = who /\ A[a].mint = mint
             /\ Is(A, mint, "Mint")
<1> DEFINE a == AtaAddress(who, mint)
<1>1. TokenAt(a, A[a]) /\ LinkedAt(A, a)
  BY DEF AccountsOK
<1>2. A[a].owner = who /\ A[a].mint = mint
  BY <1>1
<1> QED
  BY <1>1, <1>2 DEF LinkedAt

HIDE DEF AccountAt, ConfigAt, PoolAt, LossAt, MarketAt, SellerAt, ContractAt, MintAt, TokenAt,
         Pda, AtaAddress, ConfigAddress, MintAddress, TreasuryAddress, PoolAddress, VaultAddress,
         SeniorMintAddress, JuniorMintAddress, LossEventAddress, ProtectionAddress, PvaultAddress,
         SellerAddress, ContractAddress

-----------------------------------------------------------------------------
(* How the accounts change.                                                *)
Extends(A, B) == DOMAIN A \subseteq DOMAIN B /\ \A a \in DOMAIN A : B[a] = A[a]

(* Accounts are added one at a time, at addresses that are free.           *)
Added(A, B) == DOMAIN B \ DOMAIN A

(* To open an account is to add it, or to do nothing if it is there.       *)
LEMMA OpeningIs ==
  ASSUME NEW A, NEW x, NEW k
  PROVE  LET B == Opening(A, x, k)
         IN  /\ Extends(A, B) /\ DOMAIN B = DOMAIN A \cup {x}
             /\ x \notin DOMAIN A => B[x] = k
BY DEF Opening, Extends

LEMMA OpeningWhereOpen ==
  ASSUME NEW A, NEW x \in DOMAIN A, NEW k, A = [a \in DOMAIN A |-> A[a]]
  PROVE  Opening(A, x, k) = A
BY DEF Opening

(* Additions one after the other.                                          *)
LEMMA ExtendsTransitive ==
  ASSUME NEW A, NEW B, NEW C, Extends(A, B), Extends(B, C)
  PROVE  Extends(A, C)
BY DEF Extends

(* New accounts at their own addresses, with what they refer to.           *)
LEMMA ExtendingKeeps ==
  ASSUME NEW A, NEW B, AccountsOK(A), Extends(A, B),
         \A a \in Added(A, B) : AccountAt(a, B[a]) /\ LinkedAt(B, a)
  PROVE  AccountsOK(B) /\ Grows(A, B)
<1>1. ASSUME NEW a \in DOMAIN A
      PROVE  AccountAt(a, B[a]) /\ LinkedAt(B, a)
  <2>1. AccountAt(a, A[a]) /\ LinkedAt(A, a) /\ B[a] = A[a]
    BY DEF AccountsOK, Extends
  <2> QED
    BY <2>1 DEF LinkedAt, Extends, Is
<1>2. AccountsOK(B)
  BY <1>1 DEF AccountsOK, Added
<1>3. ASSUME NEW a \in DOMAIN A
      PROVE  a \in DOMAIN B /\ Follows(A[a], B[a])
  <2>1. a \in DOMAIN B /\ B[a] = A[a] /\ AccountAt(a, A[a])
    BY DEF AccountsOK, Extends
  <2>2. /\ A[a].kind = "Pool" => A[a].lossCount \in Nat
        /\ A[a].kind = "ProtectionPool" => A[a].contracts \in Nat
    BY <2>1 DEF AccountAt, ConfigAt, PoolAt, LossAt, MarketAt, SellerAt, ContractAt, MintAt,
                TokenAt
  <2> QED
    BY <2>1, <2>2 DEF Follows
<1> QED
  BY <1>2, <1>3 DEF Grows

(* The fields of an account that the fields of other accounts hang on.     *)
SameAnchor(k, l) ==
  /\ l.kind = k.kind /\ DOMAIN l = DOMAIN k
  /\ k.kind = "Pool" => l.lossCount >= k.lossCount
  /\ k.kind = "ProtectionPool" => l.contracts >= k.contracts

(* One account is changed in place.                                        *)
LEMMA ChangingKeeps ==
  ASSUME NEW A, AccountsOK(A), NEW x \in DOMAIN A, NEW l,
         AccountAt(x, l), Follows(A[x], l), A[x].kind \in {"Pool", "ProtectionPool",
           "ProtectionContract"},
         A[x].kind # "Pool" => l.pool = A[x].pool,
         A[x].kind = "ProtectionContract" => l.nonce = A[x].nonce
  PROVE  LET B == [A EXCEPT ![x] = l]
         IN  AccountsOK(B) /\ Grows(A, B)
<1> DEFINE B == [A EXCEPT ![x] = l]
<1>1. DOMAIN B = DOMAIN A /\ B[x] = l /\ \A a \in DOMAIN A : a # x => B[a] = A[a]
  OBVIOUS
<1> HIDE DEF B
<1>2. \A a \in DOMAIN A : AccountAt(a, A[a]) /\ LinkedAt(A, a)
  BY DEF AccountsOK
<1>3. /\ A[x].kind = "Pool" => A[x].lossCount \in Nat /\ l.lossCount \in Nat
      /\ A[x].kind = "ProtectionPool" => A[x].contracts \in Nat /\ l.contracts \in Nat
      /\ l.kind = A[x].kind
  BY <1>2 DEF AccountAt, ConfigAt, PoolAt, LossAt, MarketAt, SellerAt, ContractAt, MintAt,
              TokenAt, Follows
<1>4. ASSUME NEW a \in DOMAIN A
      PROVE  a \in DOMAIN B /\ Follows(A[a], B[a])
  <2>1. CASE a = x
    BY <1>1, <2>1
  <2>2. CASE a # x
    <3>1. /\ A[a].kind = "Pool" => A[a].lossCount \in Nat
          /\ A[a].kind = "ProtectionPool" => A[a].contracts \in Nat
      BY <1>2 DEF AccountAt, ConfigAt, PoolAt, LossAt, MarketAt, SellerAt, ContractAt, MintAt,
                  TokenAt
    <3> QED
      BY <1>1, <2>2, <3>1 DEF Follows
  <2> QED
    BY <2>1, <2>2
<1>5. ASSUME NEW a \in DOMAIN A
      PROVE  LinkedAt(B, a)
  <2>1. /\ B[a].kind = A[a].kind
        /\ a # x => B[a] = A[a]
    BY <1>1, <1>3
  <2>2. CASE A[a].kind = "LossEvent"
    <3>1. /\ LossAt(a, A[a]) /\ LinkedAt(A, a) /\ a # x
      BY <1>2, <2>2 DEF AccountAt, ConfigAt, PoolAt, LossAt, MarketAt, SellerAt, ContractAt,
                        MintAt, TokenAt
    <3>2. A[a].pool \in DOMAIN A /\ A[a].index < A[A[a].pool].lossCount
      BY <2>2, <3>1 DEF LinkedAt
    <3>3. PICK p \in Pools : A[a].pool = PoolAddress(p)
      BY <3>1 DEF LossAt, OfPool
    <3>4. PoolAt(A[a].pool, A[A[a].pool])
      BY <3>2, <3>3, PoolThere
    <3>5. B[A[a].pool].lossCount >= A[A[a].pool].lossCount /\ B[A[a].pool].lossCount \in Nat
      BY <1>1, <1>3, <3>2, <3>4 DEF PoolAt, Follows
    <3> QED
      BY <1>1, <2>1, <2>2, <3>1, <3>2, <3>4, <3>5 DEF LinkedAt, LossAt, PoolAt
  <2>3. CASE A[a].kind = "ProtectionContract"
    <3> DEFINE market == ProtectionAddress(A[a].pool)
    <3>1. /\ ContractAt(a, A[a]) /\ LinkedAt(A, a)
      BY <1>2, <2>3 DEF AccountAt, ConfigAt, PoolAt, LossAt, MarketAt, SellerAt, ContractAt,
                        MintAt, TokenAt
    <3>2. market \in DOMAIN A /\ A[a].nonce < A[market].contracts
      BY <2>3, <3>1 DEF LinkedAt
    <3>3. MarketAt(market, A[market])
      BY <3>2, MarketThere
    <3>4. B[market].contracts >= A[market].contracts /\ B[market].contracts \in Nat
      BY <1>1, <1>3, <3>2, <3>3 DEF MarketAt, Follows
    <3>5. B[a].pool = A[a].pool /\ B[a].nonce = A[a].nonce /\ A[a].nonce \in Nat
      BY <1>1, <2>3, <3>1 DEF ContractAt
    <3> QED
      BY <1>1, <2>1, <2>3, <3>2, <3>3, <3>4, <3>5 DEF LinkedAt, MarketAt
  <2>4. CASE A[a].kind \notin {"LossEvent", "ProtectionContract"}
    <3>1. LinkedAt(A, a) /\ (a = x /\ A[a].kind # "Pool" => B[a].pool = A[a].pool)
      BY <1>1, <1>2
    <3>2. a = x => A[a].kind \in {"Pool", "ProtectionPool", "ProtectionContract"}
      OBVIOUS
    <3> QED
      BY <1>1, <1>3, <2>1, <2>4, <3>1, <3>2 DEF LinkedAt, Is
  <2> QED
    BY <2>2, <2>3, <2>4
<1>6. \A a \in DOMAIN A : AccountAt(a, B[a])
  BY <1>1, <1>2
<1> QED
  BY <1>1, <1>4, <1>5, <1>6 DEF AccountsOK, Grows, B

(* Growing is transitive and reflexive.                                    *)
LEMMA GrowsTransitive ==
  ASSUME NEW A, NEW B, NEW C, AccountsOK(A), AccountsOK(B), AccountsOK(C), Grows(A, B), Grows(B,
    C)
  PROVE  Grows(A, C)
<1>1. ASSUME NEW D, AccountsOK(D), NEW a \in DOMAIN D
      PROVE  /\ D[a].kind = "Pool" => D[a].lossCount \in Nat
             /\ D[a].kind = "ProtectionPool" => D[a].contracts \in Nat
  BY <1>1 DEF AccountsOK, AccountAt, ConfigAt, PoolAt, LossAt, MarketAt, SellerAt, ContractAt,
     MintAt,
              TokenAt
<1>2. ASSUME NEW a \in DOMAIN A, A[a].kind # "Token"
      PROVE  a \in DOMAIN C /\ Follows(A[a], C[a])
  <2>1. a \in DOMAIN B /\ Follows(A[a], B[a])
    BY <1>2 DEF Grows
  <2>2. B[a].kind # "Token"
    BY <1>2, <2>1 DEF Follows
  <2>3. a \in DOMAIN C /\ Follows(B[a], C[a])
    BY <2>1, <2>2 DEF Grows
  <2> QED
    BY <1>1, <2>1, <2>3 DEF Follows
<1> QED
  BY <1>2 DEF Grows

LEMMA GrowsReflexive ==
  ASSUME NEW A, AccountsOK(A)
  PROVE  Grows(A, A)
BY ExtendingKeeps DEF Extends, Added

(* An account of the token library is closed.                              *)
LEMMA ClosingKeeps ==
  ASSUME NEW A, AccountsOK(A), NEW who
  PROVE  LET B == [a \in DOMAIN A \ {AtaAddress(who, MintAddress)} |-> A[a]]
         IN  AccountsOK(B) /\ Grows(A, B)
<1> DEFINE x == AtaAddress(who, MintAddress)
           B == [a \in DOMAIN A \ {x} |-> A[a]]
<1>1. DOMAIN B = DOMAIN A \ {x} /\ \A a \in DOMAIN B : B[a] = A[a]
  OBVIOUS
<1> HIDE DEF B
<1>2. \A a \in DOMAIN A : AccountAt(a, A[a]) /\ LinkedAt(A, a)
  BY DEF AccountsOK
<1>3. x \in DOMAIN A => A[x].kind = "Token"
  BY AtaThere
<1>4. /\ x # MintAddress /\ x # ConfigAddress
      /\ \A p : /\ x # SeniorMintAddress(p) /\ x # JuniorMintAddress(p)
                /\ x # ProtectionAddress(p) /\ x # PoolAddress(p)
  BY DEF Pda, AtaAddress, ConfigAddress, MintAddress, PoolAddress, SeniorMintAddress,
         JuniorMintAddress, ProtectionAddress
<1>5. ASSUME NEW a \in DOMAIN B
      PROVE  LinkedAt(B, a)
  <2>1. AccountAt(a, A[a]) /\ LinkedAt(A, a) /\ B[a] = A[a]
    BY <1>1, <1>2
  <2>2. \A y \in DOMAIN A : A[y].kind # "Token" => y \in DOMAIN B /\ B[y] = A[y]
    BY <1>1, <1>3
  <2>3. A[a].kind \in {"LossEvent", "ProtectionPool"} => A[a].pool # x
    <3>1. A[a].kind \in {"LossEvent", "ProtectionPool"} => OfPool(A[a])
      BY <2>1 DEF AccountAt, ConfigAt, PoolAt, LossAt, MarketAt, SellerAt, ContractAt, MintAt,
                  TokenAt
    <3> QED
      BY <1>4, <3>1 DEF OfPool
  <2> QED
    BY <1>1, <1>4, <2>1, <2>2, <2>3 DEF LinkedAt, Is
<1>6. ASSUME NEW a \in DOMAIN A, A[a].kind # "Token"
      PROVE  a \in DOMAIN B /\ B[a] = A[a]
  BY <1>1, <1>3, <1>6
<1>7. AccountsOK(B)
  BY <1>1, <1>2, <1>5 DEF AccountsOK
<1>8. Grows(A, A)
  BY GrowsReflexive
<1> QED
  BY <1>6, <1>7, <1>8 DEF Grows, B

-----------------------------------------------------------------------------
(* What that does to the ledger.                                           *)
LEMMA ContractsStand ==
  ASSUME NEW A, AccountsOK(A), NEW a \in ContractAccounts(A)
  PROVE  /\ ContractAt(a, A[a])
         /\ ProtectionAddress(A[a].pool) \in DOMAIN A
         /\ Is(A, A[a].pool, "Pool")
         /\ A[A[a].pool].id \in Pools /\ A[a].pool = PoolAddress(A[A[a].pool].id)
<1>1. a \in DOMAIN A /\ A[a].kind = "ProtectionContract" /\ AccountAt(a, A[a]) /\ LinkedAt(A, a)
  BY DEF ContractAccounts, AccountsOK
<1>2. ContractAt(a, A[a])
  BY <1>1 DEF AccountAt, ConfigAt, PoolAt, LossAt, MarketAt, SellerAt, ContractAt, MintAt, TokenAt
<1>3. ProtectionAddress(A[a].pool) \in DOMAIN A
  BY <1>1 DEF LinkedAt
<1>4. A[a].pool \in DOMAIN A
  <2> DEFINE m == ProtectionAddress(A[a].pool)
  <2>1. MarketAt(m, A[m]) /\ LinkedAt(A, m) /\ A[m].pool = A[a].pool
    BY <1>3, MarketThere
  <2> QED
    BY <2>1 DEF LinkedAt, MarketAt
<1>5. PICK p \in Pools : A[a].pool = PoolAddress(p)
  BY <1>2 DEF ContractAt, OfPool
<1>6. PoolAt(A[a].pool, A[A[a].pool]) /\ A[A[a].pool].id = p
  BY <1>4, <1>5, PoolThere
<1> QED
  BY <1>2, <1>3, <1>4, <1>5, <1>6 DEF PoolAt, Is

(* Accounts that are added change the ledger by what they stand for.       *)
LEMMA ExtendingLedger ==
  ASSUME NEW A, NEW B, AccountsOK(A), Extends(A, B)
  PROVE  /\ ConfigAddress \notin Added(A, B) => AuthorityIn(B) = AuthorityIn(A)
         /\ (\A p \in Pools : PoolAddress(p) \notin Added(A, B))
              => PoolsIn(B) = PoolsIn(A) /\ LossesIn(B) = LossesIn(A)
         /\ (\A p \in Pools : ProtectionAddress(PoolAddress(p)) \notin Added(A, B))
              => MarketsIn(B) = MarketsIn(A)
         /\ (\A a \in Added(A, B) : B[a].kind # "ProtectionContract")
              => ContractsIn(B) = ContractsIn(A)
<1>1. ConfigAddress \notin Added(A, B) => AuthorityIn(B) = AuthorityIn(A)
  BY DEF Added, Extends, AuthorityIn
<1>2. ASSUME \A p \in Pools : PoolAddress(p) \notin Added(A, B)
      PROVE  PoolsIn(B) = PoolsIn(A) /\ LossesIn(B) = LossesIn(A)
  BY <1>2 DEF Added, Extends, PoolsIn, LossesIn
<1>3. ASSUME \A p \in Pools : ProtectionAddress(PoolAddress(p)) \notin Added(A, B)
      PROVE  MarketsIn(B) = MarketsIn(A)
  BY <1>3 DEF Added, Extends, MarketsIn
<1>4. ASSUME \A a \in Added(A, B) : B[a].kind # "ProtectionContract"
      PROVE  ContractsIn(B) = ContractsIn(A)
  <2>1. ContractAccounts(B) = ContractAccounts(A)
    BY <1>4 DEF Added, Extends, ContractAccounts
  <2>2. ASSUME NEW a \in ContractAccounts(A)
        PROVE  Standing(B, B[a]) = Standing(A, A[a])
    <3>1. B[a] = A[a] /\ B[A[a].pool] = A[A[a].pool]
      BY ContractsStand DEF Extends, ContractAccounts, Is
    <3> QED
      BY <3>1 DEF Standing
  <2> QED
    BY <2>1, <2>2 DEF ContractsIn
<1> QED
  BY <1>1, <1>2, <1>3, <1>4

(* The ledger does not move.                                               *)
Unmoved(A, B) ==
  /\ AuthorityIn(B) = AuthorityIn(A) /\ PoolsIn(B) = PoolsIn(A) /\ MarketsIn(B) = MarketsIn(A)
  /\ LossesIn(B) = LossesIn(A) /\ ContractsIn(B) = ContractsIn(A)

(* Accounts of the token library, and of sellers, are not on the ledger.   *)
LEMMA FurnishingKeeps ==
  ASSUME NEW A, AccountsOK(A), NEW x, NEW k, NEW B, B = Opening(A, x, k),
         \/ /\ TokenAt(x, k) /\ x = AtaAddress(k.owner, k.mint) /\ Is(A, k.mint, "Mint")
         \/ /\ SellerAt(x, k) /\ ProtectionAddress(k.pool) \in DOMAIN A
  PROVE  AccountsOK(B) /\ Grows(A, B) /\ Unmoved(A, B)
<1>1. /\ Extends(A, B) /\ DOMAIN B = DOMAIN A \cup {x}
      /\ x \notin DOMAIN A => B[x] = k
  BY OpeningIs
<1>2. \A a \in Added(A, B) : a = x /\ B[a] = k
  BY <1>1 DEF Added
<1>3. k.kind \in {"Token", "SellerPosition"} /\ AccountAt(x, k)
  BY DEF TokenAt, SellerAt, AccountAt
<1>4. /\ k.kind = "Token" => /\ x = AtaAddress(k.owner, k.mint) /\ Is(A, k.mint, "Mint")
      /\ k.kind = "SellerPosition" => /\ x = SellerAddress(k.pool, k.owner)
                                      /\ ProtectionAddress(k.pool) \in DOMAIN A
  BY DEF TokenAt, SellerAt
<1>5. \A a \in Added(A, B) : AccountAt(a, B[a]) /\ LinkedAt(B, a)
  BY <1>1, <1>2, <1>3, <1>4 DEF LinkedAt, Extends, Is
<1>6. /\ x # ConfigAddress
      /\ \A p \in Pools : x # PoolAddress(p) /\ x # ProtectionAddress(PoolAddress(p))
  BY <1>3, <1>4 DEF AtaAddress, SellerAddress, Pda, ConfigAddress, PoolAddress, ProtectionAddress
<1>7. Unmoved(A, B)
  BY <1>1, <1>2, <1>3, <1>6, ExtendingLedger DEF Unmoved
<1> QED
  BY <1>1, <1>5, <1>7, ExtendingKeeps

(* The creation of an account of the token library.                        *)
LEMMA AtaOpenedKeeps ==
  ASSUME NEW A, AccountsOK(A), NEW who, NEW mint, Is(A, mint, "Mint"),
         NEW B, B = AtaOpened(A, who, mint)
  PROVE  AccountsOK(B) /\ Grows(A, B) /\ Unmoved(A, B)
<1> DEFINE k == TokenAccount(mint, who)
<1>1. k.kind = "Token" /\ k.owner = who /\ k.mint = mint
  BY DEF TokenAccount
<1> HIDE DEF k
<1>2. TokenAt(AtaAddress(who, mint), k)
  BY <1>1 DEF TokenAt
<1> QED
  BY <1>1, <1>2, FurnishingKeeps DEF AtaOpened, k

(* Nor does closing one move it.                                           *)
LEMMA ClosingUnmoved ==
  ASSUME NEW A, AccountsOK(A), NEW who, NEW B,
         B = [a \in DOMAIN A \ {AtaAddress(who, MintAddress)} |-> A[a]]
  PROVE  Unmoved(A, B)
<1> DEFINE x == AtaAddress(who, MintAddress)
<1>1. DOMAIN B = DOMAIN A \ {x} /\ \A a \in DOMAIN B : B[a] = A[a]
  OBVIOUS
<1>2. x \in DOMAIN A => A[x].kind = "Token"
  BY AtaThere
<1>3. /\ x # ConfigAddress
      /\ \A p \in Pools : x # PoolAddress(p) /\ x # ProtectionAddress(PoolAddress(p))
  BY DEF AtaAddress, Pda, ConfigAddress, PoolAddress, ProtectionAddress
<1>4. AuthorityIn(B) = AuthorityIn(A)
  BY <1>1, <1>3 DEF AuthorityIn
<1>5. PoolsIn(B) = PoolsIn(A) /\ MarketsIn(B) = MarketsIn(A) /\ LossesIn(B) = LossesIn(A)
  BY <1>1, <1>3 DEF PoolsIn, MarketsIn, LossesIn
<1>6. ContractAccounts(B) = ContractAccounts(A)
  BY <1>1, <1>2 DEF ContractAccounts
<1>7. ASSUME NEW a \in ContractAccounts(A)
      PROVE  Standing(B, B[a]) = Standing(A, A[a])
  <2>1. B[a] = A[a]
    BY <1>1, <1>6 DEF ContractAccounts
  <2>2. B[A[a].pool] = A[A[a].pool]
    BY <1>1, <1>2, ContractsStand DEF Is
  <2> QED
    BY <2>1, <2>2 DEF Standing
<1>8. ContractsIn(B) = ContractsIn(A)
  BY <1>6, <1>7 DEF ContractsIn
<1> QED
  BY <1>4, <1>5, <1>8 DEF Unmoved

-----------------------------------------------------------------------------
(* Requests that leave the ledger alone.                                   *)
LEMMA BaseMintThere ==
  ASSUME NEW A, AccountsOK(A), ConfigAddress \in DOMAIN A
  PROVE  Is(A, MintAddress, "Mint")
<1>1. MintAddress \in DOMAIN A
  BY ConfigThere DEF ConfigAt, LinkedAt
<1> QED
  BY <1>1, MintThere DEF MintAt, Is

(* What each request does to the accounts, when it is taken.               *)
LEMMA AccrueCarried ==
  ASSUME NEW ask, NEW A, ask.op = "accrue"
  PROVE  TransactionDone(A, Transaction(ask)) = A
<1>1. Signed(ask) /\ Alone(ask)
  BY AccrueMeans
<1>2. TransactionDone(A, Transaction(ask)) = InstructionDone(A, Main(ask))
  BY <1>1, AloneTakes
<1>3. InstructionDone(A, Main(ask)) = A
  BY <1>1, AccrueHandled
<1> QED
  BY <1>2, <1>3

LEMMA FaucetCarried ==
  ASSUME NEW ask, NEW A, ask.op = "faucet", AccountsOK(A),
         TransactionOk(A, Transaction(ask), {ask.who}),
         NEW B, B = TransactionDone(A, Transaction(ask))
  PROVE  AccountsOK(B) /\ Grows(A, B) /\ Unmoved(A, B)
<1> DEFINE c == Meaning(ask)
<1>1. /\ FaucetOk(A, c) /\ B = FaucetDone(A, c)
      /\ c.config = ConfigAddress /\ c.mint = MintAddress
      /\ c.ownerAta = AtaAddress(ask.who, MintAddress) /\ c.owner = ask.who
  BY FaucetMeans, AloneTakes, FaucetHandled
<1>2. B = AtaOpened(A, ask.who, MintAddress)
  BY <1>1 DEF FaucetDone, AtaOpened
<1>3. ConfigAddress \in DOMAIN A
  BY <1>1 DEF FaucetOk, ConfigOk, Is
<1> QED
  BY <1>2, <1>3, BaseMintThere, AtaOpenedKeeps

LEMMA DepositCarried ==
  ASSUME NEW ask, NEW A, ask.op = "deposit", AccountsOK(A),
         TransactionOk(A, Transaction(ask), {ask.who}),
         NEW B, B = TransactionDone(A, Transaction(ask))
  PROVE  AccountsOK(B) /\ Grows(A, B) /\ Unmoved(A, B)
<1> DEFINE mint == TrancheMint(PoolAccounts(ask.pool), ask.tranche)
<1>1. Signed(ask) /\ Opens(ask, mint)
  BY DepositMeans
<1> HIDE DEF mint
<1>2. Is(A, mint, "Mint") /\ B = AtaOpened(A, ask.who, mint)
  BY <1>1, OpensTakes, DepositHandled
<1> QED
  BY <1>2, AtaOpenedKeeps

LEMMA RedeemCarried ==
  ASSUME NEW ask, NEW A, ask.op = "redeem", AccountsOK(A),
         TransactionOk(A, Transaction(ask), {ask.who}),
         NEW B, B = TransactionDone(A, Transaction(ask))
  PROVE  AccountsOK(B) /\ Grows(A, B) /\ Unmoved(A, B)
<1>1. Signed(ask) /\ Opens(ask, MintAddress)
  BY RedeemMeans
<1>2. Is(A, MintAddress, "Mint") /\ B = AtaOpened(A, ask.who, MintAddress)
  BY <1>1, OpensTakes, RedeemHandled
<1> QED
  BY <1>2, AtaOpenedKeeps

LEMMA WithdrawCarried ==
  ASSUME NEW ask, NEW A, ask.op = "withdrawProtection", AccountsOK(A),
         TransactionOk(A, Transaction(ask), {ask.who}),
         NEW B, B = TransactionDone(A, Transaction(ask))
  PROVE  AccountsOK(B) /\ Grows(A, B) /\ Unmoved(A, B)
<1>1. Signed(ask) /\ Opens(ask, MintAddress)
  BY WithdrawProtectionMeans
<1>2. Is(A, MintAddress, "Mint") /\ B = AtaOpened(A, ask.who, MintAddress)
  BY <1>1, OpensTakes, WithdrawHandled
<1> QED
  BY <1>2, AtaOpenedKeeps

LEMMA ProvideCarried ==
  ASSUME NEW ask, NEW A, ask.op = "provideProtection", ask.pool \in Pools, AccountsOK(A),
         TransactionOk(A, Transaction(ask), {ask.who}),
         NEW B, B = TransactionDone(A, Transaction(ask))
  PROVE  AccountsOK(B) /\ Grows(A, B) /\ Unmoved(A, B)
<1> DEFINE c == Meaning(ask)
           pool == PoolAddress(ask.pool)
           k == [kind |-> "SellerPosition", pool |-> c.pool, owner |-> c.owner]
<1>1. /\ ProvideOk(A, c) /\ B = ProvideDone(A, c)
      /\ c.pool = pool /\ c.protection = ProtectionAddress(pool)
      /\ c.position = SellerAddress(pool, ask.who) /\ c.owner = ask.who
  BY ProvideProtectionMeans, AloneTakes, ProvideHandled DEF MarketOf
<1>2. ProtectionAddress(pool) \in DOMAIN A
  BY <1>1 DEF ProvideOk, MarketOk, Is
<1>3. k.kind = "SellerPosition" /\ k.pool = pool /\ k.owner = ask.who
  BY <1>1
<1>4. B = Opening(A, SellerAddress(pool, ask.who), k)
  BY <1>1 DEF ProvideDone
<1> HIDE DEF k
<1>5. SellerAt(SellerAddress(pool, ask.who), k)
  BY <1>3 DEF SellerAt, OfPool
<1> QED
  BY <1>2, <1>3, <1>4, <1>5, FurnishingKeeps

-----------------------------------------------------------------------------
(* Requests that open something.                                           *)
LEMMA InitConfigCarried ==
  ASSUME NEW ask, NEW A, ask.op = "initConfig", ask.who \in Users, AccountsOK(A),
         TransactionOk(A, Transaction(ask), {ask.who}),
         NEW B, B = TransactionDone(A, Transaction(ask))
  PROVE  /\ AccountsOK(B) /\ Grows(A, B) /\ Spent(B, ask)
         /\ AuthorityIn(A) = {} /\ AuthorityIn(B) = {ask.who}
         /\ PoolsIn(B) = PoolsIn(A) /\ MarketsIn(B) = MarketsIn(A)
         /\ LossesIn(B) = LossesIn(A) /\ ContractsIn(B) = ContractsIn(A)
<1> DEFINE c == Meaning(ask)
           k == [kind |-> "Config", authority |-> c.authority, mint |-> c.mint,
                 treasury |-> c.treasury, faucetCap |-> c.faucetCap]
           first == Opening(A, MintAddress, Mint(ConfigAddress))
           second == Opening(first, TreasuryAddress, TokenAccount(MintAddress, ask.who))
<1>1. /\ InitConfigOk(A, c) /\ B = InitConfigDone(A, c)
      /\ c.config = ConfigAddress /\ c.mint = MintAddress
      /\ c.treasury = TreasuryAddress /\ c.authority = ask.who
  BY InitConfigMeans, AloneTakes, InitConfigHandled
<1>2. ConfigAddress \notin DOMAIN A /\ MintAddress \notin DOMAIN A
      /\ TreasuryAddress \notin DOMAIN A
  BY <1>1 DEF InitConfigOk, New
<1>3. B = Opening(second, ConfigAddress, k)
  BY <1>1 DEF InitConfigDone
<1>4. /\ k.kind = "Config" /\ k.authority = ask.who /\ k.mint = MintAddress
      /\ k.treasury = TreasuryAddress
      /\ {"kind", "authority", "mint", "treasury"} \subseteq DOMAIN k
  BY <1>1
<1> HIDE DEF k
<1>5. /\ ConfigAddress # MintAddress /\ ConfigAddress # TreasuryAddress
      /\ MintAddress # TreasuryAddress
      /\ \A p : /\ PoolAddress(p) \notin {ConfigAddress, MintAddress, TreasuryAddress}
                /\ ProtectionAddress(p) \notin {ConfigAddress, MintAddress, TreasuryAddress}
  BY DEF Pda, ConfigAddress, MintAddress, TreasuryAddress, PoolAddress, ProtectionAddress
<1>6. Extends(A, first) /\ DOMAIN first = DOMAIN A \cup {MintAddress}
      /\ first[MintAddress] = Mint(ConfigAddress)
  BY <1>2, OpeningIs
<1> HIDE DEF first
<1>7. Extends(first, second) /\ DOMAIN second = DOMAIN first \cup {TreasuryAddress}
      /\ second[TreasuryAddress] = TokenAccount(MintAddress, ask.who)
  BY <1>2, <1>5, <1>6, OpeningIs
<1> HIDE DEF second
<1>c. ConfigAddress \notin DOMAIN second
  BY <1>2, <1>5, <1>6, <1>7
<1>8. Extends(second, B) /\ DOMAIN B = DOMAIN second \cup {ConfigAddress} /\ B[ConfigAddress] = k
  <2>1. LET C == Opening(second, ConfigAddress, k)
        IN  /\ Extends(second, C) /\ DOMAIN C = DOMAIN second \cup {ConfigAddress}
            /\ C[ConfigAddress] = k
    BY <1>c, OpeningIs
  <2> QED
    BY <1>3, <2>1
<1>9. /\ Extends(A, B) /\ Added(A, B) = {ConfigAddress, MintAddress, TreasuryAddress}
      /\ B[ConfigAddress] = k /\ B[MintAddress] = Mint(ConfigAddress)
      /\ B[TreasuryAddress] = TokenAccount(MintAddress, ask.who)
  BY <1>2, <1>6, <1>7, <1>8 DEF Extends, Added
<1>10. AccountAt(ConfigAddress, B[ConfigAddress]) /\ LinkedAt(B, ConfigAddress)
  BY <1>4, <1>9 DEF AccountAt, ConfigAt, LinkedAt, Added
<1>11. AccountAt(MintAddress, B[MintAddress]) /\ LinkedAt(B, MintAddress)
  BY <1>9 DEF AccountAt, MintAt, LinkedAt, Mint
<1>12. AccountAt(TreasuryAddress, B[TreasuryAddress]) /\ LinkedAt(B, TreasuryAddress)
  <2>1. \A who, mint : TreasuryAddress # AtaAddress(who, mint)
    BY DEF Pda, AtaAddress, TreasuryAddress
  <2> QED
    BY <1>9, <2>1 DEF AccountAt, TokenAt, LinkedAt, TokenAccount
<1>13. \A a \in Added(A, B) : AccountAt(a, B[a]) /\ LinkedAt(B, a)
  BY <1>9, <1>10, <1>11, <1>12
<1>14. AccountsOK(B) /\ Grows(A, B)
  BY <1>9, <1>13, ExtendingKeeps
<1>15. /\ PoolsIn(B) = PoolsIn(A) /\ MarketsIn(B) = MarketsIn(A)
       /\ LossesIn(B) = LossesIn(A) /\ ContractsIn(B) = ContractsIn(A)
  <2>1. \A a \in Added(A, B) : B[a].kind # "ProtectionContract"
    BY <1>4, <1>9 DEF Mint, TokenAccount
  <2> QED
    BY <1>5, <1>9, <2>1, ExtendingLedger
<1>16. Spent(B, ask)
  BY <1>8 DEF Spent, Once
<1> QED
  BY <1>2, <1>4, <1>8, <1>14, <1>15, <1>16 DEF AuthorityIn

(* A pool is opened with its vault and its two mints.                      *)
LEMMA CreatePoolCarried ==
  ASSUME NEW ask, NEW A, ask.op = "createPool", ask.pool \in Pools, AccountsOK(A),
         TransactionOk(A, Transaction(ask), {ask.who}),
         NEW B, B = TransactionDone(A, Transaction(ask))
  PROVE  /\ AccountsOK(B) /\ Grows(A, B) /\ Spent(B, ask)
         /\ AuthorityIn(A) # {} /\ AuthorityIn(B) = AuthorityIn(A)
         /\ ask.pool \notin PoolsIn(A) /\ PoolsIn(B) = PoolsIn(A) \cup {ask.pool}
         /\ MarketsIn(B) = MarketsIn(A)
         /\ LossesIn(B) = LossesIn(A) /\ ContractsIn(B) = ContractsIn(A)
<1> DEFINE c == Meaning(ask)
           p == ask.pool
           pool == PoolAddress(p)
           vault == VaultAddress(pool)
           senior == SeniorMintAddress(pool)
           junior == JuniorMintAddress(pool)
           k == [kind |-> "Pool", id |-> c.id, operator |-> c.operator, mint |-> c.mint,
                 vault |-> c.vault, seniorMint |-> c.seniorMint, juniorMint |-> c.juniorMint,
                 yieldRateBps |-> c.yieldRateBps, seniorRateBps |-> c.seniorRateBps,
                 minJuniorBps |-> c.minJuniorBps, perfFeeBps |-> c.perfFeeBps,
                 timeScale |-> c.timeScale, lossCount |-> 0]
           first == Opening(A, vault, TokenAccount(MintAddress, pool))
           second == Opening(first, senior, Mint(pool))
           third == Opening(second, junior, Mint(pool))
<1>1. /\ CreatePoolOk(A, c) /\ B = CreatePoolDone(A, c)
      /\ c.config = ConfigAddress /\ c.mint = MintAddress /\ c.operator = ask.who
      /\ c.id = p /\ c.pool = pool /\ c.vault = vault /\ c.seniorMint = senior
      /\ c.juniorMint = junior
  BY CreatePoolMeans, AloneTakes, CreatePoolHandled
<1>2. /\ pool \notin DOMAIN A /\ vault \notin DOMAIN A
      /\ senior \notin DOMAIN A /\ junior \notin DOMAIN A
  BY <1>1 DEF CreatePoolOk, New
<1>3. B = Opening(third, pool, k)
  BY <1>1 DEF CreatePoolDone
<1>4. /\ k.kind = "Pool" /\ k.id = p /\ k.mint = MintAddress /\ k.vault = vault
      /\ k.seniorMint = senior /\ k.juniorMint = junior /\ k.lossCount = 0
      /\ {"kind", "id", "operator", "mint", "vault", "seniorMint", "juniorMint", "lossCount",
          "yieldRateBps", "seniorRateBps", "minJuniorBps", "perfFeeBps", "timeScale"}
           \subseteq DOMAIN k
  BY <1>1
<1> HIDE DEF k
<1>5. ConfigAddress \in DOMAIN A
  BY <1>1 DEF CreatePoolOk, ConfigOk, Is
<1>6. /\ pool \notin {vault, senior, junior} /\ vault \notin {senior, junior} /\ senior # junior
      /\ ConfigAddress \notin {pool, vault, senior, junior}
      /\ \A q : /\ PoolAddress(q) \notin {vault, senior, junior}
                /\ ProtectionAddress(q) \notin {pool, vault, senior, junior}
                /\ q # p => PoolAddress(q) # pool
      /\ \A who, mint : vault # AtaAddress(who, mint)
  BY DEF Pda, ConfigAddress, PoolAddress, ProtectionAddress, VaultAddress, SeniorMintAddress,
         JuniorMintAddress, AtaAddress
<1> HIDE DEF pool, vault, senior, junior
<1>7. Extends(A, first) /\ DOMAIN first = DOMAIN A \cup {vault}
      /\ first[vault] = TokenAccount(MintAddress, pool)
  BY <1>2, OpeningIs
<1> HIDE DEF first
<1>8. Extends(first, second) /\ DOMAIN second = DOMAIN first \cup {senior}
      /\ second[senior] = Mint(pool)
  BY <1>2, <1>6, <1>7, OpeningIs
<1> HIDE DEF second
<1>9. Extends(second, third) /\ DOMAIN third = DOMAIN second \cup {junior}
      /\ third[junior] = Mint(pool)
  <2>1. junior \notin DOMAIN second
    BY <1>2, <1>6, <1>7, <1>8
  <2> QED
    BY <2>1, OpeningIs
<1> HIDE DEF third
<1>10. Extends(third, B) /\ DOMAIN B = DOMAIN third \cup {pool} /\ B[pool] = k
  <2>1. pool \notin DOMAIN third
    BY <1>2, <1>6, <1>7, <1>8, <1>9
  <2>2. LET C == Opening(third, pool, k)
        IN  /\ Extends(third, C) /\ DOMAIN C = DOMAIN third \cup {pool}
            /\ C[pool] = k
    BY <2>1, OpeningIs
  <2> QED
    BY <1>3, <2>2
<1>11. /\ Extends(A, B) /\ Added(A, B) = {pool, vault, senior, junior}
       /\ B[pool] = k /\ B[vault] = TokenAccount(MintAddress, pool)
       /\ B[senior] = Mint(pool) /\ B[junior] = Mint(pool)
  BY <1>2, <1>7, <1>8, <1>9, <1>10 DEF Extends, Added
<1>12. AccountAt(pool, B[pool]) /\ LinkedAt(B, pool)
  BY <1>4, <1>5, <1>11
     DEF AccountAt, PoolAt, LinkedAt, Added, Extends, pool, vault, senior, junior
<1>13. AccountAt(vault, B[vault]) /\ LinkedAt(B, vault)
  <2>1. B[vault].kind = "Token" /\ B[vault].owner = pool
    BY <1>11 DEF TokenAccount
  <2> QED
    BY <1>6, <2>1 DEF AccountAt, TokenAt, LinkedAt, vault
<1>14. Is(B, pool, "Pool")
  BY <1>4, <1>10 DEF Is
<1>15. ASSUME NEW a \in {senior, junior}
       PROVE  AccountAt(a, B[a]) /\ LinkedAt(B, a)
  <2>1. B[a].kind = "Mint" /\ B[a].authority = pool
    BY <1>11 DEF Mint
  <2> QED
    BY <1>14, <2>1 DEF AccountAt, MintAt, LinkedAt, senior, junior
<1>16. \A a \in Added(A, B) : AccountAt(a, B[a]) /\ LinkedAt(B, a)
  BY <1>11, <1>12, <1>13, <1>15
<1>17. AccountsOK(B) /\ Grows(A, B)
  BY <1>11, <1>16, ExtendingKeeps
<1>18. /\ AuthorityIn(B) = AuthorityIn(A) /\ MarketsIn(B) = MarketsIn(A)
       /\ ContractsIn(B) = ContractsIn(A)
  <2>1. \A a \in Added(A, B) : B[a].kind # "ProtectionContract"
    BY <1>4, <1>11 DEF Mint, TokenAccount
  <2> QED
    BY <1>6, <1>11, <2>1, ExtendingLedger
<1>19. PoolsIn(B) = PoolsIn(A) \cup {p} /\ p \notin PoolsIn(A)
  BY <1>2, <1>6, <1>11 DEF PoolsIn, Extends, Added, pool
<1>20. LossesIn(B) = LossesIn(A)
  <2>1. ASSUME NEW q \in Pools
        PROVE  LossesIn(B)[q] = LossesIn(A)[q]
    BY <1>2, <1>4, <1>6, <1>11 DEF LossesIn, Extends, Added, pool
  <2> QED
    BY <2>1 DEF LossesIn
<1>21. Spent(B, ask)
  BY <1>10 DEF Spent, Once, pool
<1> QED
  BY <1>5, <1>17, <1>18, <1>19, <1>20, <1>21 DEF AuthorityIn

(* A market is opened for a pool that is there and had none.               *)
LEMMA InitProtectionCarried ==
  ASSUME NEW ask, NEW A, ask.op = "initProtection", ask.pool \in Pools, AccountsOK(A),
         TransactionOk(A, Transaction(ask), {ask.who}),
         NEW B, B = TransactionDone(A, Transaction(ask))
  PROVE  /\ AccountsOK(B) /\ Grows(A, B) /\ Spent(B, ask)
         /\ AuthorityIn(B) = AuthorityIn(A) /\ PoolsIn(B) = PoolsIn(A)
         /\ ask.pool \in PoolsIn(A) \ MarketsIn(A)
         /\ MarketsIn(B) = MarketsIn(A) \cup {ask.pool}
         /\ LossesIn(B) = LossesIn(A) /\ ContractsIn(B) = ContractsIn(A)
<1> DEFINE c == Meaning(ask)
           p == ask.pool
           pool == PoolAddress(p)
           market == ProtectionAddress(pool)
           pvault == PvaultAddress(pool)
           k == [kind |-> "ProtectionPool", pool |-> c.pool, pvault |-> c.pvault,
                 premiumRateBps |-> c.premiumRateBps, triggerBps |-> c.triggerBps,
                 premiumFeeBps |-> c.premiumFeeBps, contracts |-> 0]
           l == TokenAccount(c.mint, market)
           first == Opening(A, pvault, l)
<1>1. /\ InitProtectionOk(A, c) /\ B = InitProtectionDone(A, c)
      /\ c.pool = pool /\ c.protection = market /\ c.pvault = pvault
  BY InitProtectionMeans, AloneTakes, InitProtectionHandled DEF MarketOf
<1>2. pool \in DOMAIN A /\ market \notin DOMAIN A /\ pvault \notin DOMAIN A
  BY <1>1 DEF InitProtectionOk, New, PoolOk, Is
<1>3. B = Opening(first, market, k)
  BY <1>1 DEF InitProtectionDone
<1>4. /\ k.kind = "ProtectionPool" /\ k.pool = pool /\ k.pvault = pvault /\ k.contracts = 0
      /\ {"kind", "pool", "pvault", "contracts"} \subseteq DOMAIN k
  BY <1>1
<1> HIDE DEF k
<1>5. /\ pvault # market /\ ConfigAddress \notin {market, pvault}
      /\ \A q : /\ PoolAddress(q) \notin {market, pvault}
                /\ ProtectionAddress(q) # pvault
                /\ q # p => ProtectionAddress(PoolAddress(q)) # market
      /\ \A who, mint : pvault # AtaAddress(who, mint)
  BY DEF Pda, ConfigAddress, PoolAddress, ProtectionAddress, PvaultAddress, AtaAddress
<1>6. l.kind = "Token"
  BY DEF TokenAccount
<1> HIDE DEF pool, market, pvault, l
<1>7. Extends(A, first) /\ DOMAIN first = DOMAIN A \cup {pvault} /\ first[pvault] = l
  BY <1>2, OpeningIs
<1> HIDE DEF first
<1>8. Extends(first, B) /\ DOMAIN B = DOMAIN first \cup {market} /\ B[market] = k
  <2>1. market \notin DOMAIN first
    BY <1>2, <1>5, <1>7
  <2>2. LET C == Opening(first, market, k)
        IN  /\ Extends(first, C) /\ DOMAIN C = DOMAIN first \cup {market}
            /\ C[market] = k
    BY <2>1, OpeningIs
  <2> QED
    BY <1>3, <2>2
<1>9. /\ Extends(A, B) /\ Added(A, B) = {market, pvault} /\ B[market] = k /\ B[pvault] = l
  BY <1>2, <1>5, <1>7, <1>8 DEF Extends, Added
<1>10. AccountAt(market, B[market]) /\ LinkedAt(B, market)
  BY <1>2, <1>4, <1>9 DEF AccountAt, MarketAt, LinkedAt, OfPool, Extends, pool, market, pvault
<1>11. AccountAt(pvault, B[pvault]) /\ LinkedAt(B, pvault)
  BY <1>5, <1>6, <1>9 DEF AccountAt, TokenAt, LinkedAt, pvault, pool
<1>12. AccountsOK(B) /\ Grows(A, B)
  BY <1>9, <1>10, <1>11, ExtendingKeeps
<1>13. /\ AuthorityIn(B) = AuthorityIn(A) /\ PoolsIn(B) = PoolsIn(A)
       /\ LossesIn(B) = LossesIn(A) /\ ContractsIn(B) = ContractsIn(A)
  <2>1. \A a \in Added(A, B) : B[a].kind # "ProtectionContract"
    BY <1>4, <1>6, <1>9
  <2> QED
    BY <1>5, <1>9, <2>1, ExtendingLedger
<1>14. MarketsIn(B) = MarketsIn(A) \cup {p} /\ p \notin MarketsIn(A) /\ p \in PoolsIn(A)
  BY <1>2, <1>5, <1>9 DEF MarketsIn, PoolsIn, Extends, Added, pool, market
<1>15. Spent(B, ask)
  BY <1>8 DEF Spent, Once, pool, market
<1> QED
  BY <1>12, <1>13, <1>14, <1>15

-----------------------------------------------------------------------------
(* Requests that change an account.                                        *)
LEMMA RecordLossCarried ==
  ASSUME NEW ask, NEW A, ask.op = "recordLoss", ask.pool \in Pools, AccountsOK(A),
         TransactionOk(A, Transaction(ask), {ask.who}),
         NEW B, B = TransactionDone(A, Transaction(ask))
  PROVE  /\ AccountsOK(B) /\ Grows(A, B) /\ Spent(B, ask)
         /\ AuthorityIn(B) = AuthorityIn(A) /\ PoolsIn(B) = PoolsIn(A)
         /\ MarketsIn(B) = MarketsIn(A) /\ ask.pool \in PoolsIn(A)
         /\ LossesIn(B) = [LossesIn(A) EXCEPT ![ask.pool] = @ + 1]
         /\ ContractsIn(B) = ContractsIn(A)
         /\ LossEventAddress(PoolAddress(ask.pool), LossesIn(A)[ask.pool]) \in DOMAIN B
<1> DEFINE c == Meaning(ask)
           p == ask.pool
           pool == PoolAddress(p)
           n == A[pool].lossCount
           loss == LossEventAddress(pool, n)
           l == [A[pool] EXCEPT !.lossCount = @ + 1]
           bumped == [A EXCEPT ![pool] = l]
           k == [kind |-> "LossEvent", pool |-> pool, index |-> n, lossBps |-> c.lossBps]
<1>1. /\ RecordLossOk(A, c) /\ B = RecordLossDone(A, c)
      /\ PinnedTo(c, pool) /\ c.lossEvent = LossEventAddress(pool, ask.index)
  BY RecordLossMeans, AloneTakes, RecordLossHandled
<1>2. c.pool = pool
  BY <1>1 DEF PinnedTo
<1>3. pool \in DOMAIN A /\ loss \notin DOMAIN A /\ c.lossEvent = loss
  BY <1>1, <1>2 DEF RecordLossOk, Pinned, PoolOk, Is, New
<1>4. ask.index = n
  BY <1>1, <1>3 DEF Pda, LossEventAddress
<1>5. B = Opening(bumped, loss, k)
  BY <1>1, <1>2, <1>3 DEF RecordLossDone
<1>6. PoolAt(pool, A[pool]) /\ A[pool].id = p
  BY <1>3, PoolThere
<1>7. /\ l.lossCount = n + 1 /\ n \in Nat /\ l.kind = "Pool" /\ l.id = p
      /\ PoolAt(pool, l) /\ Follows(A[pool], l)
  BY <1>6 DEF PoolAt, Follows
<1>8. /\ k.kind = "LossEvent" /\ k.pool = pool /\ k.index = n
      /\ {"kind", "pool", "index", "lossBps"} \subseteq DOMAIN k
  OBVIOUS
<1> HIDE DEF l, k
<1>9. AccountsOK(bumped) /\ Grows(A, bumped)
  BY <1>3, <1>6, <1>7, ChangingKeeps DEF AccountAt, PoolAt
<1>10. DOMAIN bumped = DOMAIN A /\ bumped[pool] = l
       /\ \A a \in DOMAIN A : a # pool => bumped[a] = A[a]
  BY <1>3
<1> HIDE DEF bumped
<1>11. Extends(bumped, B) /\ DOMAIN B = DOMAIN A \cup {loss} /\ B[loss] = k
  <2>1. LET C == Opening(bumped, loss, k)
        IN  /\ Extends(bumped, C) /\ DOMAIN C = DOMAIN bumped \cup {loss}
            /\ C[loss] = k
    BY <1>3, <1>10, OpeningIs
  <2> QED
    BY <1>5, <1>10, <2>1
<1>12. Added(bumped, B) = {loss}
  BY <1>3, <1>10, <1>11 DEF Added
<1>13. B[pool] = l
  BY <1>3, <1>10, <1>11 DEF Extends
<1>14. AccountAt(loss, B[loss]) /\ LinkedAt(B, loss)
  <2>1. LossAt(loss, k)
    BY <1>7, <1>8 DEF LossAt, OfPool
  <2>2. k.index < l.lossCount
    BY <1>7, <1>8
  <2> QED
    BY <1>3, <1>8, <1>11, <1>13, <2>1, <2>2 DEF AccountAt, LinkedAt
<1>15. AccountsOK(B) /\ Grows(bumped, B)
  BY <1>9, <1>11, <1>12, <1>14, ExtendingKeeps
<1>16. Grows(A, B)
  BY <1>9, <1>15, GrowsTransitive
<1>17. Spent(B, ask)
  BY <1>3, <1>4, <1>7, <1>11, <1>13 DEF Spent, Once
<1>18. /\ loss # ConfigAddress /\ pool # ConfigAddress
       /\ \A q : /\ loss # PoolAddress(q) /\ loss # ProtectionAddress(q)
                 /\ pool # ProtectionAddress(q)
                 /\ q # p => PoolAddress(q) # pool
  BY DEF Pda, ConfigAddress, PoolAddress, ProtectionAddress, LossEventAddress
<1>19. \A a \in DOMAIN A : a # pool => a \in DOMAIN B /\ B[a] = A[a]
  BY <1>10, <1>11 DEF Extends
<1>20. AuthorityIn(B) = AuthorityIn(A)
  BY <1>11, <1>18, <1>19 DEF AuthorityIn
<1>21. PoolsIn(B) = PoolsIn(A) /\ MarketsIn(B) = MarketsIn(A) /\ p \in PoolsIn(A)
  BY <1>3, <1>11, <1>18 DEF PoolsIn, MarketsIn
<1>22. LossesIn(B) = [LossesIn(A) EXCEPT ![p] = @ + 1]
  <2>1. LossesIn(B)[p] = LossesIn(A)[p] + 1
    BY <1>3, <1>7, <1>11, <1>13 DEF LossesIn
  <2>2. ASSUME NEW q \in Pools, q # p
        PROVE  LossesIn(B)[q] = LossesIn(A)[q]
    BY <1>11, <1>18, <1>19, <2>2 DEF LossesIn
  <2> QED
    BY <2>1, <2>2 DEF LossesIn
<1>23. ContractAccounts(B) = ContractAccounts(A)
  BY <1>6, <1>7, <1>8, <1>11, <1>13, <1>19 DEF ContractAccounts, PoolAt
<1>24. ASSUME NEW a \in ContractAccounts(A)
       PROVE  Standing(B, B[a]) = Standing(A, A[a])
  <2>1. a # pool /\ B[a] = A[a]
    BY <1>6, <1>19 DEF ContractAccounts, PoolAt
  <2>2. Is(A, A[a].pool, "Pool")
    BY ContractsStand
  <2>3. B[A[a].pool].id = A[A[a].pool].id
    BY <1>6, <1>7, <1>13, <1>19, <2>2 DEF Is
  <2> QED
    BY <2>1, <2>3 DEF Standing
<1>25. ContractsIn(B) = ContractsIn(A)
  BY <1>23, <1>24 DEF ContractsIn
<1>26. LossEventAddress(pool, LossesIn(A)[p]) \in DOMAIN B
  BY <1>3, <1>11 DEF LossesIn
<1> QED
  BY <1>15, <1>16, <1>17, <1>20, <1>21, <1>22, <1>25, <1>26

(* A purchase adds one contract, which no other stands for, and the        *)
(* counter of the market rises beyond its number.                          *)
LEMMA BuyCarried ==
  ASSUME NEW ask, NEW A, ask.op = "buyProtection", AskOK(ask), AccountsOK(A), Known(A, ask),
         TransactionOk(A, Transaction(ask), {ask.who}),
         NEW B, B = TransactionDone(A, Transaction(ask))
  PROVE  LET sold == [pool |-> ask.pool, buyer |-> ask.who, nonce |-> ask.nonce,
                      from |-> LossesIn(A)[ask.pool], status |-> "active", by |-> 0]
         IN  /\ AccountsOK(B) /\ Grows(A, B) /\ Spent(B, ask)
             /\ AuthorityIn(B) = AuthorityIn(A) /\ PoolsIn(B) = PoolsIn(A)
             /\ MarketsIn(B) = MarketsIn(A) /\ ask.pool \in MarketsIn(A)
             /\ LossesIn(B) = LossesIn(A)
             /\ ContractsIn(B) = ContractsIn(A) \cup {sold}
             /\ \A s \in ContractsIn(A) :
                  s.pool = ask.pool /\ s.buyer = ask.who => s.nonce # ask.nonce
<1> DEFINE c == Meaning(ask)
           p == ask.pool
           pool == PoolAddress(p)
           market == ProtectionAddress(pool)
           contract == ContractAddress(pool, ask.who, ask.nonce)
           n == A[market].contracts
           l == [A[market] EXCEPT !.contracts = @ + 1]
           bumped == [A EXCEPT ![market] = l]
           k == [kind |-> "ProtectionContract", pool |-> pool, buyer |-> ask.who,
                 nonce |-> ask.nonce, status |-> "active",
                 lossIndexFrom |-> A[pool].lossCount, settledLossIndex |-> 0]
           sold == [pool |-> p, buyer |-> ask.who, nonce |-> ask.nonce,
                    from |-> LossesIn(A)[p], status |-> "active", by |-> 0]
<1>ask. p \in Pools /\ ask.who \in Users /\ ask.nonce \in Nat
  BY DEF AskOK
<1>1. /\ BuyOk(A, c) /\ B = BuyDone(A, c)
      /\ PinnedTo(c, pool) /\ MarketOf(c, pool) /\ c.contract = contract
      /\ c.buyer = ask.who /\ c.nonce = ask.nonce
  BY BuyProtectionMeans, AloneTakes, BuyHandled
<1>2. c.pool = pool /\ c.protection = market
  BY <1>1 DEF PinnedTo, MarketOf
<1>3. pool \in DOMAIN A /\ market \in DOMAIN A /\ contract \notin DOMAIN A
  BY <1>1, <1>2 DEF BuyOk, Pinned, PoolOk, MarketOk, Is, New
<1>4. B = Opening(bumped, contract, k)
  BY <1>1, <1>2 DEF BuyDone
<1>5. PoolAt(pool, A[pool]) /\ A[pool].id = p
  BY <1>3, PoolThere
<1>6. MarketAt(market, A[market]) /\ A[market].pool = pool
  BY <1>3, MarketThere
<1>7. /\ l.contracts = n + 1 /\ n \in Nat /\ l.kind = "ProtectionPool" /\ l.pool = pool
      /\ MarketAt(market, l) /\ Follows(A[market], l)
  <2>1. /\ l.contracts = n + 1 /\ n \in Nat /\ l.kind = "ProtectionPool" /\ l.pool = pool
        /\ l.pvault = A[market].pvault /\ DOMAIN l = DOMAIN A[market]
    BY <1>6 DEF MarketAt
  <2>2. \E q \in Pools : l.pool = PoolAddress(q)
    BY <2>1, <1>ask
  <2> HIDE DEF l
  <2>3. MarketAt(market, l)
    <3>1. market = ProtectionAddress(l.pool) /\ l.pvault = PvaultAddress(l.pool)
      BY <1>6, <2>1 DEF MarketAt
    <3>2. l.contracts \in Nat /\ {"kind", "pool", "pvault", "contracts"} \subseteq DOMAIN l
      BY <1>6, <2>1 DEF MarketAt
    <3> QED
      BY <2>1, <2>2, <3>1, <3>2 DEF MarketAt, OfPool
  <2>4. Follows(A[market], l)
    BY <1>6, <2>1 DEF MarketAt, Follows
  <2> QED
    BY <2>1, <2>3, <2>4
<1>8. /\ k.kind = "ProtectionContract" /\ k.pool = pool /\ k.buyer = ask.who
      /\ k.nonce = ask.nonce /\ k.status = "active"
      /\ k.lossIndexFrom = A[pool].lossCount /\ k.settledLossIndex = 0
      /\ {"kind", "pool", "buyer", "nonce", "status", "lossIndexFrom", "settledLossIndex"}
           \subseteq DOMAIN k
  OBVIOUS
<1> HIDE DEF l, k
<1>9. AccountsOK(bumped) /\ Grows(A, bumped)
  <2>1. A[market].kind = "ProtectionPool" /\ AccountAt(market, l)
    BY <1>6, <1>7 DEF AccountAt, MarketAt
  <2> QED
    BY <1>3, <1>6, <1>7, <2>1, ChangingKeeps
<1>10. /\ DOMAIN bumped = DOMAIN A /\ bumped[market] = l
       /\ \A a \in DOMAIN A : a # market => bumped[a] = A[a]
  BY <1>3
<1> HIDE DEF bumped
<1>11. Extends(bumped, B) /\ DOMAIN B = DOMAIN A \cup {contract} /\ B[contract] = k
  <2>1. LET C == Opening(bumped, contract, k)
        IN  /\ Extends(bumped, C) /\ DOMAIN C = DOMAIN bumped \cup {contract}
            /\ C[contract] = k
    BY <1>3, <1>10, OpeningIs
  <2> QED
    BY <1>4, <1>10, <2>1
<1>12. Added(bumped, B) = {contract}
  BY <1>3, <1>10, <1>11 DEF Added
<1>13. B[market] = l
  BY <1>3, <1>10, <1>11 DEF Extends
<1>14. AccountAt(contract, B[contract]) /\ LinkedAt(B, contract)
  <2>1. ContractAt(contract, k)
    BY <1>5, <1>8, <1>ask DEF ContractAt, OfPool, PoolAt
  <2>2. k.nonce < l.contracts
    BY <1>3, <1>7, <1>8, <1>ask DEF Known
  <2> QED
    BY <1>3, <1>8, <1>11, <1>13, <2>1, <2>2 DEF AccountAt, LinkedAt
<1>15. AccountsOK(B) /\ Grows(bumped, B)
  BY <1>9, <1>11, <1>12, <1>14, ExtendingKeeps
<1>16. Grows(A, B)
  BY <1>9, <1>15, GrowsTransitive
<1>17. Spent(B, ask)
  BY <1>11 DEF Spent, Once
<1>18. /\ contract # ConfigAddress /\ market # ConfigAddress /\ market # pool
       /\ \A q : /\ contract # PoolAddress(q) /\ contract # ProtectionAddress(q)
                 /\ market # PoolAddress(q)
  BY DEF Pda, ConfigAddress, PoolAddress, ProtectionAddress, ContractAddress
<1>19. \A a \in DOMAIN A : a # market => a \in DOMAIN B /\ B[a] = A[a]
  BY <1>10, <1>11 DEF Extends
<1>20. AuthorityIn(B) = AuthorityIn(A)
  BY <1>11, <1>18, <1>19 DEF AuthorityIn
<1>21. PoolsIn(B) = PoolsIn(A) /\ MarketsIn(B) = MarketsIn(A) /\ p \in MarketsIn(A)
  BY <1>3, <1>11, <1>18, <1>ask DEF PoolsIn, MarketsIn
<1>22. LossesIn(B) = LossesIn(A) /\ LossesIn(A)[p] = A[pool].lossCount
  BY <1>3, <1>11, <1>18, <1>19, <1>ask DEF LossesIn
<1>23. ContractAccounts(B) = ContractAccounts(A) \cup {contract}
  BY <1>3, <1>6, <1>7, <1>8, <1>11, <1>13, <1>19 DEF ContractAccounts, MarketAt
<1>24. ASSUME NEW a \in ContractAccounts(A)
       PROVE  Standing(B, B[a]) = Standing(A, A[a])
  <2>1. a # market /\ B[a] = A[a]
    BY <1>6, <1>19 DEF ContractAccounts, MarketAt
  <2>2. Is(A, A[a].pool, "Pool")
    BY ContractsStand
  <2>3. B[A[a].pool] = A[A[a].pool]
    BY <1>6, <1>19, <2>2 DEF Is, MarketAt
  <2> QED
    BY <2>1, <2>3 DEF Standing
<1>25. Standing(B, B[contract]) = sold
  BY <1>3, <1>5, <1>8, <1>11, <1>18, <1>19, <1>22 DEF Standing
<1>26. ContractsIn(B) = ContractsIn(A) \cup {sold}
  BY <1>23, <1>24, <1>25 DEF ContractsIn
<1>27. ASSUME NEW a \in ContractAccounts(A),
              Standing(A, A[a]).pool = p, Standing(A, A[a]).buyer = ask.who
       PROVE  Standing(A, A[a]).nonce # ask.nonce
  <2>1. ContractAt(a, A[a]) /\ A[a].pool = PoolAddress(A[A[a].pool].id)
    BY ContractsStand
  <2>2. a \in DOMAIN A /\ A[a].pool = pool /\ A[a].buyer = ask.who
    BY <1>27, <2>1 DEF Standing, ContractAccounts
  <2>3. A[a].nonce # ask.nonce
    BY <1>3, <2>1, <2>2 DEF ContractAt
  <2> QED
    BY <2>3 DEF Standing
<1>28. \A s \in ContractsIn(A) : s.pool = p /\ s.buyer = ask.who => s.nonce # ask.nonce
  BY <1>27 DEF ContractsIn
<1> QED
  BY <1>15, <1>16, <1>17, <1>20, <1>21, <1>22, <1>26, <1>28

(* A contract account that changes its status, and nothing that tells it.  *)
Ends(k, l, status, i) ==
  /\ DOMAIN l = DOMAIN k
  /\ \A f \in DOMAIN k \ {"status", "settledLossIndex"} : l[f] = k[f]
  /\ l.status = status /\ l.settledLossIndex = i

(* A contract is closed in place.                                          *)
Ending(A, B, x, status, i) ==
  /\ x \in ContractAccounts(A) /\ A[x].status = "active" /\ status # "active"
  /\ B = [A EXCEPT ![x] = B[x]] /\ Ends(A[x], B[x], status, i)

LEMMA EndingKeeps ==
  ASSUME NEW A, NEW B, NEW x, NEW status, NEW i, AccountsOK(A), Ending(A, B, x, status, i)
  PROVE  /\ AccountsOK(B) /\ Grows(A, B)
         /\ x \in DOMAIN B /\ B[x].status = status
         /\ AuthorityIn(B) = AuthorityIn(A) /\ PoolsIn(B) = PoolsIn(A)
         /\ MarketsIn(B) = MarketsIn(A) /\ LossesIn(B) = LossesIn(A)
         /\ Standing(A, A[x]) \in ContractsIn(A)
         /\ ContractsIn(B) = (ContractsIn(A) \ {Standing(A, A[x])})
                             \cup {Ledger!Ended(Standing(A, A[x]), status, i)}
<1> DEFINE k == A[x]
           l == B[x]
           s == Standing(A, k)
<1>0. /\ x \in ContractAccounts(A) /\ k.status = "active" /\ status # "active"
      /\ B = [A EXCEPT ![x] = l] /\ Ends(k, l, status, i)
  BY DEF Ending
<1>1. /\ x \in DOMAIN A /\ ContractAt(x, k) /\ Is(A, k.pool, "Pool")
  BY <1>0, ContractsStand DEF ContractAccounts
<1>2. /\ l.kind = k.kind /\ l.pool = k.pool /\ l.buyer = k.buyer /\ l.nonce = k.nonce
      /\ l.lossIndexFrom = k.lossIndexFrom /\ DOMAIN l = DOMAIN k
  BY <1>0, <1>1 DEF ContractAt, Ends
<1>3. ContractAt(x, l)
  BY <1>1, <1>2 DEF ContractAt, OfPool
<1>4. Follows(k, l)
  BY <1>0, <1>1, <1>2 DEF Follows, ContractAt
<1>5. AccountsOK(B) /\ Grows(A, B)
  BY <1>0, <1>1, <1>2, <1>3, <1>4, ChangingKeeps DEF AccountAt, ContractAt
<1>6. DOMAIN B = DOMAIN A /\ B[x] = l /\ \A a \in DOMAIN A : a # x => B[a] = A[a]
  BY <1>0, <1>1
<1> HIDE DEF l
<1>7. /\ x # ConfigAddress
      /\ \A p : x # PoolAddress(p)
  BY <1>1 DEF ContractAt, Pda, ConfigAddress, PoolAddress, ContractAddress
<1>8. /\ AuthorityIn(B) = AuthorityIn(A) /\ PoolsIn(B) = PoolsIn(A)
      /\ MarketsIn(B) = MarketsIn(A) /\ LossesIn(B) = LossesIn(A)
  BY <1>6, <1>7 DEF AuthorityIn, PoolsIn, MarketsIn, LossesIn
<1>9. ContractAccounts(B) = ContractAccounts(A)
  BY <1>2, <1>6 DEF ContractAccounts
<1>10. ASSUME NEW a \in ContractAccounts(A)
       PROVE  B[A[a].pool] = A[A[a].pool]
  <2>1. Is(A, A[a].pool, "Pool")
    BY ContractsStand
  <2> QED
    BY <1>1, <1>6, <2>1 DEF Is, ContractAt
<1>11. ASSUME NEW a \in ContractAccounts(A), a # x
       PROVE  Standing(B, B[a]) = Standing(A, A[a]) /\ Standing(A, A[a]) # s
  <2>1. a \in DOMAIN A /\ B[a] = A[a] /\ B[A[a].pool] = A[A[a].pool]
    BY <1>6, <1>10, <1>11 DEF ContractAccounts
  <2>2. /\ ContractAt(a, A[a]) /\ A[a].pool = PoolAddress(A[A[a].pool].id)
        /\ ContractAt(x, k) /\ k.pool = PoolAddress(A[k.pool].id)
    BY <1>0, ContractsStand
  <2>3. \/ A[a].buyer # k.buyer \/ A[a].nonce # k.nonce \/ A[a].pool # k.pool
    BY <1>11, <2>2 DEF ContractAt
  <2>4. Standing(A, A[a]) # s
    BY <2>2, <2>3 DEF Standing
  <2> QED
    BY <2>1, <2>4 DEF Standing
<1>12. Standing(B, B[x]) = Ledger!Ended(s, status, i)
  <2>1. B[k.pool].id = A[k.pool].id
    BY <1>0, <1>10
  <2> DEFINE half == [s EXCEPT !.status = status]
  <2>2. Standing(B, l)
          = [pool |-> A[k.pool].id, buyer |-> k.buyer, nonce |-> k.nonce,
             from |-> k.lossIndexFrom, status |-> status, by |-> i]
    BY <1>0, <1>2, <2>1 DEF Standing, Ends
  <2>3. Ledger!Ended(s, status, i) = [half EXCEPT !.by = i]
    BY DEF Ledger!Ended
  <2>4. half = [pool |-> A[k.pool].id, buyer |-> k.buyer, nonce |-> k.nonce,
                from |-> k.lossIndexFrom, status |-> status, by |-> k.settledLossIndex]
    BY DEF Standing
  <2> HIDE DEF half
  <2>5. [half EXCEPT !.by = i]
          = [pool |-> A[k.pool].id, buyer |-> k.buyer, nonce |-> k.nonce,
             from |-> k.lossIndexFrom, status |-> status, by |-> i]
    BY <2>4
  <2> QED
    BY <1>6, <2>2, <2>3, <2>5
<1>13. s \in ContractsIn(A)
  BY <1>0 DEF ContractsIn
<1>14. ContractsIn(B) = (ContractsIn(A) \ {s}) \cup {Ledger!Ended(s, status, i)}
  <2> DEFINE new == Ledger!Ended(s, status, i)
  <2>1. ContractsIn(B) = {Standing(B, B[a]) : a \in ContractAccounts(A)}
    BY <1>9 DEF ContractsIn
  <2>2. ContractsIn(A) = {Standing(A, A[a]) : a \in ContractAccounts(A)}
    BY DEF ContractsIn
  <2>3. Standing(B, B[x]) = new /\ x \in ContractAccounts(A) /\ s = Standing(A, A[x])
    BY <1>0, <1>12
  <2> HIDE DEF new, s
  <2>4. ASSUME NEW t \in ContractsIn(B)
        PROVE  t \in (ContractsIn(A) \ {s}) \cup {new}
    BY <1>11, <2>1, <2>2, <2>3
  <2>5. ASSUME NEW t \in (ContractsIn(A) \ {s}) \cup {new}
        PROVE  t \in ContractsIn(B)
    BY <1>11, <2>1, <2>2, <2>3
  <2> QED
    BY <2>4, <2>5 DEF new
<1> QED
  BY <1>0, <1>1, <1>5, <1>6, <1>8, <1>13, <1>14 DEF Ends

(* A settlement and an expiry close one contract that was active.          *)
LEMMA SettleCarried ==
  ASSUME NEW ask, NEW A, ask.op = "settleProtection", ask.pool \in Pools, AccountsOK(A),
         TransactionOk(A, Transaction(ask), {ask.who}),
         NEW B, B = TransactionDone(A, Transaction(ask))
  PROVE  /\ AccountsOK(B) /\ Grows(A, B) /\ Spent(B, ask)
         /\ AuthorityIn(B) = AuthorityIn(A) /\ PoolsIn(B) = PoolsIn(A)
         /\ MarketsIn(B) = MarketsIn(A) /\ LossesIn(B) = LossesIn(A)
         /\ \E s \in ContractsIn(A) :
              /\ s.status = "active"
              /\ \E i \in 0 .. (LossesIn(A)[s.pool] - 1) :
                   /\ i >= s.from
                   /\ ContractsIn(B)
                        = (ContractsIn(A) \ {s}) \cup {Ledger!Ended(s, "settled", i)}
<1> DEFINE c == Meaning(ask)
           p == ask.pool
           pool == PoolAddress(p)
           x == ContractAddress(pool, ask.buyer, ask.nonce)
           loss == LossEventAddress(pool, ask.index)
           i == A[loss].index
           l == [A[x] EXCEPT !.status = "settled", !.settledLossIndex = i]
           s == Standing(A, A[x])
<1>1. /\ SettleOk(A, c) /\ B = SettleDone(A, c)
      /\ c.pool = pool /\ c.contract = x /\ c.lossEvent = loss
  BY SettleProtectionMeans, AloneTakes, SettleHandled
<1>2. /\ pool \in DOMAIN A /\ x \in DOMAIN A /\ A[x].kind = "ProtectionContract"
      /\ loss \in DOMAIN A /\ A[x].status = "active" /\ i >= A[x].lossIndexFrom
  BY <1>1 DEF SettleOk, PoolOk, Is
<1>3. ContractAt(x, A[x]) /\ A[x].pool = pool
  BY <1>2, ContractThere
<1>4. LossAt(loss, A[loss]) /\ LinkedAt(A, loss) /\ A[loss].pool = pool
  BY <1>2, LossThere
<1>5. PoolAt(pool, A[pool]) /\ A[pool].id = p
  BY <1>2, PoolThere
<1>6. i \in Nat /\ i < A[pool].lossCount /\ LossesIn(A)[p] = A[pool].lossCount
  BY <1>2, <1>4 DEF LossAt, LinkedAt, LossesIn
<1>7. B = [A EXCEPT ![x] = l]
  BY <1>1, <1>2 DEF SettleDone
<1>8. Ends(A[x], l, "settled", i)
  <2> DEFINE k == A[x]
             half == [k EXCEPT !.status = "settled"]
  <2>1. l = [half EXCEPT !.settledLossIndex = i]
    OBVIOUS
  <2>2. DOMAIN half = DOMAIN k /\ \A f \in DOMAIN k \ {"status"} : half[f] = k[f]
    OBVIOUS
  <2>3. half.status = "settled" /\ {"status", "settledLossIndex"} \subseteq DOMAIN half
    BY <1>3 DEF ContractAt
  <2> HIDE DEF half, k, i, l
  <2>4. /\ DOMAIN l = DOMAIN half /\ l.settledLossIndex = i
        /\ \A f \in DOMAIN half \ {"settledLossIndex"} : l[f] = half[f]
    BY <2>1, <2>3
  <2> QED
    BY <2>2, <2>3, <2>4 DEF Ends, k
<1>9. x \in ContractAccounts(A)
  BY <1>2 DEF ContractAccounts
<1> HIDE DEF l, i
<1> DEFINE status == "settled"
<1>t. status # "active" /\ Ends(A[x], l, status, i)
  BY <1>8
<1> HIDE DEF status
<1>u. Ending(A, B, x, status, i)
  BY <1>2, <1>7, <1>9, <1>t DEF Ending
<1>10. /\ AccountsOK(B) /\ Grows(A, B) /\ x \in DOMAIN B /\ B[x].status = status
       /\ AuthorityIn(B) = AuthorityIn(A) /\ PoolsIn(B) = PoolsIn(A)
       /\ MarketsIn(B) = MarketsIn(A) /\ LossesIn(B) = LossesIn(A)
       /\ s \in ContractsIn(A)
       /\ ContractsIn(B) = (ContractsIn(A) \ {s}) \cup {Ledger!Ended(s, status, i)}
  BY <1>u, EndingKeeps
<1>11. s.status = "active" /\ s.pool = p /\ s.from = A[x].lossIndexFrom
  BY <1>2, <1>3, <1>5 DEF Standing
<1>12. i \in 0 .. (LossesIn(A)[s.pool] - 1) /\ i >= s.from
  BY <1>2, <1>5, <1>6, <1>11 DEF PoolAt, i
<1>13. Spent(B, ask)
  BY <1>10, <1>t DEF Spent, Once
<1> QED
  BY <1>10, <1>11, <1>12, <1>13 DEF status

LEMMA ExpireCarried ==
  ASSUME NEW ask, NEW A, ask.op = "expireProtection", ask.pool \in Pools, AccountsOK(A),
         TransactionOk(A, Transaction(ask), {ask.who}),
         NEW B, B = TransactionDone(A, Transaction(ask))
  PROVE  /\ AccountsOK(B) /\ Grows(A, B) /\ Spent(B, ask)
         /\ AuthorityIn(B) = AuthorityIn(A) /\ PoolsIn(B) = PoolsIn(A)
         /\ MarketsIn(B) = MarketsIn(A) /\ LossesIn(B) = LossesIn(A)
         /\ \E s \in ContractsIn(A) :
              /\ s.status = "active"
              /\ ContractsIn(B)
                   = (ContractsIn(A) \ {s}) \cup {Ledger!Ended(s, "expired", s.by)}
<1> DEFINE c == Meaning(ask)
           pool == PoolAddress(ask.pool)
           x == ContractAddress(pool, ask.buyer, ask.nonce)
           i == A[x].settledLossIndex
           l == [A[x] EXCEPT !.status = "expired"]
           s == Standing(A, A[x])
<1>1. ExpireOk(A, c) /\ B = ExpireDone(A, c) /\ c.contract = x
  BY ExpireProtectionMeans, AloneTakes, ExpireHandled
<1>2. /\ x \in DOMAIN A /\ A[x].kind = "ProtectionContract" /\ A[x].status = "active"
  BY <1>1 DEF ExpireOk, Is
<1>3. ContractAt(x, A[x])
  BY <1>2, ContractThere
<1>4. B = [A EXCEPT ![x] = l]
  BY <1>1, <1>2 DEF ExpireDone
<1>5. Ends(A[x], l, "expired", i)
  BY <1>3 DEF Ends, ContractAt
<1>6. x \in ContractAccounts(A)
  BY <1>2 DEF ContractAccounts
<1> HIDE DEF l
<1> DEFINE status == "expired"
<1>t. status # "active" /\ Ends(A[x], l, status, i)
  BY <1>5
<1> HIDE DEF status
<1>u. Ending(A, B, x, status, i)
  BY <1>2, <1>4, <1>6, <1>t DEF Ending
<1>7. /\ AccountsOK(B) /\ Grows(A, B) /\ x \in DOMAIN B /\ B[x].status = status
      /\ AuthorityIn(B) = AuthorityIn(A) /\ PoolsIn(B) = PoolsIn(A)
      /\ MarketsIn(B) = MarketsIn(A) /\ LossesIn(B) = LossesIn(A)
      /\ s \in ContractsIn(A)
      /\ ContractsIn(B) = (ContractsIn(A) \ {s}) \cup {Ledger!Ended(s, status, i)}
  BY <1>u, EndingKeeps
<1>8. s.status = "active" /\ s.by = i
  BY <1>2 DEF Standing
<1>9. Spent(B, ask)
  BY <1>7, <1>t DEF Spent, Once
<1> QED
  BY <1>7, <1>8, <1>9 DEF status

-----------------------------------------------------------------------------
(* What one request may do.                                                *)
Founds(A, B, who) ==
  /\ AuthorityIn(A) = {} /\ AuthorityIn(B) = {who}
  /\ PoolsIn(B) = PoolsIn(A) /\ MarketsIn(B) = MarketsIn(A)
  /\ LossesIn(B) = LossesIn(A) /\ ContractsIn(B) = ContractsIn(A)

OpensPool(A, B, p) ==
  /\ AuthorityIn(A) # {} /\ AuthorityIn(B) = AuthorityIn(A)
  /\ p \notin PoolsIn(A) /\ PoolsIn(B) = PoolsIn(A) \cup {p}
  /\ MarketsIn(B) = MarketsIn(A)
  /\ LossesIn(B) = LossesIn(A) /\ ContractsIn(B) = ContractsIn(A)

OpensMarket(A, B, p) ==
  /\ AuthorityIn(B) = AuthorityIn(A) /\ PoolsIn(B) = PoolsIn(A)
  /\ p \in PoolsIn(A) \ MarketsIn(A) /\ MarketsIn(B) = MarketsIn(A) \cup {p}
  /\ LossesIn(B) = LossesIn(A) /\ ContractsIn(B) = ContractsIn(A)

Loses(A, B, p) ==
  /\ AuthorityIn(B) = AuthorityIn(A) /\ PoolsIn(B) = PoolsIn(A)
  /\ MarketsIn(B) = MarketsIn(A) /\ p \in PoolsIn(A)
  /\ LossesIn(B) = [LossesIn(A) EXCEPT ![p] = @ + 1]
  /\ ContractsIn(B) = ContractsIn(A)
  /\ LossEventAddress(PoolAddress(p), LossesIn(A)[p]) \in DOMAIN B

Sells(A, B, p, buyer, nonce) ==
  /\ AuthorityIn(B) = AuthorityIn(A) /\ PoolsIn(B) = PoolsIn(A)
  /\ MarketsIn(B) = MarketsIn(A) /\ p \in MarketsIn(A)
  /\ LossesIn(B) = LossesIn(A)
  /\ ContractsIn(B) = ContractsIn(A) \cup
       {[pool |-> p, buyer |-> buyer, nonce |-> nonce, from |-> LossesIn(A)[p],
         status |-> "active", by |-> 0]}
  /\ \A s \in ContractsIn(A) : s.pool = p /\ s.buyer = buyer => s.nonce # nonce

OnlyContracts(A, B) ==
  /\ AuthorityIn(B) = AuthorityIn(A) /\ PoolsIn(B) = PoolsIn(A)
  /\ MarketsIn(B) = MarketsIn(A) /\ LossesIn(B) = LossesIn(A)

Settles(A, B) ==
  /\ OnlyContracts(A, B)
  /\ \E s \in ContractsIn(A) :
       /\ s.status = "active"
       /\ \E i \in 0 .. (LossesIn(A)[s.pool] - 1) :
            /\ i >= s.from
            /\ ContractsIn(B) = (ContractsIn(A) \ {s}) \cup {Ledger!Ended(s, "settled", i)}

Expires(A, B) ==
  /\ OnlyContracts(A, B)
  /\ \E s \in ContractsIn(A) :
       /\ s.status = "active"
       /\ ContractsIn(B) = (ContractsIn(A) \ {s}) \cup {Ledger!Ended(s, "expired", s.by)}

(* One request, one thing.                                                 *)
DoesOneThing(A, B, ask) ==
  CASE ask.op = "initConfig" -> Founds(A, B, ask.who)
    [] ask.op = "createPool" -> OpensPool(A, B, ask.pool)
    [] ask.op = "initProtection" -> OpensMarket(A, B, ask.pool)
    [] ask.op = "recordLoss" -> Loses(A, B, ask.pool)
    [] ask.op = "buyProtection" -> Sells(A, B, ask.pool, ask.who, ask.nonce)
    [] ask.op = "settleProtection" -> Settles(A, B)
    [] ask.op = "expireProtection" -> Expires(A, B)
    [] OTHER -> Unmoved(A, B)

Carried(A, B, ask) ==
  /\ AccountsOK(B) /\ Grows(A, B)
  /\ ask.op \in Once => Spent(B, ask)
  /\ DoesOneThing(A, B, ask)

(* A request that is taken leaves the accounts linked, lets them only      *)
(* grow, and does one thing to the ledger or nothing.                      *)
LEMMA RequestCarried ==
  ASSUME NEW ask, NEW A, AskOK(ask), AccountsOK(A), Known(A, ask),
         TransactionOk(A, Transaction(ask), {ask.who})
  PROVE  Carried(A, TransactionDone(A, Transaction(ask)), ask)
<1> DEFINE B == TransactionDone(A, Transaction(ask))
<1>1. ask.who \in Users /\ (ask.op # "initConfig" => ask.pool \in Pools)
  BY DEF AskOK
<1>2. CASE ask.op = "initConfig"
  BY <1>1, <1>2, InitConfigCarried DEF Carried, DoesOneThing, Founds
<1>3. CASE ask.op = "createPool"
  BY <1>1, <1>3, CreatePoolCarried DEF Carried, DoesOneThing, OpensPool
<1>4. CASE ask.op = "initProtection"
  BY <1>1, <1>4, InitProtectionCarried DEF Carried, DoesOneThing, OpensMarket
<1>5. CASE ask.op = "recordLoss"
  BY <1>1, <1>5, RecordLossCarried DEF Carried, DoesOneThing, Loses
<1>6. CASE ask.op = "buyProtection"
  BY <1>6, BuyCarried DEF Carried, DoesOneThing, Sells
<1>7. CASE ask.op = "settleProtection"
  BY <1>1, <1>7, SettleCarried DEF Carried, DoesOneThing, Settles, OnlyContracts
<1>8. CASE ask.op = "expireProtection"
  BY <1>1, <1>8, ExpireCarried DEF Carried, DoesOneThing, Expires, OnlyContracts
<1>9. CASE ask.op \in {"faucet", "accrue", "deposit", "redeem", "provideProtection",
                       "withdrawProtection"}
  <2>1. CASE ask.op = "accrue"
    <3>1. B = A
      BY <2>1, AccrueCarried
    <3>2. AccountsOK(B) /\ Grows(A, B) /\ Unmoved(A, B)
      BY <3>1, GrowsReflexive DEF Unmoved
    <3> QED
      BY <2>1, <3>2 DEF Carried, DoesOneThing, Once
  <2>2. ask.op # "accrue" => AccountsOK(B) /\ Grows(A, B) /\ Unmoved(A, B)
    BY <1>1, <1>9, FaucetCarried, DepositCarried, RedeemCarried, ProvideCarried, WithdrawCarried
  <2> QED
    BY <1>9, <2>1, <2>2 DEF Carried, DoesOneThing, Once
<1> QED
  BY <1>2, <1>3, <1>4, <1>5, <1>6, <1>7, <1>8, <1>9 DEF AskOK, Ops, Once

(* What was carried out is not taken again.                                *)
LEMMA SpentIsRefused ==
  ASSUME NEW ask, NEW A, AskOK(ask), AccountsOK(A), Spent(A, ask)
  PROVE  ~TransactionOk(A, Transaction(ask), {ask.who})
<1> DEFINE c == Meaning(ask)
           pool == PoolAddress(ask.pool)
<1>1. ask.op \in Once
  BY DEF Spent
<1>2. CASE ask.op = "initConfig"
  <2>1. c.config = ConfigAddress /\ ConfigAddress \in DOMAIN A
    BY <1>2, InitConfigMeans DEF Spent
  <2>2. ~InitConfigOk(A, c)
    BY <2>1 DEF InitConfigOk, New
  <2> QED
    BY <1>2, <2>2, InitConfigMeans, AloneTakes, InitConfigHandled
<1>3. CASE ask.op = "createPool"
  <2>1. c.pool = pool /\ pool \in DOMAIN A
    BY <1>3, CreatePoolMeans DEF Spent
  <2>2. ~CreatePoolOk(A, c)
    BY <2>1 DEF CreatePoolOk, New
  <2> QED
    BY <1>3, <2>2, CreatePoolMeans, AloneTakes, CreatePoolHandled
<1>4. CASE ask.op = "initProtection"
  <2>1. c.protection = ProtectionAddress(pool) /\ ProtectionAddress(pool) \in DOMAIN A
    BY <1>4, InitProtectionMeans DEF Spent, MarketOf
  <2>2. ~InitProtectionOk(A, c)
    BY <2>1 DEF InitProtectionOk, New
  <2> QED
    BY <1>4, <2>2, InitProtectionMeans, AloneTakes, InitProtectionHandled
<1>5. CASE ask.op = "recordLoss"
  <2>1. /\ c.pool = pool /\ c.lossEvent = LossEventAddress(pool, ask.index)
        /\ pool \in DOMAIN A /\ A[pool].lossCount > ask.index
    BY <1>5, RecordLossMeans DEF Spent, PinnedTo
  <2>2. A[pool].lossCount \in Nat /\ ask.index \in Nat
    BY <2>1, PoolThere DEF PoolAt, AskOK
  <2>3. LossEventAddress(pool, A[pool].lossCount) # LossEventAddress(pool, ask.index)
    BY <2>1, <2>2 DEF Pda, LossEventAddress
  <2>4. ~RecordLossOk(A, c)
    BY <2>1, <2>3 DEF RecordLossOk
  <2> QED
    BY <1>5, <2>4, RecordLossMeans, AloneTakes, RecordLossHandled
<1>6. CASE ask.op = "buyProtection"
  <2>1. /\ c.contract = ContractAddress(pool, ask.who, ask.nonce)
        /\ ContractAddress(pool, ask.who, ask.nonce) \in DOMAIN A
    BY <1>6, BuyProtectionMeans DEF Spent
  <2>2. ~BuyOk(A, c)
    BY <2>1 DEF BuyOk, New
  <2> QED
    BY <1>6, <2>2, BuyProtectionMeans, AloneTakes, BuyHandled
<1>7. CASE ask.op = "settleProtection"
  <2>1. c.contract = ContractAddress(pool, ask.buyer, ask.nonce)
        /\ A[c.contract].status # "active"
    BY <1>7, SettleProtectionMeans DEF Spent
  <2>2. ~SettleOk(A, c)
    BY <2>1 DEF SettleOk
  <2> QED
    BY <1>7, <2>2, SettleProtectionMeans, AloneTakes, SettleHandled
<1>8. CASE ask.op = "expireProtection"
  <2>1. c.contract = ContractAddress(pool, ask.buyer, ask.nonce)
        /\ A[c.contract].status # "active"
    BY <1>8, ExpireProtectionMeans DEF Spent
  <2>2. ~ExpireOk(A, c)
    BY <2>1 DEF ExpireOk
  <2> QED
    BY <1>8, <2>2, ExpireProtectionMeans, AloneTakes, ExpireHandled
<1> QED
  BY <1>1, <1>2, <1>3, <1>4, <1>5, <1>6, <1>7, <1>8 DEF Once

(* What is spent stays spent, and what is known stays known.               *)
LEMMA SpentStays ==
  ASSUME NEW ask, NEW A, NEW B, AskOK(ask), AccountsOK(A), AccountsOK(B), Grows(A, B), Spent(A,
    ask)
  PROVE  Spent(B, ask)
<1> DEFINE pool == PoolAddress(ask.pool)
           market == ProtectionAddress(pool)
           mine == ContractAddress(pool, ask.who, ask.nonce)
           contract == ContractAddress(pool, ask.buyer, ask.nonce)
<1>1. ConfigAddress \in DOMAIN A => ConfigAddress \in DOMAIN B
  BY ConfigThere DEF ConfigAt, Grows
<1>2. pool \in DOMAIN A => pool \in DOMAIN B /\ B[pool].lossCount >= A[pool].lossCount
                           /\ A[pool].lossCount \in Nat /\ B[pool].lossCount \in Nat
  <2>1. pool \in DOMAIN A => pool \in DOMAIN B /\ B[pool].lossCount >= A[pool].lossCount
    BY PoolThere DEF PoolAt, Grows, Follows
  <2> QED
    BY <2>1, PoolThere DEF PoolAt
<1>3. market \in DOMAIN A => market \in DOMAIN B
  BY MarketThere DEF MarketAt, Grows
<1>4. mine \in DOMAIN A => mine \in DOMAIN B
  BY ContractThere DEF ContractAt, Grows
<1>5. contract \in DOMAIN A /\ A[contract].status # "active"
        => contract \in DOMAIN B /\ B[contract].status # "active"
  BY ContractThere DEF ContractAt, Grows, Follows
<1>6. ask.index \in Nat
  BY DEF AskOK
<1> QED
  BY <1>1, <1>2, <1>3, <1>4, <1>5, <1>6 DEF Spent

(* Nor does a counter fall behind what was built from it.                  *)
LEMMA KnownStays ==
  ASSUME NEW ask, NEW A, NEW B, AskOK(ask), AccountsOK(A), AccountsOK(B), Grows(A, B), Known(A,
    ask)
  PROVE  Known(B, ask)
<1> DEFINE market == ProtectionAddress(PoolAddress(ask.pool))
<1>1. market \in DOMAIN A => market \in DOMAIN B /\ B[market].contracts >= A[market].contracts
  BY MarketThere DEF MarketAt, Grows, Follows
<1>2. /\ market \in DOMAIN A => A[market].contracts \in Nat
      /\ market \in DOMAIN B => B[market].contracts \in Nat
  BY MarketThere DEF MarketAt
<1> QED
  BY <1>1, <1>2 DEF Known, AskOK

-----------------------------------------------------------------------------
(* What is offered.                                                        *)
Fit(A, ask) ==
  LET pool == PoolAddress(ask.pool)
      market == ProtectionAddress(pool)
      purse == AtaAddress(ask.who, MintAddress)
      contract == ContractAddress(pool, ask.buyer, ask.nonce)
      loss == LossEventAddress(pool, ask.index)
  IN  /\ ask.op \notin {"initConfig", "createPool", "initProtection"}
      /\ ask.op = "faucet" => ConfigAddress \in DOMAIN A
      /\ ask.op = "accrue" => pool \in DOMAIN A
      /\ ask.op = "deposit" => pool \in DOMAIN A /\ purse \in DOMAIN A
      /\ ask.op = "redeem" =>
           AtaAddress(ask.who, TrancheMint(PoolAccounts(ask.pool), ask.tranche)) \in DOMAIN A
      /\ ask.op = "recordLoss" =>
           /\ pool \in DOMAIN A /\ A[pool].operator = ask.who
           /\ ask.index = A[pool].lossCount
      /\ ask.op = "provideProtection" => market \in DOMAIN A /\ purse \in DOMAIN A
      /\ ask.op = "withdrawProtection" => SellerAddress(pool, ask.who) \in DOMAIN A
      /\ ask.op = "buyProtection" =>
           market \in DOMAIN A /\ ask.buyer = ask.who /\ ask.nonce = A[market].contracts
      /\ ask.op \in {"settleProtection", "expireProtection"} =>
           contract \in DOMAIN A /\ A[contract].status = "active"
      /\ ask.op = "settleProtection" =>
           loss \in DOMAIN A /\ ask.index >= A[contract].lossIndexFrom
      /\ ask.op = "expireProtection" => ask.who \in {A[contract].buyer, A[pool].operator}

(* All that one button offers is fit.                                      *)
OffersFit(op, who, p) ==
  \A ask \in Offers(op, who, p) :
    ask.op = op /\ ask.who = who /\ ask.pool = p /\ AskOK(ask) /\ Fit(accts, ask)

(* The fields of a request.                                                *)
LEMMA AskIs ==
  ASSUME NEW op, NEW who, NEW p
  PROVE  LET ask == Ask(op, who, p)
         IN  /\ ask.op = op /\ ask.who = who /\ ask.pool = p /\ ask.buyer = who
             /\ ask.nonce = 0 /\ ask.index = 0
             /\ DOMAIN ask = {"op", "who", "pool", "tranche", "buyer", "nonce", "index"}
BY DEF Ask

(* The offers, button by button.                                           *)
LEMMA PlainOffers ==
  ASSUME NEW op \in {"faucet", "accrue", "provideProtection", "withdrawProtection"},
         NEW who \in Users, NEW p \in Pools
  PROVE  OffersFit(op, who, p)
<1> SUFFICES ASSUME NEW ask \in Offers(op, who, p)
             PROVE  /\ ask.op = op /\ ask.who = who /\ ask.pool = p
                    /\ AskOK(ask) /\ Fit(accts, ask)
  BY DEF OffersFit
<1>1. CASE op = "accrue"
  <2>1. ask \in OperatorPanel("accrue", who, p)
    BY <1>1 DEF Offers
  <2>2. PICK pool \in {q \in {PoolAddress(p)} : Open(q)} :
          ask = [Ask("accrue", who, p) EXCEPT !.index = @]
    BY <2>1 DEF OperatorPanel
  <2>3. ask = Ask(op, who, p)
    BY <1>1, <2>2 DEF Ask
  <2>4. PoolAddress(p) \in DOMAIN accts
    BY <2>2 DEF Open
  <2> QED
    BY <1>1, <2>3, <2>4, AskIs DEF AskOK, Ops, Once, Fit
<1>2. CASE op = "faucet"
  <2>1. ask = Ask(op, who, p) /\ ConfigAddress \in DOMAIN accts
    BY <1>2 DEF Offers, RequestButton, Open
  <2> QED
    BY <1>2, <2>1, AskIs DEF AskOK, Ops, Once, Fit
<1>3. CASE op = "provideProtection"
  <2>1. /\ ask = Ask(op, who, p) /\ ProtectionAddress(PoolAddress(p)) \in DOMAIN accts
        /\ AtaAddress(who, MintAddress) \in DOMAIN accts
    BY <1>3 DEF Offers, SellButton, Open, Purse
  <2> QED
    BY <1>3, <2>1, AskIs DEF AskOK, Ops, Once, Fit
<1>4. CASE op = "withdrawProtection"
  <2>1. ask = Ask(op, who, p) /\ SellerAddress(PoolAddress(p), who) \in DOMAIN accts
    BY <1>4 DEF Offers, SellButton, Open
  <2> QED
    BY <1>4, <2>1, AskIs DEF AskOK, Ops, Once, Fit
<1> QED
  BY <1>1, <1>2, <1>3, <1>4

LEMMA SubmitOffers ==
  ASSUME NEW op \in {"deposit", "redeem"}, NEW who \in Users, NEW p \in Pools
  PROVE  OffersFit(op, who, p)
<1> SUFFICES ASSUME NEW ask \in Offers(op, who, p)
             PROVE  /\ ask.op = op /\ ask.who = who /\ ask.pool = p
                    /\ AskOK(ask) /\ Fit(accts, ask)
  BY DEF OffersFit
<1>1. ask \in SubmitButton(op, who, p)
  BY DEF Offers
<1>2. PICK t \in {"senior", "junior"} : ask = [Ask(op, who, p) EXCEPT !.tranche = t]
  BY <1>1 DEF SubmitButton
<1>3. /\ ask.op = op /\ ask.who = who /\ ask.pool = p /\ ask.buyer = who
      /\ ask.nonce = 0 /\ ask.index = 0 /\ ask.tranche = t
  BY <1>2, AskIs
<1>4. AskOK(ask)
  BY <1>3 DEF AskOK, Ops, Once
<1>5. /\ op = "deposit" => /\ PoolAddress(p) \in DOMAIN accts
                           /\ AtaAddress(who, MintAddress) \in DOMAIN accts
      /\ op = "redeem" =>
           AtaAddress(who, TrancheMint(PoolAccounts(p), ask.tranche)) \in DOMAIN accts
  BY <1>1 DEF SubmitButton, Open, Purse
<1> QED
  BY <1>3, <1>4, <1>5 DEF Fit

LEMMA RecordLossOffers ==
  ASSUME ClientInv, NEW who \in Users, NEW p \in Pools
  PROVE  OffersFit("recordLoss", who, p)
<1> SUFFICES ASSUME NEW ask \in Offers("recordLoss", who, p)
             PROVE  /\ ask.op = "recordLoss" /\ ask.who = who /\ ask.pool = p
                    /\ AskOK(ask) /\ Fit(accts, ask)
  BY DEF OffersFit
<1> DEFINE pool == PoolAddress(p)
<1>1. ask \in OperatorPanel("recordLoss", who, p)
  BY DEF Offers
<1>2. /\ ask = [Ask("recordLoss", who, p) EXCEPT !.index = accts[pool].lossCount]
      /\ pool \in DOMAIN accts /\ accts[pool].operator = who
  BY <1>1 DEF OperatorPanel, Open
<1>3. /\ ask.op = "recordLoss" /\ ask.who = who /\ ask.pool = p /\ ask.buyer = who
      /\ ask.nonce = 0 /\ ask.index = accts[pool].lossCount
  BY <1>2, AskIs
<1>4. accts[pool].lossCount \in Nat
  BY <1>2, PoolThere DEF PoolAt, ClientInv
<1> QED
  BY <1>2, <1>3, <1>4 DEF AskOK, Ops, Once, Fit

LEMMA BuyOffers ==
  ASSUME ClientInv, NEW who \in Users, NEW p \in Pools
  PROVE  OffersFit("buyProtection", who, p)
<1> SUFFICES ASSUME NEW ask \in Offers("buyProtection", who, p)
             PROVE  /\ ask.op = "buyProtection" /\ ask.who = who /\ ask.pool = p
                    /\ AskOK(ask) /\ Fit(accts, ask)
  BY DEF OffersFit
<1> DEFINE market == ProtectionAddress(PoolAddress(p))
<1>1. ask \in BuyButton(who, p)
  BY DEF Offers
<1>2. /\ ask = [Ask("buyProtection", who, p) EXCEPT !.nonce = accts[market].contracts]
      /\ market \in DOMAIN accts
  BY <1>1 DEF BuyButton, Open
<1>3. /\ ask.op = "buyProtection" /\ ask.who = who /\ ask.pool = p /\ ask.buyer = who
      /\ ask.nonce = accts[market].contracts /\ ask.index = 0
  BY <1>2, AskIs
<1>4. accts[market].contracts \in Nat
  BY <1>2, MarketThere DEF MarketAt, ClientInv
<1> QED
  BY <1>2, <1>3, <1>4 DEF AskOK, Ops, Once, Fit

(* The fields of a request upon a contract, and the contract.              *)
LEMMA UponIs ==
  ASSUME NEW op, NEW who, NEW p, NEW a
  PROVE  LET o == Upon(op, who, p, a)
         IN  /\ o.op = op /\ o.who = who /\ o.pool = p /\ o.index = 0
             /\ o.buyer = accts[a].buyer /\ o.nonce = accts[a].nonce
             /\ "index" \in DOMAIN o
<1> DEFINE half == [Ask(op, who, p) EXCEPT !.buyer = accts[a].buyer]
           o == [half EXCEPT !.nonce = accts[a].nonce]
<1>1. /\ half.op = op /\ half.who = who /\ half.pool = p /\ half.buyer = accts[a].buyer
      /\ half.index = 0
      /\ DOMAIN half = {"op", "who", "pool", "tranche", "buyer", "nonce", "index"}
  BY AskIs
<1>2. Upon(op, who, p, a) = o
  BY DEF Upon
<1> HIDE DEF half
<1>3. /\ o.op = op /\ o.who = who /\ o.pool = p /\ o.index = 0
      /\ o.buyer = accts[a].buyer /\ o.nonce = accts[a].nonce /\ "index" \in DOMAIN o
  BY <1>1
<1> HIDE DEF o
<1> QED
  BY <1>2, <1>3

LEMMA ActiveIs ==
  ASSUME ClientInv, NEW p \in Pools, NEW a \in Active(p)
  PROVE  /\ a \in DOMAIN accts /\ accts[a].status = "active"
         /\ a = ContractAddress(PoolAddress(p), accts[a].buyer, accts[a].nonce)
         /\ accts[a].buyer \in Users /\ accts[a].nonce \in Nat
<1>1. /\ a \in DOMAIN accts /\ accts[a].kind = "ProtectionContract"
      /\ accts[a].pool = PoolAddress(p) /\ accts[a].status = "active"
  BY DEF Active, Contracts
<1>2. ContractAt(a, accts[a])
  BY <1>1, ContractsStand DEF ClientInv, ContractAccounts
<1> QED
  BY <1>1, <1>2 DEF ContractAt

(* Settle and Close.                                                       *)
LEMMA StatusOffers ==
  ASSUME ClientInv, NEW op \in {"settleProtection", "expireProtection"},
         NEW who \in Users, NEW p \in Pools
  PROVE  OffersFit(op, who, p)
<1> SUFFICES ASSUME NEW ask \in Offers(op, who, p)
             PROVE  /\ ask.op = op /\ ask.who = who /\ ask.pool = p
                    /\ AskOK(ask) /\ Fit(accts, ask)
  BY DEF OffersFit
<1> DEFINE pool == PoolAddress(p)
<1>1. ask \in StatusCell(op, who, p)
  BY DEF Offers
<1>3. CASE op = "settleProtection"
  <2>1. PICK a \in Active(p) :
          ask \in {[Upon(op, who, p, a) EXCEPT !.index = i] : i \in CitableAt(p, a)}
    BY <1>1, <1>3 DEF StatusCell
  <2>2. PICK i \in CitableAt(p, a) : ask = [Upon(op, who, p, a) EXCEPT !.index = i]
    BY <2>1
  <2>3. i \in Nat /\ LossEventAddress(pool, i) \in DOMAIN accts /\ i >= accts[a].lossIndexFrom
    BY <2>2 DEF CitableAt, Open
  <2>4. /\ ask.op = op /\ ask.who = who /\ ask.pool = p
        /\ ask.buyer = accts[a].buyer /\ ask.nonce = accts[a].nonce /\ ask.index = i
    BY <2>2, UponIs
  <2>5. AskOK(ask)
    BY <1>3, <2>3, <2>4, ActiveIs DEF AskOK, Ops, Once
  <2>6. ContractAddress(pool, ask.buyer, ask.nonce) = a
    BY <2>4, ActiveIs
  <2>7. a \in DOMAIN accts /\ accts[a].status = "active"
    BY ActiveIs
  <2> QED
    BY <1>3, <2>1, <2>3, <2>4, <2>5, <2>6, <2>7 DEF Fit
<1>4. CASE op = "expireProtection"
  <2>1. PICK a \in Active(p) :
          ask = Upon(op, who, p, a) /\ who \in {accts[a].buyer, accts[pool].operator}
    BY <1>1, <1>4 DEF StatusCell
  <2>2. /\ ask.op = op /\ ask.who = who /\ ask.pool = p
        /\ ask.buyer = accts[a].buyer /\ ask.nonce = accts[a].nonce /\ ask.index = 0
    BY <2>1, UponIs
  <2>3. AskOK(ask)
    BY <1>4, <2>2, ActiveIs DEF AskOK, Ops, Once
  <2>4. ContractAddress(pool, ask.buyer, ask.nonce) = a
    BY <2>2, ActiveIs
  <2>5. a \in DOMAIN accts /\ accts[a].status = "active"
    BY ActiveIs
  <2> QED
    BY <1>4, <2>1, <2>2, <2>3, <2>4, <2>5 DEF Fit
<1> QED
  BY <1>3, <1>4

(* Every request that a page offers is well formed, names what is there,   *)
(* and carries the counters as they stand.                                 *)
LEMMA OfferedFit ==
  ASSUME ClientInv, NEW ask \in Offered
  PROVE  AskOK(ask) /\ Fit(accts, ask) /\ Known(accts, ask)
<1>1. PICK g \in cast : g[2] \notin {"look", "close"} /\ ask \in Offers(g[2], g[1], g[3])
  BY DEF Offered
<1>2. g[1] \in Users /\ g[2] \in Buttons \ {"look", "close"} /\ g[3] \in Pools
  BY <1>1, ClientAssumption DEF ClientInv
<1> DEFINE who == g[1]
           op == g[2]
           p == g[3]
<1>3. who \in Users /\ op \in Buttons \ {"look", "close"} /\ p \in Pools
      /\ ask \in Offers(op, who, p)
  BY <1>1, <1>2
<1> HIDE DEF who, op, p
<1>4. OffersFit(op, who, p)
  <2>1. CASE op \in {"faucet", "accrue", "provideProtection", "withdrawProtection"}
    BY <1>3, <2>1, PlainOffers
  <2>2. CASE op \in {"deposit", "redeem"}
    BY <1>3, <2>2, SubmitOffers
  <2>3. CASE op = "recordLoss"
    BY <1>3, <2>3, RecordLossOffers
  <2>4. CASE op = "buyProtection"
    BY <1>3, <2>4, BuyOffers
  <2>5. CASE op \in {"settleProtection", "expireProtection"}
    BY <1>3, <2>5, StatusOffers
  <2> QED
    BY <1>3, <2>1, <2>2, <2>3, <2>4, <2>5 DEF Buttons
<1>5. AskOK(ask) /\ Fit(accts, ask)
  BY <1>3, <1>4 DEF OffersFit
<1>6. Known(accts, ask)
  BY <1>5 DEF Fit, Known, AskOK
<1> QED
  BY <1>5, <1>6

-----------------------------------------------------------------------------
(* The steps.  What changes the accounts is a request, taken whole, or the *)
(* closing of an empty account of the token library.                       *)
Requested(ask) == AskOK(ask) /\ Known(accts, ask) /\ Takes(ask) /\ Executed(ask)

LedgerMoves == accts' = accts \/ \E ask : Requested(ask)

(* What holds whoever asks, and what a request does to the accounts, to    *)
(* what was carried out and to what still waits.                           *)
LEMMA RequestedKeeps ==
  ASSUME ClientInv, NEW ask, Requested(ask)
  PROVE  /\ AccountsOK(accts') /\ Grows(accts, accts') /\ DoesOneThing(accts, accts', ask)
         /\ \A a \in landed' : AskOK(a) /\ Spent(accts', a)
<1>1. /\ TransactionOk(accts, Transaction(ask), {ask.who})
      /\ accts' = TransactionDone(accts, Transaction(ask))
      /\ landed' = IF ask.op \in Once THEN landed \cup {ask} ELSE landed
  BY DEF Requested, Takes, Executed
<1>2. Carried(accts, accts', ask)
  BY <1>1, RequestCarried DEF Requested, ClientInv
<1>3. ASSUME NEW a \in landed
      PROVE  AskOK(a) /\ Spent(accts', a)
  BY <1>2, SpentStays DEF ClientInv, Carried
<1> QED
  BY <1>1, <1>2, <1>3 DEF Carried, Requested

(* A tab that waits keeps what it knew.                                    *)
LEMMA WaitingKeeps ==
  ASSUME ClientInv, AccountsOK(accts'), Grows(accts, accts'), tab' \in {{}, tab}
  PROVE  /\ \A a \in tab' : AskOK(a) /\ Known(accts', a)
         /\ AtMostOne(tab')
BY KnownStays DEF ClientInv, AtMostOne

(* Only pools are in play.                                                 *)
LEMMA StageIsOfPools == ASSUME ClientInv PROVE Stage \subseteq Pools
BY ClientAssumption DEF ClientInv, Stage

(* A request of the tool is well formed, and buys nothing.                 *)
LEMMA ToolAskOK ==
  ASSUME ClientInv, tool.stage # "rest"
  PROVE  AskOK(ToolAsk) /\ Known(accts, ToolAsk)
<1> DEFINE pool == IF tool.stage = "initConfig" THEN 0 ELSE tool.id
           ask == Ask(tool.stage, Operator, pool)
<1>1. tool.stage \in {"initConfig", "createPool", "initProtection"} /\ tool.id \in Pools
  BY DEF ClientInv, ToolOK, ToolStates
<1>2. /\ ask.op = tool.stage /\ ask.who = Operator /\ ask.buyer = Operator /\ ask.pool = pool
      /\ ask.nonce = 0 /\ ask.index = 0
  BY AskIs
<1> HIDE DEF ask
<1>3. AskOK(ask) /\ Known(accts, ask)
  BY <1>1, <1>2, ClientAssumption DEF AskOK, Known, Ops, Once
<1> QED
  BY <1>3 DEF ToolAsk, ask

(* A request of anybody who founds the program or sets up by hand.         *)
LEMMA SetUpAskOK ==
  ASSUME ClientInv,
         NEW ask \in {Ask("initConfig", who, 0) : who \in Users}
               \cup {Ask(op, Operator, p) : op \in {"createPool", "initProtection"}, p \in Stage}
  PROVE  AskOK(ask) /\ Known(accts, ask)
<1>1. CASE \E who \in Users : ask = Ask("initConfig", who, 0)
  <2>1. PICK who \in Users : ask = Ask("initConfig", who, 0)
    BY <1>1
  <2> QED
    BY <2>1, AskIs DEF AskOK, Known, Ops, Once
<1>2. CASE \E op \in {"createPool", "initProtection"} :
             \E p \in Stage : ask = Ask(op, Operator, p)
  <2>1. PICK op \in {"createPool", "initProtection"} :
          \E p \in Stage : ask = Ask(op, Operator, p)
    BY <1>2
  <2>2. PICK p \in Stage : ask = Ask(op, Operator, p)
    BY <2>1
  <2>3. p \in Pools
    BY <2>2, StageIsOfPools
  <2> QED
    BY <2>2, <2>3, AskIs, ClientAssumption DEF AskOK, Known, Ops, Once
<1> QED
  BY <1>1, <1>2

(* Before the first transaction there is nothing to keep.                  *)
LEMMA ClientInitInv ==
  ASSUME ClientInit
  PROVE  ClientInv
<1>1. accts = <<>> /\ DOMAIN accts = {}
  BY DEF ClientInit
<1>2. AccountsOK(accts)
  BY <1>1 DEF AccountsOK
<1>3. ToolOK
  BY ClientAssumption DEF ClientInit, ToolOK, ToolStates, Resting
<1> QED
  BY <1>2, <1>3 DEF ClientInit, ClientInv, AtMostOne

(* A step of the tool leaves it between two stages of one pool, or at rest. *)
LEMMA ToolMovesOn ==
  ASSUME ToolOK, tool.stage # "rest", tool' = NextStage
  PROVE  ToolOK'
<1>1. tool.stage \in {"initConfig", "createPool", "initProtection"} /\ tool.id \in Pools
      /\ tool.crashes \in 0 .. MaxCrashes
  BY DEF ToolOK, ToolStates
<1>2. CASE tool.stage = "initProtection"
  BY <1>1, <1>2, ClientAssumption DEF NextStage, Resting, ToolOK, ToolStates
<1>3. ASSUME NEW next \in {"createPool", "initProtection"},
             tool' = [tool EXCEPT !.stage = next, !.sends = FALSE]
      PROVE  ToolOK'
  <2> DEFINE half == [tool EXCEPT !.stage = next]
  <2>1. half \in ToolStates /\ half.stage = next /\ half.id = tool.id
    BY <1>3 DEF ToolOK, ToolStates
  <2>2. tool' = [half EXCEPT !.sends = FALSE]
    BY <1>3
  <2> HIDE DEF half
  <2>3. tool' \in ToolStates /\ tool'.stage = next /\ tool'.id = tool.id /\ tool'.sends = FALSE
    BY <2>1, <2>2 DEF ToolStates
  <2> QED
    BY <1>1, <2>3 DEF ToolOK
<1>4. CASE tool.stage = "initConfig"
  BY <1>3, <1>4 DEF NextStage
<1>5. CASE tool.stage = "createPool"
  BY <1>3, <1>5 DEF NextStage
<1> QED
  BY <1>1, <1>2, <1>4, <1>5

(* A run that ends leaves the tool at rest.                                *)
LEMMA ToolRests ==
  ASSUME NEW n \in 0 .. MaxCrashes, tool' = Resting(n)
  PROVE  ToolOK'
BY DEF Resting, ToolOK, ToolStates

(* The invariant, action by action.                                        *)
LEMMA BuildKeeps == ClientInv /\ Build => ClientInv'
<1> SUFFICES ASSUME ClientInv, Build PROVE ClientInv'
  OBVIOUS
<1>1. PICK ask \in Offered : tab' = {ask}
  BY DEF Build
<1>2. UNCHANGED <<cast, accts, landed, page, tool>>
  BY DEF Build
<1>3. \A a \in tab' : AskOK(a) /\ Known(accts', a)
  BY <1>1, <1>2, OfferedFit
<1>4. AtMostOne(tab') /\ AtMostOne(page') /\ ToolOK'
  BY <1>1, <1>2 DEF AtMostOne, ClientInv, ToolOK, ToolStates
<1> QED
  BY <1>2, <1>3, <1>4 DEF ClientInv

LEMMA ArriveKeeps == ClientInv /\ Arrive => ClientInv'
<1> SUFFICES ASSUME ClientInv, Arrive PROVE ClientInv'
  OBVIOUS
<1>1. PICK ask \in tab : Takes(ask) /\ Executed(ask)
  BY DEF Arrive
<1>2. tab' \in {{}, tab} /\ UNCHANGED <<cast, page, tool>>
  BY DEF Arrive
<1>3. Requested(ask)
  BY <1>1 DEF Requested, ClientInv
<1>4. ToolOK'
  BY <1>2 DEF ClientInv, ToolOK, ToolStates
<1> QED
  BY <1>2, <1>3, <1>4, RequestedKeeps, WaitingKeeps DEF ClientInv, AtMostOne

LEMMA ElsewhereKeeps == ClientInv /\ Elsewhere => ClientInv'
<1> SUFFICES ASSUME ClientInv, Elsewhere PROVE ClientInv'
  OBVIOUS
<1>1. PICK ask \in Offered : Takes(ask) /\ Executed(ask)
  BY DEF Elsewhere
<1>2. UNCHANGED <<cast, tab, page, tool>>
  BY DEF Elsewhere
<1>3. Requested(ask)
  BY <1>1, OfferedFit DEF Requested
<1>4. ToolOK'
  BY <1>2 DEF ClientInv, ToolOK, ToolStates
<1> QED
  BY <1>2, <1>3, <1>4, RequestedKeeps, WaitingKeeps DEF ClientInv, AtMostOne

LEMMA SetUpElsewhereKeeps == ClientInv /\ SetUpElsewhere => ClientInv'
<1> SUFFICES ASSUME ClientInv, SetUpElsewhere PROVE ClientInv'
  OBVIOUS
<1>1. PICK ask \in {Ask("initConfig", who, 0) : who \in Users}
                    \cup {Ask(op, Operator, p) : op \in {"createPool", "initProtection"}, p
                      \in Stage} :
        Takes(ask) /\ Executed(ask)
  BY DEF SetUpElsewhere
<1>2. UNCHANGED <<cast, tab, page, tool>>
  BY DEF SetUpElsewhere
<1>3. Requested(ask)
  BY <1>1, SetUpAskOK DEF Requested
<1>4. ToolOK'
  BY <1>2 DEF ClientInv, ToolOK, ToolStates
<1> QED
  BY <1>2, <1>3, <1>4, RequestedKeeps, WaitingKeeps DEF ClientInv, AtMostOne

LEMMA CloseAtaKeeps == ASSUME ClientInv, NEW who, CloseAta(who) PROVE ClientInv'
<1> DEFINE B == [a \in DOMAIN accts \ {AtaAddress(who, MintAddress)} |-> accts[a]]
<1>1. accts' = B /\ UNCHANGED <<cast, tab, landed, page, tool>>
  BY DEF CloseAta
<1>2. AccountsOK(B) /\ Grows(accts, B)
  BY ClosingKeeps DEF ClientInv
<1> HIDE DEF B
<1>3. AccountsOK(accts') /\ Grows(accts, accts')
  BY <1>1, <1>2
<1>4. \A a \in landed' : AskOK(a) /\ Spent(accts', a)
  BY <1>1, <1>3, SpentStays DEF ClientInv
<1>5. ToolOK'
  BY <1>1 DEF ClientInv, ToolOK, ToolStates
<1> QED
  BY <1>1, <1>3, <1>4, <1>5, WaitingKeeps DEF ClientInv, AtMostOne

(* A page changes nothing but itself, and there is one page.               *)
LEMMA PageKeeps ==
  ASSUME ClientInv,
         \/ \E p \in Pools : PageReadsPool(p)
         \/ \E who \in Users : PageReadsWallet(who)
         \/ PageReadsLosses \/ PageReadsContracts \/ PageCloses
  PROVE  ClientInv' /\ accts' = accts /\ landed' = landed
<1>1. UNCHANGED <<cast, accts, tab, landed, tool>>
  BY DEF PageReadsPool, PageReadsWallet, PageReadsLosses, PageReadsContracts, PageCloses
<1>2. AtMostOne(page')
  <2>1. ASSUME NEW p \in Pools, PageReadsPool(p)
        PROVE  AtMostOne(page')
    <3>1. AtMostOne(readPool(accts, p))
      BY DEF readPool, AtMostOne
    <3> QED
      BY <2>1, <3>1 DEF PageReadsPool, AtMostOne
  <2>2. ASSUME NEW who \in Users, PageReadsWallet(who)
        PROVE  AtMostOne(page')
    BY <2>2 DEF PageReadsWallet, AtMostOne
  <2>3. CASE PageReadsLosses
    BY <2>3 DEF PageReadsLosses, AtMostOne
  <2>4. CASE PageReadsContracts
    BY <2>4 DEF PageReadsContracts, AtMostOne
  <2>5. CASE PageCloses
    BY <2>5 DEF PageCloses, AtMostOne
  <2> QED
    BY <2>1, <2>2, <2>3, <2>4, <2>5
<1>3. ToolOK'
  BY <1>1 DEF ClientInv, ToolOK, ToolStates
<1> QED
  BY <1>1, <1>2, <1>3 DEF ClientInv, AtMostOne

(* The tool starts, checks, sends and crashes.                             *)
LEMMA ToolStartsKeeps == ASSUME ClientInv, NEW id \in Pools, ToolStarts(id) PROVE ClientInv'
<1>1. UNCHANGED <<cast, accts, tab, landed, page>>
  BY DEF ToolStarts
<1>2. ToolOK'
  <2> DEFINE half == [tool EXCEPT !.stage = "initConfig"]
  <2>1. tool.stage = "rest" /\ tool' = [half EXCEPT !.id = id]
    BY DEF ToolStarts
  <2>2. half \in ToolStates /\ half.stage = "initConfig"
    BY DEF ClientInv, ToolOK, ToolStates
  <2> HIDE DEF half
  <2>3. tool' \in ToolStates /\ tool'.stage = "initConfig" /\ tool'.id = id
    BY <2>1, <2>2 DEF ToolStates
  <2> QED
    BY <2>3 DEF ToolOK
<1> QED
  BY <1>1, <1>2 DEF ClientInv, AtMostOne

LEMMA ToolChecksKeeps == ASSUME ClientInv, ToolChecks PROVE ClientInv'
<1>1. UNCHANGED <<cast, accts, tab, landed, page>> /\ tool.stage # "rest" /\ ToolOK
  BY DEF ToolChecks, ClientInv
<1>2. ToolOK'
  <2>1. CASE tool' = Resting(tool.crashes)
    BY <1>1, <2>1, ToolRests DEF ToolOK, ToolStates
  <2>2. CASE tool' = NextStage
    BY <1>1, <2>2, ToolMovesOn
  <2>3. CASE tool' = [tool EXCEPT !.sends = TRUE]
    BY <1>1, <2>3 DEF ToolOK, ToolStates
  <2> QED
    BY <2>1, <2>2, <2>3 DEF ToolChecks
<1> QED
  BY <1>1, <1>2 DEF ClientInv, AtMostOne

LEMMA ToolSendsKeeps == ASSUME ClientInv, ToolSends PROVE ClientInv'
<1>1. tool.sends /\ tool.stage # "rest" /\ ToolOK /\ UNCHANGED <<cast, tab, page>>
  BY DEF ToolSends, ClientInv, ToolOK
<1>2. CASE Takes(ToolAsk)
  <2>1. Requested(ToolAsk) /\ tool' = NextStage
    BY <1>1, <1>2, ToolAskOK DEF ToolSends, Requested
  <2>2. ToolOK'
    BY <1>1, <2>1, ToolMovesOn
  <2> QED
    BY <1>1, <2>1, <2>2, RequestedKeeps, WaitingKeeps DEF ClientInv, AtMostOne
<1>3. CASE ~Takes(ToolAsk)
  <2>1. UNCHANGED <<accts, landed>> /\ tool' = Resting(tool.crashes)
    BY <1>3 DEF ToolSends
  <2>2. ToolOK'
    BY <1>1, <2>1, ToolRests DEF ToolOK, ToolStates
  <2> QED
    BY <1>1, <2>1, <2>2 DEF ClientInv, AtMostOne
<1> QED
  BY <1>2, <1>3

LEMMA ToolCrashesKeeps == ASSUME ClientInv, ToolCrashes PROVE ClientInv'
<1>1. /\ tool.stage # "rest" /\ tool' = Resting(tool.crashes + 1) /\ tool.crashes < MaxCrashes
      /\ ToolOK /\ UNCHANGED <<cast, tab, page>>
  BY DEF ToolCrashes, ClientInv
<1>2. ToolOK'
  <2>1. tool.crashes + 1 \in 0 .. MaxCrashes
    BY <1>1, ClientAssumption DEF ToolOK, ToolStates
  <2> QED
    BY <1>1, <2>1, ToolRests
<1>3. CASE UNCHANGED <<accts, landed>>
  BY <1>1, <1>2, <1>3 DEF ClientInv, AtMostOne
<1>4. CASE Takes(ToolAsk) /\ Executed(ToolAsk)
  <2>1. Requested(ToolAsk)
    BY <1>1, <1>4, ToolAskOK DEF Requested
  <2> QED
    BY <1>1, <1>2, <2>1, RequestedKeeps, WaitingKeeps DEF ClientInv, AtMostOne
<1> QED
  BY <1>3, <1>4 DEF ToolCrashes

(* A lost transaction, and no step at all.                                 *)
LEMMA IdleKeeps == ASSUME ClientInv, Drop \/ UNCHANGED clientVars PROVE ClientInv'
<1>1. /\ UNCHANGED <<cast, accts, landed, page, tool>> /\ tab' \in {{}, tab}
  BY DEF Drop, clientVars
<1>2. ToolOK'
  BY <1>1 DEF ClientInv, ToolOK, ToolStates
<1> QED
  BY <1>1, <1>2 DEF ClientInv, AtMostOne

(* Every step keeps the invariant.                                         *)
LEMMA ClientStep ==
  ASSUME ClientInv, [ClientNext]_clientVars
  PROVE  ClientInv'
<1>1. CASE Build
  BY <1>1, BuildKeeps
<1>2. CASE Arrive
  BY <1>2, ArriveKeeps
<1>3. CASE Elsewhere
  BY <1>3, ElsewhereKeeps
<1>4. CASE SetUpElsewhere
  BY <1>4, SetUpElsewhereKeeps
<1>5. CASE \E who \in Users : CloseAta(who)
  BY <1>5, CloseAtaKeeps
<1>6. CASE \/ \E p \in Pools : PageReadsPool(p)
           \/ \E who \in Users : PageReadsWallet(who)
           \/ PageReadsLosses \/ PageReadsContracts \/ PageCloses
  BY <1>6, PageKeeps
<1>7. CASE \E p \in Pools : ToolStarts(p)
  BY <1>7, ToolStartsKeeps
<1>8. CASE ToolChecks
  BY <1>8, ToolChecksKeeps
<1>9. CASE ToolSends
  BY <1>9, ToolSendsKeeps
<1>10. CASE ToolCrashes
  BY <1>10, ToolCrashesKeeps
<1>11. CASE Drop \/ UNCHANGED clientVars
  BY <1>11, IdleKeeps
<1> QED
  BY <1>1, <1>2, <1>3, <1>4, <1>5, <1>6, <1>7, <1>8, <1>9, <1>10, <1>11 DEF ClientNext

(* In every state, for any users, pools, buttons and bounds: every account *)
(* lies where its fields say and points at accounts that are there, every  *)
(* transaction that waits was built from accounts that were there, and of  *)
(* every request that landed the trace is still there.                     *)
THEOREM ClientIsInvariant == ClientSpec => []ClientInv
<1>1. ClientInit => ClientInv
  BY ClientInitInv
<1>2. ClientInv /\ [ClientNext]_clientVars => ClientInv'
  BY ClientStep
<1> QED
  BY <1>1, <1>2, PTL DEF ClientSpec

(* Every account lies at the address that its own fields give, so no       *)
(* account is ever opened in the place of another; there is one tab, one   *)
(* page, and the tool is in one of its states.  (seeds and init of the     *)
(* Accounts structs; pda.ts)                                               *)
THEOREM ClientAlwaysTypeOK == ClientSpec => []ClientTypeOK
<1>1. ASSUME ClientInv PROVE ClientTypeOK
  <2>1. \A a \in DOMAIN accts : a \in AddressesOf(accts[a])
    <3> TAKE a \in DOMAIN accts
    <3>1. AccountAt(a, accts[a])
      BY <1>1 DEF ClientInv, AccountsOK
    <3> QED
      BY <3>1 DEF AccountAt, ConfigAt, PoolAt, LossAt, MarketAt, SellerAt, ContractAt, MintAt,
                  TokenAt, AddressesOf
  <2>2. ASSUME NEW S, AtMostOne(S) PROVE Cardinality(S) <= 1
    <3>1. CASE S = {}
      BY <3>1, FS_EmptySet
    <3>2. CASE S # {}
      <4>1. PICK x \in S : S = {x}
        BY <2>2, <3>2 DEF AtMostOne
      <4> QED
        BY <4>1, FS_Singleton
    <3> QED
      BY <3>1, <3>2
  <2>3. AtMostOne(tab) /\ AtMostOne(page) /\ tool \in ToolStates
    BY <1>1 DEF ClientInv, ToolOK
  <2> QED
    BY <2>1, <2>2, <2>3 DEF ClientTypeOK
<1> QED
  BY <1>1, ClientIsInvariant, PTL

(* A request that was carried out and whose confirmation got lost is       *)
(* refused however late it is repeated: no double purchase, loss or        *)
(* settlement.  (the init constraints and status checks of the structs;    *)
(* builders/buy.ts, LossScreen.tsx)                                        *)
THEOREM LandedIsNeverTakenAgain == ClientSpec => []LandedNeverAgain
<1>1. ASSUME ClientInv PROVE LandedNeverAgain
  BY <1>1, SpentIsRefused DEF ClientInv, LandedNeverAgain, Takes
<1> QED
  BY <1>1, ClientIsInvariant, PTL

-----------------------------------------------------------------------------
(* The refinement.  A number is one of those the ledger provides for.      *)
Numbered(ask) == ask.op = "buyProtection" => ask.nonce \in 0 .. MaxContracts

(* A purchase that the bounds have room for has a number of the ledger.    *)
LEMMA RoomIsNumbered ==
  ASSUME ClientInv, NEW ask, AskOK(ask), Known(accts, ask), Room(ask)
  PROVE  Numbered(ask)
<1> SUFFICES ASSUME ask.op = "buyProtection" PROVE ask.nonce \in 0 .. MaxContracts
  BY DEF Numbered
<1> DEFINE market == ProtectionAddress(PoolAddress(ask.pool))
<1>1. market \in DOMAIN accts /\ ask.nonce <= accts[market].contracts
      /\ accts[market].contracts < MaxContracts /\ ask.nonce \in Nat
  BY DEF Known, Room, AskOK
<1>2. accts[market].contracts \in Nat
  BY <1>1, MarketThere DEF MarketAt, ClientInv
<1> QED
  BY <1>1, <1>2, ClientAssumption

(* What a step does to the accounts: nothing, a request, or a closing.     *)
LEMMA StepsOfAccounts ==
  ASSUME ClientInv, [ClientNext]_clientVars
  PROVE  \/ accts' = accts
         \/ \E who : accts' = [a \in DOMAIN accts \ {AtaAddress(who, MintAddress)} |-> accts[a]]
         \/ \E ask : Requested(ask) /\ Numbered(ask)
<1>1. CASE Arrive
  <2>1. PICK ask \in tab : Room(ask) /\ Takes(ask) /\ Executed(ask)
    BY <1>1 DEF Arrive
  <2> QED
    BY <2>1, RoomIsNumbered DEF Requested, ClientInv
<1>2. CASE Elsewhere
  <2>1. PICK ask \in Offered : Room(ask) /\ Takes(ask) /\ Executed(ask)
    BY <1>2 DEF Elsewhere
  <2> QED
    BY <2>1, OfferedFit, RoomIsNumbered DEF Requested
<1>3. CASE SetUpElsewhere
  <2>1. PICK ask \in {Ask("initConfig", who, 0) : who \in Users}
                     \cup {Ask(op, Operator, p) : op \in {"createPool", "initProtection"}, p
                       \in Stage} :
          Takes(ask) /\ Executed(ask)
    BY <1>3 DEF SetUpElsewhere
  <2>2. ask.op \in {"initConfig", "createPool", "initProtection"}
    BY AskIs
  <2> QED
    BY <2>1, <2>2, SetUpAskOK DEF Requested, Numbered
<1>4. CASE \E who \in Users : CloseAta(who)
  BY <1>4 DEF CloseAta
<1>5. CASE (ToolSends \/ ToolCrashes) /\ accts' # accts
  <2>1. Takes(ToolAsk) /\ Executed(ToolAsk) /\ tool.stage # "rest"
    BY <1>5 DEF ToolSends, ToolCrashes, ClientInv, ToolOK
  <2>2. ToolAsk.op = tool.stage
    BY AskIs DEF ToolAsk
  <2>3. tool.stage # "buyProtection"
    BY DEF ClientInv, ToolOK, ToolStates
  <2> QED
    BY <2>1, <2>2, <2>3, ToolAskOK DEF Requested, Numbered
<1>6. CASE \/ Build \/ Drop \/ ToolChecks \/ PageReadsLosses \/ PageReadsContracts \/ PageCloses
           \/ \E who \in Users : PageReadsWallet(who)
           \/ \E p \in Pools : PageReadsPool(p) \/ ToolStarts(p)
           \/ UNCHANGED clientVars
  BY <1>6 DEF Build, Drop, ToolChecks, PageReadsLosses, PageReadsContracts, PageCloses,
              PageReadsWallet, PageReadsPool, ToolStarts, clientVars
<1> QED
  BY <1>1, <1>2, <1>3, <1>4, <1>5, <1>6 DEF ClientNext

(* The ledger after a step is that of the accounts after the step.         *)
LEMMA LedgerPrimed ==
  /\ AuthorityIn(accts)' = AuthorityIn(accts') /\ PoolsIn(accts)' = PoolsIn(accts')
  /\ MarketsIn(accts)' = MarketsIn(accts') /\ LossesIn(accts)' = LossesIn(accts')
  /\ ContractsIn(accts)' = ContractsIn(accts')
OBVIOUS

(* Where the ledger does not move the step is a stutter.                   *)
LEMMA UnmovedStutters ==
  ASSUME Unmoved(accts, accts')
  PROVE  UNCHANGED Ledger!ledger
BY LedgerPrimed DEF Unmoved, Ledger!ledger

(* One thing done to the accounts is one step of the ledger.               *)
LEMMA OneThingIsOneStep ==
  ASSUME NEW ask, AskOK(ask), Numbered(ask), DoesOneThing(accts, accts', ask)
  PROVE  [Ledger!LedgerNext]_(Ledger!ledger)
<1>1. ask.who \in Users /\ (ask.op # "initConfig" => ask.pool \in Pools)
  BY DEF AskOK
<1>2. CASE ask.op = "initConfig"
  <2>1. Ledger!Open(ask.who)
    BY <1>2, LedgerPrimed DEF DoesOneThing, Founds, Ledger!Open, Ledger!Nobody
  <2> QED
    BY <1>1, <2>1 DEF Ledger!LedgerNext
<1>3. CASE ask.op = "createPool"
  <2>1. Ledger!OpenPool(ask.pool)
    BY <1>3, LedgerPrimed DEF DoesOneThing, OpensPool, Ledger!OpenPool, Ledger!Nobody
  <2> QED
    BY <1>1, <1>3, <2>1 DEF Ledger!LedgerNext
<1>4. CASE ask.op = "initProtection"
  <2>1. Ledger!OpenMarket(ask.pool)
    BY <1>4, LedgerPrimed DEF DoesOneThing, OpensMarket, Ledger!OpenMarket
  <2> QED
    BY <1>1, <1>4, <2>1 DEF Ledger!LedgerNext
<1>5. CASE ask.op = "recordLoss"
  <2>1. Ledger!Lose(ask.pool)
    BY <1>5, LedgerPrimed DEF DoesOneThing, Loses, Ledger!Lose
  <2> QED
    BY <1>1, <1>5, <2>1 DEF Ledger!LedgerNext
<1>6. CASE ask.op = "buyProtection"
  <2>1. Ledger!Sell(ask.pool, ask.who)
    BY <1>6, LedgerPrimed DEF DoesOneThing, Sells, Numbered, Ledger!Sell, Ledger!SoldIn
  <2> QED
    BY <1>1, <1>6, <2>1 DEF Ledger!LedgerNext
<1>7. CASE ask.op = "settleProtection"
  <2>1. Settles(accts, accts')
    BY <1>7 DEF DoesOneThing
  <2>2. PICK s \in ContractsIn(accts) :
          /\ s.status = "active"
          /\ \E i \in 0 .. (LossesIn(accts)[s.pool] - 1) :
               /\ i >= s.from
               /\ ContractsIn(accts') = (ContractsIn(accts) \ {s}) \cup {Ledger!Ended(s,
                    "settled", i)}
    BY <2>1 DEF Settles
  <2>3. Ledger!Settle(s)
    BY <2>1, <2>2, LedgerPrimed DEF Settles, OnlyContracts, Ledger!Settle
  <2> QED
    BY <2>3 DEF Ledger!LedgerNext
<1>8. CASE ask.op = "expireProtection"
  <2>1. Expires(accts, accts')
    BY <1>8 DEF DoesOneThing
  <2>2. PICK s \in ContractsIn(accts) :
          /\ s.status = "active"
          /\ ContractsIn(accts') = (ContractsIn(accts) \ {s}) \cup {Ledger!Ended(s, "expired",
               s.by)}
    BY <2>1 DEF Expires
  <2>3. Ledger!Expire(s)
    BY <2>1, <2>2, LedgerPrimed DEF Expires, OnlyContracts, Ledger!Expire
  <2> QED
    BY <2>3 DEF Ledger!LedgerNext
<1>9. CASE ask.op \in {"faucet", "accrue", "deposit", "redeem", "provideProtection",
                       "withdrawProtection"}
  <2>1. Unmoved(accts, accts')
    BY <1>9 DEF DoesOneThing
  <2> QED
    BY <2>1, UnmovedStutters
<1> QED
  BY <1>2, <1>3, <1>4, <1>5, <1>6, <1>7, <1>8, <1>9 DEF AskOK, Ops, Once

(* Every step of the client is one of the ledger, or none.                 *)
LEMMA ClientStepOfLedger ==
  ASSUME ClientInv, [ClientNext]_clientVars
  PROVE  [Ledger!LedgerNext]_(Ledger!ledger)
<1>1. CASE accts' = accts
  BY <1>1, UnmovedStutters DEF Unmoved
<1>2. CASE \E who : accts' = [a \in DOMAIN accts \ {AtaAddress(who, MintAddress)} |-> accts[a]]
  BY <1>2, ClosingUnmoved, UnmovedStutters DEF ClientInv
<1>3. ASSUME NEW ask, Requested(ask), Numbered(ask)
      PROVE  [Ledger!LedgerNext]_(Ledger!ledger)
  BY <1>3, RequestedKeeps, OneThingIsOneStep DEF Requested
<1> QED
  BY <1>1, <1>2, <1>3, StepsOfAccounts

(* With no accounts the ledger is empty.                                   *)
LEMMA ClientInitOfLedger == ClientInit => Ledger!LedgerInit
<1> SUFFICES ASSUME ClientInit PROVE Ledger!LedgerInit
  OBVIOUS
<1>1. DOMAIN accts = {}
  BY DEF ClientInit
<1> QED
  BY <1>1 DEF Ledger!LedgerInit, Ledger!Nobody, AuthorityIn, PoolsIn, MarketsIn, LossesIn,
              ContractsIn, ContractAccounts

(* Whatever is built when, overtaken, repeated or lost, every transaction  *)
(* that is taken does one thing to the ledger or nothing: it founds the    *)
(* program, opens a pool or a market, records a loss, sells a contract     *)
(* that did not exist, or closes one that is active.                       *)
THEOREM ClientImplementsLedger == ClientSpec => ImplementsLedger
<1>1. ClientInit => Ledger!LedgerInit
  BY ClientInitOfLedger
<1>2. ClientInv /\ [ClientNext]_clientVars => [Ledger!LedgerNext]_(Ledger!ledger)
  BY ClientStepOfLedger
<1> QED
  BY <1>1, <1>2, ClientIsInvariant, PTL DEF ClientSpec, ImplementsLedger, Ledger!LedgerSpec

-----------------------------------------------------------------------------
(* What is fit is taken: every account that an instruction pins is where   *)
(* the builder says.                                                       *)
LEMMA PinnedStands ==
  ASSUME NEW A, AccountsOK(A), NEW p, PoolAddress(p) \in DOMAIN A, NEW c,
         PinnedTo(c, PoolAddress(p))
  PROVE  Pinned(A, c) /\ PoolOk(A, c)
<1> DEFINE pool == PoolAddress(p)
<1>1. PoolAt(pool, A[pool]) /\ LinkedAt(A, pool) /\ A[pool].id = p
  BY PoolThere
<1>2. ConfigAddress \in DOMAIN A
  BY <1>1 DEF LinkedAt, PoolAt
<1>3. ConfigAt(ConfigAddress, A[ConfigAddress])
  BY <1>2, ConfigThere
<1>4. ConfigOk(A, c) /\ c.mint = A[c.config].mint /\ c.treasury = A[c.config].treasury
  BY <1>2, <1>3 DEF ConfigAt, PinnedTo, ConfigOk, Is
<1>5. PoolOk(A, c)
  BY <1>1 DEF PoolAt, PinnedTo, PoolOk, Is
<1>6. /\ c.mint = A[c.pool].mint /\ c.vault = A[c.pool].vault
      /\ c.seniorMint = A[c.pool].seniorMint /\ c.juniorMint = A[c.pool].juniorMint
  BY <1>1 DEF PoolAt, PinnedTo
<1> QED
  BY <1>4, <1>5, <1>6 DEF Pinned

(* The same for the two accounts of a market.                              *)
LEMMA MarketStands ==
  ASSUME NEW A, AccountsOK(A), NEW p, ProtectionAddress(PoolAddress(p)) \in DOMAIN A, NEW c,
         c.pool = PoolAddress(p), MarketOf(c, PoolAddress(p))
  PROVE  MarketOk(A, c) /\ PoolOk(A, c) /\ PoolAddress(p) \in DOMAIN A
<1> DEFINE pool == PoolAddress(p)
           market == ProtectionAddress(pool)
<1>1. MarketAt(market, A[market]) /\ LinkedAt(A, market) /\ A[market].pool = pool
  BY MarketThere
<1>2. pool \in DOMAIN A
  BY <1>1 DEF LinkedAt, MarketAt
<1>3. PoolAt(pool, A[pool]) /\ A[pool].id = p
  BY <1>2, PoolThere
<1>4. MarketOk(A, c)
  BY <1>1 DEF MarketAt, MarketOf, MarketOk, Is
<1>5. PoolOk(A, c)
  BY <1>2, <1>3 DEF PoolAt, PoolOk, Is
<1> QED
  BY <1>2, <1>4, <1>5

(* A wallet's account of the token library is the wallet's.                *)
LEMMA AtaHolds ==
  ASSUME NEW A, AccountsOK(A), NEW who, NEW mint, AtaAddress(who, mint) \in DOMAIN A
  PROVE  Holds(A, AtaAddress(who, mint), mint, who)
BY AtaThere DEF Holds, Is

(* A contract has a market.                                                *)
LEMMA ContractHasMarket ==
  ASSUME NEW A, AccountsOK(A), NEW pool, NEW who, NEW n, ContractAddress(pool, who, n)
    \in DOMAIN A
  PROVE  /\ Is(A, ContractAddress(pool, who, n), "ProtectionContract")
         /\ A[ContractAddress(pool, who, n)].pool = pool
         /\ A[ContractAddress(pool, who, n)].buyer = who
         /\ ProtectionAddress(pool) \in DOMAIN A
<1> DEFINE a == ContractAddress(pool, who, n)
<1>1. ContractAt(a, A[a]) /\ LinkedAt(A, a) /\ A[a].pool = pool /\ A[a].buyer = who
  BY ContractThere
<1> QED
  BY <1>1 DEF ContractAt, LinkedAt, Is

(* The mint of a tranche, to the builder and to the program.               *)
LEMMA TrancheMintsAgree ==
  ASSUME NEW A, AccountsOK(A), NEW p, PoolAddress(p) \in DOMAIN A,
         NEW tranche \in {"senior", "junior"}
  PROVE  LET mint == TrancheMint(PoolAccounts(p), tranche)
         IN  /\ mint \in {SeniorMintAddress(PoolAddress(p)), JuniorMintAddress(PoolAddress(p))}
             /\ TrancheMintOf(A[PoolAddress(p)], tranche) = mint
             /\ Is(A, mint, "Mint")
<1> DEFINE pool == PoolAddress(p)
           mint == TrancheMint(PoolAccounts(p), tranche)
<1>1. PoolAt(pool, A[pool]) /\ LinkedAt(A, pool)
  BY PoolThere
<1>2. /\ tranche = "senior" => mint = SeniorMintAddress(pool)
      /\ tranche = "junior" => mint = JuniorMintAddress(pool)
  BY PoolAccountsAre DEF TrancheMint, PinnedTo
<1>3. TrancheMintOf(A[pool], tranche) = mint
  BY <1>1, <1>2 DEF PoolAt, TrancheMintOf
<1> HIDE DEF mint
<1>4. mint \in {SeniorMintAddress(pool), JuniorMintAddress(pool)}
  BY <1>2
<1>5. mint \in DOMAIN A
  BY <1>1, <1>4 DEF PoolAt, LinkedAt
<1>6. MintAt(mint, A[mint])
  BY <1>4, <1>5, MintThere
<1>7. Is(A, mint, "Mint")
  BY <1>5, <1>6 DEF MintAt, Is
<1> QED
  BY <1>3, <1>4, <1>7 DEF mint

(* The token library has opened an account, or found it there.             *)
LEMMA AtaOpenedStands ==
  ASSUME NEW A, AccountsOK(A), NEW who, NEW mint, Is(A, mint, "Mint")
  PROVE  LET B == AtaOpened(A, who, mint)
         IN  /\ AccountsOK(B) /\ DOMAIN A \subseteq DOMAIN B
             /\ AtaAddress(who, mint) \in DOMAIN B
             /\ \A a \in DOMAIN A : B[a] = A[a]
<1> DEFINE B == AtaOpened(A, who, mint)
<1>1. AccountsOK(B)
  BY AtaOpenedKeeps
<1> QED
  BY <1>1 DEF AtaOpened, Opening

(* In a pool whose mints are there so is the currency.                     *)
LEMMA CurrencyStands ==
  ASSUME NEW A, AccountsOK(A), NEW p, PoolAddress(p) \in DOMAIN A
  PROVE  Is(A, MintAddress, "Mint")
<1>1. ConfigAddress \in DOMAIN A
  BY PoolThere DEF LinkedAt, PoolAt
<1>2. MintAddress \in DOMAIN A
  BY <1>1, ConfigThere DEF LinkedAt, ConfigAt
<1>3. MintAt(MintAddress, A[MintAddress])
  BY <1>2, MintThere
<1> QED
  BY <1>2, <1>3 DEF MintAt, Is

-----------------------------------------------------------------------------
(* What is fit is taken, instruction by instruction.                       *)
LEMMA FaucetTaken ==
  ASSUME NEW A, AccountsOK(A), NEW ask, AskOK(ask), Fit(A, ask), ask.op = "faucet"
  PROVE  TransactionOk(A, Transaction(ask), {ask.who})
<1> DEFINE c == Meaning(ask)
<1>1. /\ Signed(ask) /\ Alone(ask) /\ c.config = ConfigAddress /\ c.mint = MintAddress
      /\ c.ownerAta = AtaAddress(ask.who, MintAddress) /\ c.owner = ask.who
  BY FaucetMeans
<1>2. ConfigAddress \in DOMAIN A /\ ConfigAt(ConfigAddress, A[ConfigAddress])
  BY ConfigThere DEF Fit
<1>3. FaucetOk(A, c)
  BY <1>1, <1>2 DEF FaucetOk, ConfigOk, ConfigAt, Is
<1> QED
  BY <1>1, <1>3, AloneTakes, FaucetHandled

LEMMA AccrueTaken ==
  ASSUME NEW A, AccountsOK(A), NEW ask, AskOK(ask), Fit(A, ask), ask.op = "accrue"
  PROVE  TransactionOk(A, Transaction(ask), {ask.who})
<1> DEFINE c == Meaning(ask)
<1>1. Signed(ask) /\ Alone(ask) /\ PinnedTo(c, PoolAddress(ask.pool))
  BY AccrueMeans
<1>2. AccrueOk(A, c)
  BY <1>1, PinnedStands DEF Fit, AccrueOk
<1> QED
  BY <1>1, <1>2, AloneTakes, AccrueHandled

LEMMA DepositTaken ==
  ASSUME NEW A, AccountsOK(A), NEW ask, AskOK(ask), Fit(A, ask), ask.op = "deposit"
  PROVE  TransactionOk(A, Transaction(ask), {ask.who})
<1> DEFINE c == Meaning(ask)
           pool == PoolAddress(ask.pool)
           mint == TrancheMint(PoolAccounts(ask.pool), ask.tranche)
           B == AtaOpened(A, ask.who, mint)
<1>1. /\ Signed(ask) /\ Opens(ask, mint) /\ PinnedTo(c, pool)
      /\ c.ownerAta = AtaAddress(ask.who, MintAddress)
      /\ c.ownerTrancheAta = AtaAddress(ask.who, mint)
      /\ c.owner = ask.who /\ c.tranche = ask.tranche
  BY DepositMeans
<1>2. /\ pool \in DOMAIN A /\ AtaAddress(ask.who, MintAddress) \in DOMAIN A
      /\ ask.tranche \in {"senior", "junior"}
  BY DEF Fit, AskOK
<1>3. Is(A, mint, "Mint")
  BY <1>2, TrancheMintsAgree
<1>4. /\ AccountsOK(B) /\ pool \in DOMAIN B /\ AtaAddress(ask.who, MintAddress) \in DOMAIN B
      /\ AtaAddress(ask.who, mint) \in DOMAIN B
  BY <1>2, <1>3, AtaOpenedStands
<1>5. TrancheMintOf(B[pool], ask.tranche) = mint
  BY <1>2, <1>4, TrancheMintsAgree
<1> HIDE DEF B, c
<1>6. DepositOk(B, c)
  <2>1. Pinned(B, c)
    BY <1>1, <1>4, PinnedStands
  <2>2. Holds(B, c.ownerAta, c.mint, c.owner)
    BY <1>1, <1>4, AtaHolds DEF PinnedTo
  <2>3. Holds(B, c.ownerTrancheAta, TrancheMintOf(B[c.pool], c.tranche), c.owner)
    BY <1>1, <1>4, <1>5, AtaHolds DEF PinnedTo
  <2> QED
    BY <2>1, <2>2, <2>3 DEF DepositOk
<1> QED
  BY <1>1, <1>3, <1>6, OpensTakes, DepositHandled DEF B, c

LEMMA RedeemTaken ==
  ASSUME NEW A, AccountsOK(A), NEW ask, AskOK(ask), Fit(A, ask), ask.op = "redeem"
  PROVE  TransactionOk(A, Transaction(ask), {ask.who})
<1> DEFINE c == Meaning(ask)
           pool == PoolAddress(ask.pool)
           mint == TrancheMint(PoolAccounts(ask.pool), ask.tranche)
           B == AtaOpened(A, ask.who, MintAddress)
<1>1. /\ Signed(ask) /\ Opens(ask, MintAddress) /\ PinnedTo(c, pool)
      /\ c.ownerAta = AtaAddress(ask.who, MintAddress)
      /\ c.ownerTrancheAta = AtaAddress(ask.who, mint)
      /\ c.owner = ask.who /\ c.tranche = ask.tranche
  BY RedeemMeans
<1>2. AtaAddress(ask.who, mint) \in DOMAIN A /\ ask.tranche \in {"senior", "junior"}
  BY DEF Fit, AskOK
<1>3. pool \in DOMAIN A
  <2>1. Is(A, mint, "Mint")
    BY <1>2, AtaThere
  <2>2. mint \in {SeniorMintAddress(pool), JuniorMintAddress(pool)}
    BY <1>2, PoolAccountsAre DEF TrancheMint, PinnedTo
  <2>3. mint # MintAddress
    BY <2>2 DEF SeniorMintAddress, JuniorMintAddress, MintAddress, Pda
  <2> HIDE DEF mint, pool
  <2>4. Is(A, pool, "Pool")
    BY <2>1, <2>2, <2>3, MintThere DEF Is
  <2> QED
    BY <2>4 DEF Is
<1>4. Is(A, MintAddress, "Mint")
  BY <1>3, CurrencyStands
<1>5. /\ AccountsOK(B) /\ pool \in DOMAIN B /\ AtaAddress(ask.who, MintAddress) \in DOMAIN B
      /\ AtaAddress(ask.who, mint) \in DOMAIN B
  BY <1>2, <1>3, <1>4, AtaOpenedStands
<1>6. TrancheMintOf(B[pool], ask.tranche) = mint
  BY <1>2, <1>5, TrancheMintsAgree
<1> HIDE DEF B, c
<1>7. DepositOk(B, c)
  <2>1. Pinned(B, c)
    BY <1>1, <1>5, PinnedStands
  <2>2. Holds(B, c.ownerAta, c.mint, c.owner)
    BY <1>1, <1>5, AtaHolds DEF PinnedTo
  <2>3. Holds(B, c.ownerTrancheAta, TrancheMintOf(B[c.pool], c.tranche), c.owner)
    BY <1>1, <1>5, <1>6, AtaHolds DEF PinnedTo
  <2> QED
    BY <2>1, <2>2, <2>3 DEF DepositOk
<1> QED
  BY <1>1, <1>4, <1>7, OpensTakes, RedeemHandled DEF B, c, RedeemOk

(* The index of a fresh loss is the pool's counter, so its address is the  *)
(* one the program opens, and it is free.                                  *)
LEMMA RecordLossTaken ==
  ASSUME NEW A, AccountsOK(A), NEW ask, AskOK(ask), Fit(A, ask), ask.op = "recordLoss"
  PROVE  TransactionOk(A, Transaction(ask), {ask.who})
<1> DEFINE c == Meaning(ask)
           pool == PoolAddress(ask.pool)
<1>1. /\ Signed(ask) /\ Alone(ask) /\ PinnedTo(c, pool)
      /\ c.lossEvent = LossEventAddress(pool, ask.index) /\ c.operator = ask.who
  BY RecordLossMeans
<1>2. /\ pool \in DOMAIN A /\ A[pool].operator = ask.who
      /\ ask.index = A[pool].lossCount
  BY DEF Fit
<1>3. A[pool].lossCount \in Nat
  BY <1>2, PoolThere DEF PoolAt
<1>4. LossEventAddress(pool, ask.index) \notin DOMAIN A
  <2> SUFFICES ASSUME LossEventAddress(pool, ask.index) \in DOMAIN A PROVE FALSE
    OBVIOUS
  <2> DEFINE loss == LossEventAddress(pool, ask.index)
  <2>1. LossAt(loss, A[loss]) /\ LinkedAt(A, loss) /\ A[loss].pool = pool
        /\ A[loss].index = ask.index
    BY LossThere
  <2> HIDE DEF loss
  <2>2. ask.index < A[pool].lossCount
    BY <2>1 DEF LossAt, LinkedAt
  <2> QED
    BY <1>2, <1>3, <2>2
<1>5. c.pool = pool
  BY <1>1 DEF PinnedTo
<1> HIDE DEF c
<1>6. RecordLossOk(A, c)
  BY <1>1, <1>2, <1>4, <1>5, PinnedStands DEF RecordLossOk, New
<1> QED
  BY <1>1, <1>6, AloneTakes, RecordLossHandled DEF c

LEMMA ProvideTaken ==
  ASSUME NEW A, AccountsOK(A), NEW ask, AskOK(ask), Fit(A, ask), ask.op = "provideProtection"
  PROVE  TransactionOk(A, Transaction(ask), {ask.who})
<1> DEFINE c == Meaning(ask)
           pool == PoolAddress(ask.pool)
<1>1. /\ Signed(ask) /\ Alone(ask) /\ c.pool = pool /\ MarketOf(c, pool)
      /\ c.ownerAta = AtaAddress(ask.who, MintAddress)
      /\ c.position = SellerAddress(pool, ask.who) /\ c.owner = ask.who
  BY ProvideProtectionMeans
<1>2. ProtectionAddress(pool) \in DOMAIN A /\ AtaAddress(ask.who, MintAddress) \in DOMAIN A
  BY DEF Fit
<1> HIDE DEF c
<1>3. MarketOk(A, c) /\ PoolOk(A, c) /\ pool \in DOMAIN A
  BY <1>1, <1>2, MarketStands
<1>4. A[pool].mint = MintAddress
  BY <1>3, PoolThere DEF PoolAt
<1>5. Holds(A, c.ownerAta, A[c.pool].mint, c.owner)
  BY <1>1, <1>2, <1>4, AtaHolds
<1>6. ProvideOk(A, c)
  BY <1>1, <1>3, <1>5 DEF ProvideOk
<1> QED
  BY <1>1, <1>6, AloneTakes, ProvideHandled DEF c

LEMMA WithdrawTaken ==
  ASSUME NEW A, AccountsOK(A), NEW ask, AskOK(ask), Fit(A, ask), ask.op = "withdrawProtection"
  PROVE  TransactionOk(A, Transaction(ask), {ask.who})
<1> DEFINE c == Meaning(ask)
           pool == PoolAddress(ask.pool)
           seller == SellerAddress(pool, ask.who)
           B == AtaOpened(A, ask.who, MintAddress)
<1>1. /\ Signed(ask) /\ Opens(ask, MintAddress) /\ c.pool = pool /\ MarketOf(c, pool)
      /\ c.ownerAta = AtaAddress(ask.who, MintAddress)
      /\ c.position = seller /\ c.owner = ask.who
  BY WithdrawProtectionMeans
<1>2. /\ seller \in DOMAIN A /\ A[seller].kind = "SellerPosition"
      /\ ProtectionAddress(pool) \in DOMAIN A
  BY SellerThere DEF Fit, SellerAt, LinkedAt
<1> HIDE DEF c
<1>3. pool \in DOMAIN A
  BY <1>1, <1>2, MarketStands
<1>4. Is(A, MintAddress, "Mint")
  BY <1>3, CurrencyStands
<1>5. /\ AccountsOK(B) /\ ProtectionAddress(pool) \in DOMAIN B
      /\ AtaAddress(ask.who, MintAddress) \in DOMAIN B /\ Is(B, seller, "SellerPosition")
  BY <1>2, <1>4, AtaOpenedStands DEF Is
<1> HIDE DEF B
<1>6. MarketOk(B, c) /\ PoolOk(B, c) /\ pool \in DOMAIN B
  BY <1>1, <1>5, MarketStands
<1>7. B[pool].mint = MintAddress
  BY <1>5, <1>6, PoolThere DEF PoolAt
<1>8. Holds(B, c.ownerAta, B[c.pool].mint, c.owner)
  BY <1>1, <1>5, <1>7, AtaHolds
<1>9. WithdrawOk(B, c)
  BY <1>1, <1>5, <1>6, <1>8 DEF ProvideOk, WithdrawOk
<1> QED
  BY <1>1, <1>4, <1>9, OpensTakes, WithdrawHandled DEF c, B

(* The nonce of a fresh purchase is beyond every number in use, so the     *)
(* address of the contract is free; the account that pays must be there.   *)
LEMMA BuyTaken ==
  ASSUME NEW A, AccountsOK(A), NEW ask, AskOK(ask), Fit(A, ask), ask.op = "buyProtection"
  PROVE  TransactionOk(A, Transaction(ask), {ask.who}) <=>
           AtaAddress(ask.buyer, MintAddress) \in DOMAIN A
<1> DEFINE c == Meaning(ask)
           pool == PoolAddress(ask.pool)
           market == ProtectionAddress(pool)
           contract == ContractAddress(pool, ask.who, ask.nonce)
<1>1. /\ Signed(ask) /\ Alone(ask) /\ PinnedTo(c, pool) /\ MarketOf(c, pool)
      /\ c.buyerAta = AtaAddress(ask.who, MintAddress)
      /\ c.contract = contract /\ c.buyer = ask.who /\ c.nonce = ask.nonce
  BY BuyProtectionMeans
<1>2. market \in DOMAIN A /\ ask.buyer = ask.who /\ ask.nonce = A[market].contracts
  BY DEF Fit
<1>3. A[market].contracts \in Nat
  BY <1>2, MarketThere DEF MarketAt
<1>4. contract \notin DOMAIN A
  <2> SUFFICES ASSUME contract \in DOMAIN A PROVE FALSE
    OBVIOUS
  <2>1. /\ ContractAt(contract, A[contract]) /\ LinkedAt(A, contract)
        /\ A[contract].pool = pool /\ A[contract].nonce = ask.nonce
    BY ContractThere
  <2> HIDE DEF contract
  <2>2. ask.nonce < A[market].contracts
    BY <2>1 DEF ContractAt, LinkedAt
  <2> QED
    BY <1>2, <1>3, <2>2
<1>5. c.pool = pool /\ c.mint = MintAddress
  BY <1>1 DEF PinnedTo
<1> HIDE DEF c
<1>6. MarketOk(A, c) /\ pool \in DOMAIN A
  BY <1>1, <1>2, <1>5, MarketStands
<1>7. Pinned(A, c)
  BY <1>1, <1>6, PinnedStands
<1>8. Holds(A, c.buyerAta, c.mint, c.buyer) <=> AtaAddress(ask.buyer, MintAddress) \in DOMAIN A
  BY <1>1, <1>2, <1>5, AtaHolds DEF Holds, Is
<1>9. BuyOk(A, c) <=> AtaAddress(ask.buyer, MintAddress) \in DOMAIN A
  BY <1>1, <1>4, <1>5, <1>6, <1>7, <1>8 DEF BuyOk, New
<1> QED
  BY <1>1, <1>9, AloneTakes, BuyHandled DEF c

(* A claim is paid where the account of its buyer is there.                *)
LEMMA SettleTaken ==
  ASSUME NEW A, AccountsOK(A), NEW ask, AskOK(ask), Fit(A, ask), ask.op = "settleProtection"
  PROVE  TransactionOk(A, Transaction(ask), {ask.who}) <=>
           AtaAddress(ask.buyer, MintAddress) \in DOMAIN A
<1> DEFINE c == Meaning(ask)
           pool == PoolAddress(ask.pool)
           contract == ContractAddress(pool, ask.buyer, ask.nonce)
           loss == LossEventAddress(pool, ask.index)
<1>1. /\ Signed(ask) /\ Alone(ask) /\ c.pool = pool /\ MarketOf(c, pool)
      /\ c.contract = contract /\ c.lossEvent = loss
      /\ c.buyerAta = AtaAddress(ask.buyer, MintAddress)
  BY SettleProtectionMeans
<1>2. /\ contract \in DOMAIN A /\ A[contract].status = "active" /\ loss \in DOMAIN A
      /\ ask.index >= A[contract].lossIndexFrom
  BY DEF Fit
<1>3. /\ Is(A, contract, "ProtectionContract") /\ A[contract].pool = pool
      /\ A[contract].buyer = ask.buyer /\ ProtectionAddress(pool) \in DOMAIN A
  BY <1>2, ContractHasMarket
<1>4. Is(A, loss, "LossEvent") /\ A[loss].pool = pool /\ A[loss].index = ask.index
  BY <1>2, LossThere DEF LossAt, Is
<1> HIDE DEF c, contract, loss
<1>5. MarketOk(A, c) /\ PoolOk(A, c) /\ pool \in DOMAIN A
  BY <1>1, <1>3, MarketStands
<1>6. A[pool].mint = MintAddress
  BY <1>5, PoolThere DEF PoolAt
<1>7. Holds(A, c.buyerAta, A[c.pool].mint, A[c.contract].buyer) <=>
        AtaAddress(ask.buyer, MintAddress) \in DOMAIN A
  BY <1>1, <1>3, <1>6, AtaHolds DEF Holds, Is
<1>8. SettleOk(A, c) <=> AtaAddress(ask.buyer, MintAddress) \in DOMAIN A
  BY <1>1, <1>2, <1>3, <1>4, <1>5, <1>7 DEF SettleOk
<1> QED
  BY <1>1, <1>8, AloneTakes, SettleHandled DEF c

LEMMA ExpireTaken ==
  ASSUME NEW A, AccountsOK(A), NEW ask, AskOK(ask), Fit(A, ask), ask.op = "expireProtection"
  PROVE  TransactionOk(A, Transaction(ask), {ask.who})
<1> DEFINE c == Meaning(ask)
           pool == PoolAddress(ask.pool)
           market == ProtectionAddress(pool)
           contract == ContractAddress(pool, ask.buyer, ask.nonce)
<1>1. /\ Signed(ask) /\ Alone(ask) /\ PinnedTo(c, pool) /\ c.protection = market
      /\ c.contract = contract /\ c.signer = ask.who
  BY ExpireProtectionMeans
<1>2. /\ contract \in DOMAIN A /\ A[contract].status = "active"
      /\ ask.who \in {A[contract].buyer, A[pool].operator}
  BY DEF Fit
<1>3. /\ Is(A, contract, "ProtectionContract") /\ A[contract].pool = pool
      /\ market \in DOMAIN A
  BY <1>2, ContractHasMarket
<1> HIDE DEF c, contract
<1>4. MarketAt(market, A[market]) /\ LinkedAt(A, market) /\ A[market].pool = pool
  BY <1>3, MarketThere
<1>5. pool \in DOMAIN A /\ Is(A, market, "ProtectionPool")
  BY <1>3, <1>4 DEF LinkedAt, MarketAt, Is
<1>6. Pinned(A, c) /\ c.pool = pool
  BY <1>1, <1>5, PinnedStands DEF PinnedTo
<1>7. ExpireOk(A, c)
  BY <1>1, <1>2, <1>3, <1>5, <1>6 DEF ExpireOk
<1> QED
  BY <1>1, <1>7, AloneTakes, ExpireHandled DEF c

(* Whatever is fit is taken, unless a token account is missing.            *)
LEMMA FitIsTaken ==
  ASSUME NEW A, AccountsOK(A), NEW ask, AskOK(ask), Fit(A, ask)
  PROVE  TransactionOk(A, Transaction(ask), {ask.who}) <=>
           (ask.op \in {"buyProtection", "settleProtection"} =>
              AtaAddress(ask.buyer, MintAddress) \in DOMAIN A)
<1>1. ask.op \in {"faucet", "accrue", "deposit", "redeem", "recordLoss", "provideProtection",
                  "withdrawProtection", "buyProtection", "settleProtection", "expireProtection"}
  BY DEF AskOK, Ops, Once, Fit
<1> QED
  BY <1>1, FaucetTaken, AccrueTaken, DepositTaken, RedeemTaken, RecordLossTaken, ProvideTaken,
     WithdrawTaken, BuyTaken, SettleTaken, ExpireTaken

(* What a page offers on a fresh read, the program takes; it refuses       *)
(* exactly a claim or a purchase whose buyer has no token account.         *)
(* (read.ts, builders/settle.ts, builders/buy.ts; money aside)             *)
THEOREM FreshIsAlwaysTaken == ClientSpec => []FreshIsTaken
<1>1. ASSUME ClientInv PROVE FreshIsTaken
  <2> SUFFICES ASSUME NEW ask \in Offered
               PROVE  Takes(ask) <=> (ask.op \in {"buyProtection", "settleProtection"} =>
                                        Purse(ask.buyer, MintAddress))
    BY DEF FreshIsTaken
  <2>1. AskOK(ask) /\ Fit(accts, ask) /\ AccountsOK(accts)
    BY <1>1, OfferedFit DEF ClientInv
  <2>2. TransactionOk(accts, Transaction(ask), {ask.who}) <=>
          (ask.op \in {"buyProtection", "settleProtection"} =>
             AtaAddress(ask.buyer, MintAddress) \in DOMAIN accts)
    BY <2>1, FitIsTaken
  <2> QED
    BY <2>2 DEF Takes, Purse, Open
<1> QED
  BY <1>1, ClientIsInvariant, PTL

-----------------------------------------------------------------------------
(* One meaning.  The parser of the generated client knows the same list of *)
(* accounts and arguments as the program, instruction by instruction ...   *)
LEMMA ParsedAsStruct ==
  ASSUME NEW ask, ask.op \in Ops, Signed(ask)
  PROVE  /\ IdentifyWashappInstruction(Main(ask)) = ask.op
         /\ ParseWashappInstruction(Main(ask))
              = Parsed(Accounts[ask.op], Parameters[ask.op], Main(ask))
<1>1. Main(ask).data.discriminator = ask.op
  BY DiscriminatorIs
<1>2. ask.op \in WashappInstructions
  BY DEF Ops, Once, WashappInstructions
<1>3. IdentifyWashappInstruction(Main(ask)) = ask.op
  BY <1>1, <1>2 DEF IdentifyWashappInstruction
<1>4. CASE ask.op = "initConfig"
  BY <1>3, <1>4, InitConfigStruct DEF ParseWashappInstruction, ParseInitConfigInstruction
<1>5. CASE ask.op = "faucet"
  BY <1>3, <1>5, FaucetStruct DEF ParseWashappInstruction, ParseFaucetInstruction
<1>6. CASE ask.op = "accrue"
  BY <1>3, <1>6, AccrueStruct DEF ParseWashappInstruction, ParseAccrueInstruction
<1>7. CASE ask.op = "deposit"
  BY <1>3, <1>7, DepositStruct DEF ParseWashappInstruction, ParseDepositInstruction
<1>8. CASE ask.op = "redeem"
  BY <1>3, <1>8, RedeemStruct DEF ParseWashappInstruction, ParseRedeemInstruction
<1>9. CASE ask.op = "recordLoss"
  BY <1>3, <1>9, RecordLossStruct DEF ParseWashappInstruction, ParseRecordLossInstruction
<1>10. CASE ask.op = "initProtection"
  BY <1>3, <1>10, InitProtectionStruct DEF ParseWashappInstruction, ParseInitProtectionInstruction
<1>11. CASE ask.op = "provideProtection"
  BY <1>3, <1>11, ProvideProtectionStruct
     DEF ParseWashappInstruction, ParseProvideProtectionInstruction
<1>12. CASE ask.op = "withdrawProtection"
  BY <1>3, <1>12, WithdrawProtectionStruct
     DEF ParseWashappInstruction, ParseWithdrawProtectionInstruction
<1>13. CASE ask.op = "buyProtection"
  BY <1>3, <1>13, BuyProtectionStruct DEF ParseWashappInstruction, ParseBuyProtectionInstruction
<1>14. CASE ask.op = "settleProtection"
  BY <1>3, <1>14, SettleProtectionStruct
     DEF ParseWashappInstruction, ParseSettleProtectionInstruction
<1>15. CASE ask.op = "expireProtection"
  BY <1>3, <1>15, ExpireProtectionStruct
     DEF ParseWashappInstruction, ParseExpireProtectionInstruction
<1>16. CASE ask.op = "createPool"
  BY <1>3, <1>16, CreatePoolStruct DEF ParseWashappInstruction, ParseCreatePoolInstruction
<1> QED
  BY <1>3, <1>4, <1>5, <1>6, <1>7, <1>8, <1>9, <1>10, <1>11, <1>12, <1>13, <1>14, <1>15,
     <1>16 DEF Ops, Once

(* Every list of the program is a sequence.                                *)
LEMMA ListedAre ==
  ASSUME NEW op \in Ops
  PROVE  Listed(Accounts[op])
<1>1. CASE op = "initConfig"
  BY <1>1, InitConfigStruct DEF Listed
<1>2. CASE op = "faucet"
  BY <1>2, FaucetStruct DEF Listed
<1>3. CASE op = "accrue"
  BY <1>3, AccrueStruct DEF Listed
<1>4. CASE op = "deposit"
  BY <1>4, DepositStruct DEF Listed
<1>5. CASE op = "redeem"
  BY <1>5, RedeemStruct DEF Listed
<1>6. CASE op = "recordLoss"
  BY <1>6, RecordLossStruct DEF Listed
<1>7. CASE op = "initProtection"
  BY <1>7, InitProtectionStruct DEF Listed
<1>8. CASE op = "provideProtection"
  BY <1>8, ProvideProtectionStruct DEF Listed
<1>9. CASE op = "withdrawProtection"
  BY <1>9, WithdrawProtectionStruct DEF Listed
<1>10. CASE op = "buyProtection"
  BY <1>10, BuyProtectionStruct DEF Listed
<1>11. CASE op = "settleProtection"
  BY <1>11, SettleProtectionStruct DEF Listed
<1>12. CASE op = "expireProtection"
  BY <1>12, ExpireProtectionStruct DEF Listed
<1>13. CASE op = "createPool"
  BY <1>13, CreatePoolStruct DEF Listed
<1> QED
  BY <1>1, <1>2, <1>3, <1>4, <1>5, <1>6, <1>7, <1>8, <1>9, <1>10, <1>11, <1>12, <1>13
     DEF Ops, Once

(* What the parser reads from an instruction is what the handler reads.    *)
LEMMA ReadBack ==
  ASSUME NEW ask, ask.op \in Ops, Signed(ask)
  PROVE  LET parsed == ParseWashappInstruction(Main(ask))
         IN  Filled(parsed.accounts, parsed.data) = Meaning(ask)
<1> DEFINE ix == Main(ask)
           metas == Accounts[ask.op]
           args == Parameters[ask.op]
           named == Named(metas, [i \in DOMAIN metas |-> ix.accounts[i].address])
           given == Named(args, [i \in DOMAIN args |-> ix.data.args[i].value])
           parsed == ParseWashappInstruction(ix)
<1>1. Len(ix.accounts) >= Len(metas) /\ ix.data.discriminator = ask.op
  BY DiscriminatorIs DEF Signed, WellFormed
<1>2. PICK m \in Nat : Len(metas) = m
  BY ListedAre DEF Listed
<1>3. PICK k \in Nat : Len(ix.accounts) = k
  <2>1. PICK input : SentAs(ask, input)
    BY DEF Signed
  <2>2. DOMAIN ix.accounts = DOMAIN metas
    BY <2>1 DEF SentAs, Assembled
  <2> QED
    BY <2>2, ListedAre DEF Listed
<1>4. parsed = [accounts |-> named, data |-> given]
  <2>1. parsed = Parsed(metas, args, ix)
    BY ParsedAsStruct
  <2> HIDE DEF ix, metas, args, parsed
  <2>2. ~(Len(ix.accounts) < Len(metas))
    BY <1>1, <1>2, <1>3
  <2> QED
    BY <2>1, <2>2 DEF Parsed
<1>5. Meaning(ask) = Filled(named, given)
  BY <1>1 DEF Meaning, Context
<1> HIDE DEF named, given, parsed
<1> QED
  BY <1>4, <1>5 DEF parsed

(* ... and fills in, where an address is left open, the one the builders   *)
(* derive by hand.                                                         *)
LEMMA SameInputSameInstruction ==
  ASSUME NEW ask, Signed(ask), NEW full,
         \A n \in DOMAIN Meaning(ask) : full[n] = Meaning(ask)[n]
  PROVE  Assembled(ask.op, Accounts[ask.op], Parameters[ask.op], full) = Main(ask)
<1> DEFINE metas == Accounts[ask.op]
           args == Parameters[ask.op]
<1>1. PICK input : SentAs(ask, input)
  BY DEF Signed
<1>2. \A n \in Names(metas) \cup Names(args) : full[n] = input[n]
  BY <1>1, MeaningOf
<1>3. /\ \A i \in DOMAIN metas : full[metas[i].name] = input[metas[i].name]
      /\ \A i \in DOMAIN args : full[args[i].name] = input[args[i].name]
  BY <1>2 DEF Names, NameOf
<1> HIDE DEF metas, args
<1>4. Assembled(ask.op, metas, args, full) = Assembled(ask.op, metas, args, input)
  BY <1>3 DEF Assembled
<1> QED
  BY <1>1, <1>4 DEF SentAs, metas, args

(* What is given when the rest is left open, and what it is filled up to.  *)
Rest(c, open) == [n \in DOMAIN c \ open |-> c[n]]

LEMMA FilledBack ==
  ASSUME NEW c, NEW derived, NEW programs, DOMAIN derived \subseteq DOMAIN c,
         \A n \in DOMAIN derived : derived[n] = c[n]
  PROVE  \A n \in DOMAIN c :
           Filled(Filled(Rest(c, DOMAIN derived), derived), programs)[n] = c[n]
BY DEF Filled, Rest

(* The generated client makes the same instruction from an input that      *)
(* leaves its addresses open ...                                           *)
Refilled(ask) == WashappPlugin(ask.op, Rest(Meaning(ask), LeftOpen(ask.op))) = Main(ask)

(* ... instruction by instruction.                                         *)
LEMMA InitConfigRefilled ==
  ASSUME NEW ask, ask.op = "initConfig", Signed(ask)
  PROVE  Refilled(ask)
<1> DEFINE c == Meaning(ask)
           open == {"config", "mint", "treasury"}
           rest == Rest(c, open)
           derived == [config |-> FindConfigPda,
                      mint |-> FindMintPda,
                      treasury |-> FindTreasuryPda]
           programs == [tokenProgram |-> TokenProgram,
                       systemProgram |-> SystemProgram]
           full == Filled(Filled(rest, derived), programs)
<1>1. LeftOpen(ask.op) = open
  BY DEF LeftOpen
<1>2. DOMAIN c = Names(InitConfigInstruction) \cup Names(InitConfigInstructionData)
  BY MeaningOf, InitConfigStruct DEF Signed
<1>3. WashappPlugin(ask.op, rest)
        = Assembled(ask.op, Accounts[ask.op], Parameters[ask.op], full)
  BY InitConfigStruct DEF WashappPlugin, GetInitConfigInstructionAsync,
     GetInitConfigInstruction
<1>4. open \subseteq DOMAIN c
  BY <1>2, InitConfigStruct
<1> HIDE DEF c, rest
<1>6. DOMAIN derived = open
  OBVIOUS
<1>7. /\ derived.config = c.config
      /\ derived.mint = c.mint
      /\ derived.treasury = c.treasury
  BY InitConfigMeans DEF c, FindConfigPda, FindMintPda, FindTreasuryPda, ConfigAddress,
     MintAddress, TreasuryAddress, PinnedTo, MarketOf
<1> HIDE DEF derived
<1>8. \A n \in DOMAIN derived : derived[n] = c[n]
  BY <1>6, <1>7
<1>9. \A n \in DOMAIN c : full[n] = c[n]
  BY <1>4, <1>6, <1>8, FilledBack DEF rest
<1> HIDE DEF full
<1>10. Assembled(ask.op, Accounts[ask.op], Parameters[ask.op], full) = Main(ask)
  BY <1>9, SameInputSameInstruction DEF c
<1> QED
  BY <1>1, <1>3, <1>10 DEF Refilled, rest, c

LEMMA FaucetRefilled ==
  ASSUME NEW ask, ask.op = "faucet", Signed(ask)
  PROVE  Refilled(ask)
<1> DEFINE c == Meaning(ask)
           open == {"config", "ownerAta"}
           rest == Rest(c, open)
           derived == [config |-> FindConfigPda,
                      ownerAta |-> AtaAddress(rest.owner, rest.mint)]
           programs == [tokenProgram |-> TokenProgram,
                       associatedTokenProgram |-> AssociatedTokenProgram,
                       systemProgram |-> SystemProgram]
           full == Filled(Filled(rest, derived), programs)
<1>1. LeftOpen(ask.op) = open
  BY DEF LeftOpen
<1>2. DOMAIN c = Names(FaucetInstruction) \cup Names(FaucetInstructionData)
  BY MeaningOf, FaucetStruct DEF Signed
<1>3. WashappPlugin(ask.op, rest)
        = Assembled(ask.op, Accounts[ask.op], Parameters[ask.op], full)
  BY FaucetStruct DEF WashappPlugin, GetFaucetInstructionAsync,
     GetFaucetInstruction
<1>4. open \subseteq DOMAIN c
  BY <1>2, FaucetStruct
<1>5. rest.mint = c.mint /\ rest.owner = c.owner
  BY <1>2, FaucetStruct DEF Rest
<1> HIDE DEF c, rest
<1>6. DOMAIN derived = open
  OBVIOUS
<1>7. /\ derived.config = c.config
      /\ derived.ownerAta = c.ownerAta
  BY <1>5, FaucetMeans DEF c, FindConfigPda, ConfigAddress, PinnedTo, MarketOf
<1> HIDE DEF derived
<1>8. \A n \in DOMAIN derived : derived[n] = c[n]
  BY <1>6, <1>7
<1>9. \A n \in DOMAIN c : full[n] = c[n]
  BY <1>4, <1>6, <1>8, FilledBack DEF rest
<1> HIDE DEF full
<1>10. Assembled(ask.op, Accounts[ask.op], Parameters[ask.op], full) = Main(ask)
  BY <1>9, SameInputSameInstruction DEF c
<1> QED
  BY <1>1, <1>3, <1>10 DEF Refilled, rest, c

LEMMA AccrueRefilled ==
  ASSUME NEW ask, ask.op = "accrue", Signed(ask)
  PROVE  Refilled(ask)
<1> DEFINE c == Meaning(ask)
           open == {"config"}
           rest == Rest(c, open)
           derived == [config |-> FindConfigPda]
           programs == [tokenProgram |-> TokenProgram]
           full == Filled(Filled(rest, derived), programs)
<1>1. LeftOpen(ask.op) = open
  BY DEF LeftOpen
<1>2. DOMAIN c = Names(AccrueInstruction) \cup Names(AccrueInstructionData)
  BY MeaningOf, AccrueStruct DEF Signed
<1>3. WashappPlugin(ask.op, rest)
        = Assembled(ask.op, Accounts[ask.op], Parameters[ask.op], full)
  BY AccrueStruct DEF WashappPlugin, GetAccrueInstructionAsync,
     GetAccrueInstruction
<1>4. open \subseteq DOMAIN c
  BY <1>2, AccrueStruct
<1> HIDE DEF c, rest
<1>6. DOMAIN derived = open
  OBVIOUS
<1>7. /\ derived.config = c.config
  BY AccrueMeans DEF c, FindConfigPda, ConfigAddress, PinnedTo, MarketOf
<1> HIDE DEF derived
<1>8. \A n \in DOMAIN derived : derived[n] = c[n]
  BY <1>6, <1>7
<1>9. \A n \in DOMAIN c : full[n] = c[n]
  BY <1>4, <1>6, <1>8, FilledBack DEF rest
<1> HIDE DEF full
<1>10. Assembled(ask.op, Accounts[ask.op], Parameters[ask.op], full) = Main(ask)
  BY <1>9, SameInputSameInstruction DEF c
<1> QED
  BY <1>1, <1>3, <1>10 DEF Refilled, rest, c

LEMMA DepositRefilled ==
  ASSUME NEW ask, ask.op = "deposit", Signed(ask)
  PROVE  Refilled(ask)
<1> DEFINE c == Meaning(ask)
           open == {"config"}
           rest == Rest(c, open)
           derived == [config |-> FindConfigPda]
           programs == [tokenProgram |-> TokenProgram]
           full == Filled(Filled(rest, derived), programs)
<1>1. LeftOpen(ask.op) = open
  BY DEF LeftOpen
<1>2. DOMAIN c = Names(DepositInstruction) \cup Names(DepositInstructionData)
  BY MeaningOf, DepositStruct DEF Signed
<1>3. WashappPlugin(ask.op, rest)
        = Assembled(ask.op, Accounts[ask.op], Parameters[ask.op], full)
  BY DepositStruct DEF WashappPlugin, GetDepositInstructionAsync,
     GetDepositInstruction
<1>4. open \subseteq DOMAIN c
  BY <1>2, DepositStruct
<1> HIDE DEF c, rest
<1>6. DOMAIN derived = open
  OBVIOUS
<1>7. /\ derived.config = c.config
  BY DepositMeans DEF c, FindConfigPda, ConfigAddress, PinnedTo, MarketOf
<1> HIDE DEF derived
<1>8. \A n \in DOMAIN derived : derived[n] = c[n]
  BY <1>6, <1>7
<1>9. \A n \in DOMAIN c : full[n] = c[n]
  BY <1>4, <1>6, <1>8, FilledBack DEF rest
<1> HIDE DEF full
<1>10. Assembled(ask.op, Accounts[ask.op], Parameters[ask.op], full) = Main(ask)
  BY <1>9, SameInputSameInstruction DEF c
<1> QED
  BY <1>1, <1>3, <1>10 DEF Refilled, rest, c

LEMMA RedeemRefilled ==
  ASSUME NEW ask, ask.op = "redeem", Signed(ask)
  PROVE  Refilled(ask)
<1> DEFINE c == Meaning(ask)
           open == {"config"}
           rest == Rest(c, open)
           derived == [config |-> FindConfigPda]
           programs == [tokenProgram |-> TokenProgram]
           full == Filled(Filled(rest, derived), programs)
<1>1. LeftOpen(ask.op) = open
  BY DEF LeftOpen
<1>2. DOMAIN c = Names(RedeemInstruction) \cup Names(RedeemInstructionData)
  BY MeaningOf, RedeemStruct DEF Signed
<1>3. WashappPlugin(ask.op, rest)
        = Assembled(ask.op, Accounts[ask.op], Parameters[ask.op], full)
  BY RedeemStruct DEF WashappPlugin, GetRedeemInstructionAsync,
     GetRedeemInstruction
<1>4. open \subseteq DOMAIN c
  BY <1>2, RedeemStruct
<1> HIDE DEF c, rest
<1>6. DOMAIN derived = open
  OBVIOUS
<1>7. /\ derived.config = c.config
  BY RedeemMeans DEF c, FindConfigPda, ConfigAddress, PinnedTo, MarketOf
<1> HIDE DEF derived
<1>8. \A n \in DOMAIN derived : derived[n] = c[n]
  BY <1>6, <1>7
<1>9. \A n \in DOMAIN c : full[n] = c[n]
  BY <1>4, <1>6, <1>8, FilledBack DEF rest
<1> HIDE DEF full
<1>10. Assembled(ask.op, Accounts[ask.op], Parameters[ask.op], full) = Main(ask)
  BY <1>9, SameInputSameInstruction DEF c
<1> QED
  BY <1>1, <1>3, <1>10 DEF Refilled, rest, c

LEMMA RecordLossRefilled ==
  ASSUME NEW ask, ask.op = "recordLoss", Signed(ask)
  PROVE  Refilled(ask)
<1> DEFINE c == Meaning(ask)
           open == {"config"}
           rest == Rest(c, open)
           derived == [config |-> FindConfigPda]
           programs == [tokenProgram |-> TokenProgram,
                       systemProgram |-> SystemProgram]
           full == Filled(Filled(rest, derived), programs)
<1>1. LeftOpen(ask.op) = open
  BY DEF LeftOpen
<1>2. DOMAIN c = Names(RecordLossInstruction) \cup Names(RecordLossInstructionData)
  BY MeaningOf, RecordLossStruct DEF Signed
<1>3. WashappPlugin(ask.op, rest)
        = Assembled(ask.op, Accounts[ask.op], Parameters[ask.op], full)
  BY RecordLossStruct DEF WashappPlugin, GetRecordLossInstructionAsync,
     GetRecordLossInstruction
<1>4. open \subseteq DOMAIN c
  BY <1>2, RecordLossStruct
<1> HIDE DEF c, rest
<1>6. DOMAIN derived = open
  OBVIOUS
<1>7. /\ derived.config = c.config
  BY RecordLossMeans DEF c, FindConfigPda, ConfigAddress, PinnedTo, MarketOf
<1> HIDE DEF derived
<1>8. \A n \in DOMAIN derived : derived[n] = c[n]
  BY <1>6, <1>7
<1>9. \A n \in DOMAIN c : full[n] = c[n]
  BY <1>4, <1>6, <1>8, FilledBack DEF rest
<1> HIDE DEF full
<1>10. Assembled(ask.op, Accounts[ask.op], Parameters[ask.op], full) = Main(ask)
  BY <1>9, SameInputSameInstruction DEF c
<1> QED
  BY <1>1, <1>3, <1>10 DEF Refilled, rest, c

LEMMA InitProtectionRefilled ==
  ASSUME NEW ask, ask.op = "initProtection", Signed(ask)
  PROVE  Refilled(ask)
<1> DEFINE c == Meaning(ask)
           open == {"protection", "pvault"}
           rest == Rest(c, open)
           derived == [protection |-> FindProtectionPda(rest.pool),
                      pvault |-> FindPvaultPda(rest.pool)]
           programs == [tokenProgram |-> TokenProgram,
                       systemProgram |-> SystemProgram]
           full == Filled(Filled(rest, derived), programs)
<1>1. LeftOpen(ask.op) = open
  BY DEF LeftOpen
<1>2. DOMAIN c = Names(InitProtectionInstruction) \cup Names(InitProtectionInstructionData)
  BY MeaningOf, InitProtectionStruct DEF Signed
<1>3. WashappPlugin(ask.op, rest)
        = Assembled(ask.op, Accounts[ask.op], Parameters[ask.op], full)
  BY InitProtectionStruct DEF WashappPlugin, GetInitProtectionInstructionAsync,
     GetInitProtectionInstruction
<1>4. open \subseteq DOMAIN c
  BY <1>2, InitProtectionStruct
<1>5. rest.pool = c.pool
  BY <1>2, InitProtectionStruct DEF Rest
<1> HIDE DEF c, rest
<1>6. DOMAIN derived = open
  OBVIOUS
<1>7. /\ derived.protection = c.protection
      /\ derived.pvault = c.pvault
  BY <1>5, InitProtectionMeans DEF c, FindProtectionPda, FindPvaultPda, ProtectionAddress,
     PvaultAddress, PinnedTo, MarketOf
<1> HIDE DEF derived
<1>8. \A n \in DOMAIN derived : derived[n] = c[n]
  BY <1>6, <1>7
<1>9. \A n \in DOMAIN c : full[n] = c[n]
  BY <1>4, <1>6, <1>8, FilledBack DEF rest
<1> HIDE DEF full
<1>10. Assembled(ask.op, Accounts[ask.op], Parameters[ask.op], full) = Main(ask)
  BY <1>9, SameInputSameInstruction DEF c
<1> QED
  BY <1>1, <1>3, <1>10 DEF Refilled, rest, c

LEMMA ProvideProtectionRefilled ==
  ASSUME NEW ask, ask.op = "provideProtection", Signed(ask)
  PROVE  Refilled(ask)
<1> DEFINE c == Meaning(ask)
           open == {"protection", "position"}
           rest == Rest(c, open)
           derived == [protection |-> FindProtectionPda(rest.pool),
                      position |-> FindPositionPda(rest.pool, rest.owner)]
           programs == [tokenProgram |-> TokenProgram,
                       systemProgram |-> SystemProgram]
           full == Filled(Filled(rest, derived), programs)
<1>1. LeftOpen(ask.op) = open
  BY DEF LeftOpen
<1>2. DOMAIN c = Names(ProvideProtectionInstruction) \cup Names(ProvideProtectionInstructionData)
  BY MeaningOf, ProvideProtectionStruct DEF Signed
<1>3. WashappPlugin(ask.op, rest)
        = Assembled(ask.op, Accounts[ask.op], Parameters[ask.op], full)
  BY ProvideProtectionStruct DEF WashappPlugin, GetProvideProtectionInstructionAsync,
     GetProvideProtectionInstruction
<1>4. open \subseteq DOMAIN c
  BY <1>2, ProvideProtectionStruct
<1>5. rest.owner = c.owner /\ rest.pool = c.pool
  BY <1>2, ProvideProtectionStruct DEF Rest
<1> HIDE DEF c, rest
<1>6. DOMAIN derived = open
  OBVIOUS
<1>7. /\ derived.protection = c.protection
      /\ derived.position = c.position
  BY <1>5, ProvideProtectionMeans DEF c, FindPositionPda, FindProtectionPda, SellerAddress,
     ProtectionAddress, PinnedTo, MarketOf
<1> HIDE DEF derived
<1>8. \A n \in DOMAIN derived : derived[n] = c[n]
  BY <1>6, <1>7
<1>9. \A n \in DOMAIN c : full[n] = c[n]
  BY <1>4, <1>6, <1>8, FilledBack DEF rest
<1> HIDE DEF full
<1>10. Assembled(ask.op, Accounts[ask.op], Parameters[ask.op], full) = Main(ask)
  BY <1>9, SameInputSameInstruction DEF c
<1> QED
  BY <1>1, <1>3, <1>10 DEF Refilled, rest, c

LEMMA WithdrawProtectionRefilled ==
  ASSUME NEW ask, ask.op = "withdrawProtection", Signed(ask)
  PROVE  Refilled(ask)
<1> DEFINE c == Meaning(ask)
           open == {"protection", "position"}
           rest == Rest(c, open)
           derived == [protection |-> FindProtectionPda(rest.pool),
                      position |-> FindPositionPda(rest.pool, rest.owner)]
           programs == [tokenProgram |-> TokenProgram]
           full == Filled(Filled(rest, derived), programs)
<1>1. LeftOpen(ask.op) = open
  BY DEF LeftOpen
<1>2. DOMAIN c = Names(WithdrawProtectionInstruction)
        \cup Names(WithdrawProtectionInstructionData)
  BY MeaningOf, WithdrawProtectionStruct DEF Signed
<1>3. WashappPlugin(ask.op, rest)
        = Assembled(ask.op, Accounts[ask.op], Parameters[ask.op], full)
  BY WithdrawProtectionStruct DEF WashappPlugin, GetWithdrawProtectionInstructionAsync,
     GetWithdrawProtectionInstruction
<1>4. open \subseteq DOMAIN c
  BY <1>2, WithdrawProtectionStruct
<1>5. rest.owner = c.owner /\ rest.pool = c.pool
  BY <1>2, WithdrawProtectionStruct DEF Rest
<1> HIDE DEF c, rest
<1>6. DOMAIN derived = open
  OBVIOUS
<1>7. /\ derived.protection = c.protection
      /\ derived.position = c.position
  BY <1>5, WithdrawProtectionMeans DEF c, FindPositionPda, FindProtectionPda, SellerAddress,
     ProtectionAddress, PinnedTo, MarketOf
<1> HIDE DEF derived
<1>8. \A n \in DOMAIN derived : derived[n] = c[n]
  BY <1>6, <1>7
<1>9. \A n \in DOMAIN c : full[n] = c[n]
  BY <1>4, <1>6, <1>8, FilledBack DEF rest
<1> HIDE DEF full
<1>10. Assembled(ask.op, Accounts[ask.op], Parameters[ask.op], full) = Main(ask)
  BY <1>9, SameInputSameInstruction DEF c
<1> QED
  BY <1>1, <1>3, <1>10 DEF Refilled, rest, c

LEMMA BuyProtectionRefilled ==
  ASSUME NEW ask, ask.op = "buyProtection", Signed(ask)
  PROVE  Refilled(ask)
<1> DEFINE c == Meaning(ask)
           open == {"config", "protection", "contract"}
           rest == Rest(c, open)
           derived == [config |-> FindConfigPda,
                      protection |-> FindProtectionPda(rest.pool),
                      contract |-> FindContractPda(rest.pool, rest.buyer, rest.nonce)]
           programs == [tokenProgram |-> TokenProgram,
                       systemProgram |-> SystemProgram]
           full == Filled(Filled(rest, derived), programs)
<1>1. LeftOpen(ask.op) = open
  BY DEF LeftOpen
<1>2. DOMAIN c = Names(BuyProtectionInstruction) \cup Names(BuyProtectionInstructionData)
  BY MeaningOf, BuyProtectionStruct DEF Signed
<1>3. WashappPlugin(ask.op, rest)
        = Assembled(ask.op, Accounts[ask.op], Parameters[ask.op], full)
  BY BuyProtectionStruct DEF WashappPlugin, GetBuyProtectionInstructionAsync,
     GetBuyProtectionInstruction
<1>4. open \subseteq DOMAIN c
  BY <1>2, BuyProtectionStruct
<1>5. rest.buyer = c.buyer /\ rest.nonce = c.nonce /\ rest.pool = c.pool
  BY <1>2, BuyProtectionStruct DEF Rest
<1> HIDE DEF c, rest
<1>6. DOMAIN derived = open
  OBVIOUS
<1>d. /\ derived.config = FindConfigPda
      /\ derived.protection = FindProtectionPda(c.pool)
      /\ derived.contract = FindContractPda(c.pool, c.buyer, c.nonce)
  BY <1>5
<1>c. /\ c.config = ConfigAddress /\ c.protection = ProtectionAddress(c.pool)
      /\ c.contract = ContractAddress(c.pool, c.buyer, c.nonce)
  BY BuyProtectionMeans DEF c, PinnedTo, MarketOf
<1> HIDE DEF derived
<1>7. derived.config = c.config /\ derived.protection = c.protection
      /\ derived.contract = c.contract
  BY <1>c, <1>d DEF FindConfigPda, FindContractPda, FindProtectionPda, ConfigAddress,
     ContractAddress, ProtectionAddress
<1> HIDE DEF derived
<1>8. \A n \in DOMAIN derived : derived[n] = c[n]
  BY <1>6, <1>7
<1>9. \A n \in DOMAIN c : full[n] = c[n]
  BY <1>4, <1>6, <1>8, FilledBack DEF rest
<1> HIDE DEF full
<1>10. Assembled(ask.op, Accounts[ask.op], Parameters[ask.op], full) = Main(ask)
  BY <1>9, SameInputSameInstruction DEF c
<1> QED
  BY <1>1, <1>3, <1>10 DEF Refilled, rest, c

LEMMA SettleProtectionRefilled ==
  ASSUME NEW ask, ask.op = "settleProtection", Signed(ask)
  PROVE  Refilled(ask)
<1> DEFINE c == Meaning(ask)
           open == {"protection"}
           rest == Rest(c, open)
           derived == [protection |-> FindProtectionPda(rest.pool)]
           programs == [tokenProgram |-> TokenProgram]
           full == Filled(Filled(rest, derived), programs)
<1>1. LeftOpen(ask.op) = open
  BY DEF LeftOpen
<1>2. DOMAIN c = Names(SettleProtectionInstruction) \cup Names(SettleProtectionInstructionData)
  BY MeaningOf, SettleProtectionStruct DEF Signed
<1>3. WashappPlugin(ask.op, rest)
        = Assembled(ask.op, Accounts[ask.op], Parameters[ask.op], full)
  BY SettleProtectionStruct DEF WashappPlugin, GetSettleProtectionInstructionAsync,
     GetSettleProtectionInstruction
<1>4. open \subseteq DOMAIN c
  BY <1>2, SettleProtectionStruct
<1>5. rest.pool = c.pool
  BY <1>2, SettleProtectionStruct DEF Rest
<1> HIDE DEF c, rest
<1>6. DOMAIN derived = open
  OBVIOUS
<1>7. /\ derived.protection = c.protection
  BY <1>5, SettleProtectionMeans DEF c, FindProtectionPda, ProtectionAddress, PinnedTo, MarketOf
<1> HIDE DEF derived
<1>8. \A n \in DOMAIN derived : derived[n] = c[n]
  BY <1>6, <1>7
<1>9. \A n \in DOMAIN c : full[n] = c[n]
  BY <1>4, <1>6, <1>8, FilledBack DEF rest
<1> HIDE DEF full
<1>10. Assembled(ask.op, Accounts[ask.op], Parameters[ask.op], full) = Main(ask)
  BY <1>9, SameInputSameInstruction DEF c
<1> QED
  BY <1>1, <1>3, <1>10 DEF Refilled, rest, c

LEMMA ExpireProtectionRefilled ==
  ASSUME NEW ask, ask.op = "expireProtection", Signed(ask)
  PROVE  Refilled(ask)
<1> DEFINE c == Meaning(ask)
           open == {"config", "protection"}
           rest == Rest(c, open)
           derived == [config |-> FindConfigPda,
                      protection |-> FindProtectionPda(rest.pool)]
           programs == [tokenProgram |-> TokenProgram]
           full == Filled(Filled(rest, derived), programs)
<1>1. LeftOpen(ask.op) = open
  BY DEF LeftOpen
<1>2. DOMAIN c = Names(ExpireProtectionInstruction) \cup Names(ExpireProtectionInstructionData)
  BY MeaningOf, ExpireProtectionStruct DEF Signed
<1>3. WashappPlugin(ask.op, rest)
        = Assembled(ask.op, Accounts[ask.op], Parameters[ask.op], full)
  BY ExpireProtectionStruct DEF WashappPlugin, GetExpireProtectionInstructionAsync,
     GetExpireProtectionInstruction
<1>4. open \subseteq DOMAIN c
  BY <1>2, ExpireProtectionStruct
<1>5. rest.pool = c.pool
  BY <1>2, ExpireProtectionStruct DEF Rest
<1> HIDE DEF c, rest
<1>6. DOMAIN derived = open
  OBVIOUS
<1>7. /\ derived.config = c.config
      /\ derived.protection = c.protection
  BY <1>5, ExpireProtectionMeans DEF c, FindConfigPda, FindProtectionPda, ConfigAddress,
     ProtectionAddress, PinnedTo, MarketOf
<1> HIDE DEF derived
<1>8. \A n \in DOMAIN derived : derived[n] = c[n]
  BY <1>6, <1>7
<1>9. \A n \in DOMAIN c : full[n] = c[n]
  BY <1>4, <1>6, <1>8, FilledBack DEF rest
<1> HIDE DEF full
<1>10. Assembled(ask.op, Accounts[ask.op], Parameters[ask.op], full) = Main(ask)
  BY <1>9, SameInputSameInstruction DEF c
<1> QED
  BY <1>1, <1>3, <1>10 DEF Refilled, rest, c

(* A pool is opened with two layers of addresses: its own, and those that  *)
(* follow from it.                                                         *)
LEMMA CreatePoolRefilled ==
  ASSUME NEW ask, ask.op = "createPool", Signed(ask)
  PROVE  Refilled(ask)
<1> DEFINE c == Meaning(ask)
           open == {"config", "pool", "vault", "seniorMint", "juniorMint"}
           rest == Rest(c, open)
           first == [config |-> FindConfigPda, pool |-> FindPoolPda(rest.id)]
           given == Filled(rest, first)
           second == [vault |-> FindVaultPda(given.pool),
                      seniorMint |-> FindSeniorMintPda(given.pool),
                      juniorMint |-> FindJuniorMintPda(given.pool)]
           programs == [tokenProgram |-> TokenProgram, systemProgram |-> SystemProgram]
           full == Filled(Filled(given, second), programs)
<1>1. LeftOpen(ask.op) = open
  BY DEF LeftOpen
<1>2. DOMAIN c = Names(CreatePoolInstruction) \cup Names(CreatePoolInstructionData)
  BY MeaningOf, CreatePoolStruct DEF Signed
<1>3. WashappPlugin(ask.op, rest)
        = Assembled(ask.op, Accounts[ask.op], Parameters[ask.op], full)
  BY CreatePoolStruct DEF WashappPlugin, GetCreatePoolInstructionAsync, GetCreatePoolInstruction
<1>4. open \subseteq DOMAIN c /\ "id" \in DOMAIN c \ open
  BY <1>2, CreatePoolStruct
<1>5. /\ DOMAIN rest = DOMAIN c \ open /\ rest.id = c.id
      /\ \A n \in DOMAIN rest : rest[n] = c[n]
  BY <1>4 DEF Rest
<1> HIDE DEF c, rest
<1>6. DOMAIN first = {"config", "pool"} /\ first.config = FindConfigPda
      /\ first.pool = FindPoolPda(c.id)
  BY <1>5
<1> HIDE DEF first
<1>7. /\ DOMAIN given = DOMAIN rest \cup {"config", "pool"}
      /\ given.config = FindConfigPda /\ given.pool = FindPoolPda(c.id)
      /\ \A n \in DOMAIN rest : given[n] = c[n]
  BY <1>5, <1>6 DEF Filled
<1> HIDE DEF given
<1>8. /\ DOMAIN second = {"vault", "seniorMint", "juniorMint"}
      /\ second.vault = FindVaultPda(given.pool)
      /\ second.seniorMint = FindSeniorMintPda(given.pool)
      /\ second.juniorMint = FindJuniorMintPda(given.pool)
  OBVIOUS
<1> HIDE DEF second
<1>9. /\ c.config = FindConfigPda /\ c.pool = FindPoolPda(c.id)
      /\ c.vault = FindVaultPda(c.pool) /\ c.seniorMint = FindSeniorMintPda(c.pool)
      /\ c.juniorMint = FindJuniorMintPda(c.pool)
  BY CreatePoolMeans DEF c, FindConfigPda, ConfigAddress, FindPoolPda, PoolAddress, FindVaultPda,
     VaultAddress, FindSeniorMintPda, SeniorMintAddress, FindJuniorMintPda, JuniorMintAddress
<1>10. /\ \A n \in DOMAIN given : given[n] = c[n]
       /\ \A n \in DOMAIN second : second[n] = c[n]
  BY <1>7, <1>8, <1>9
<1>11. DOMAIN c = DOMAIN given \cup DOMAIN second
  BY <1>4, <1>5, <1>7, <1>8
<1>12. \A n \in DOMAIN c : full[n] = c[n]
  BY <1>10, <1>11 DEF Filled
<1> HIDE DEF full
<1>13. Assembled(ask.op, Accounts[ask.op], Parameters[ask.op], full) = Main(ask)
  BY <1>12, SameInputSameInstruction DEF c
<1> QED
  BY <1>1, <1>3, <1>13 DEF Refilled, rest, c

(* Every request.                                                          *)
LEMMA RequestHasOneMeaning ==
  ASSUME NEW ask, ask.op \in Ops
  PROVE  Signed(ask) /\ Refilled(ask)
<1>1. CASE ask.op = "initConfig"
  BY <1>1, InitConfigMeans, InitConfigRefilled
<1>2. CASE ask.op = "faucet"
  BY <1>2, FaucetMeans, FaucetRefilled
<1>3. CASE ask.op = "accrue"
  BY <1>3, AccrueMeans, AccrueRefilled
<1>4. CASE ask.op = "deposit"
  BY <1>4, DepositMeans, DepositRefilled
<1>5. CASE ask.op = "redeem"
  BY <1>5, RedeemMeans, RedeemRefilled
<1>6. CASE ask.op = "recordLoss"
  BY <1>6, RecordLossMeans, RecordLossRefilled
<1>7. CASE ask.op = "initProtection"
  BY <1>7, InitProtectionMeans, InitProtectionRefilled
<1>8. CASE ask.op = "provideProtection"
  BY <1>8, ProvideProtectionMeans, ProvideProtectionRefilled
<1>9. CASE ask.op = "withdrawProtection"
  BY <1>9, WithdrawProtectionMeans, WithdrawProtectionRefilled
<1>10. CASE ask.op = "buyProtection"
  BY <1>10, BuyProtectionMeans, BuyProtectionRefilled
<1>11. CASE ask.op = "settleProtection"
  BY <1>11, SettleProtectionMeans, SettleProtectionRefilled
<1>12. CASE ask.op = "expireProtection"
  BY <1>12, ExpireProtectionMeans, ExpireProtectionRefilled
<1>13. CASE ask.op = "createPool"
  BY <1>13, CreatePoolMeans, CreatePoolRefilled
<1> QED
  BY <1>1, <1>2, <1>3, <1>4, <1>5, <1>6, <1>7, <1>8, <1>9, <1>10, <1>11, <1>12, <1>13
     DEF Ops, Once

(* A transaction means the same to everyone: what the client's own parser  *)
(* reads from it is, role by role and argument by argument, what the       *)
(* program reads, and the addresses that the builders derive by hand are   *)
(* those that the generated client derives.  (builders,                    *)
(* generated/instructions, generated/pdas, the Accounts structs)           *)
THEOREM AlwaysOneMeaning == ClientSpec => []OneMeaning
<1>1. ASSUME ClientInv PROVE OneMeaning
  <2> SUFFICES ASSUME NEW ask \in tab \cup {a \in {ToolAsk} : tool.sends}
               PROVE  LET ix == Main(ask)
                          parsed == ParseWashappInstruction(ix)
                          read == Filled(parsed.accounts, parsed.data)
                      IN  /\ IdentifyWashappInstruction(ix) = ask.op
                          /\ read = Context(ix)
                          /\ WashappPlugin(ask.op, [n
                               \in DOMAIN read \ LeftOpen(ask.op) |-> read[n]])
                               = ix
    BY DEF OneMeaning, Main
  <2>1. ask.op \in Ops
    BY <1>1, ToolAskOK DEF ClientInv, ToolOK, AskOK
  <2>2. Signed(ask) /\ Refilled(ask)
    BY <2>1, RequestHasOneMeaning
  <2>3. IdentifyWashappInstruction(Main(ask)) = ask.op
    BY <2>1, <2>2, ParsedAsStruct
  <2> DEFINE parsed == ParseWashappInstruction(Main(ask))
             read == Filled(parsed.accounts, parsed.data)
  <2>4. read = Meaning(ask)
    BY <2>1, <2>2, ReadBack
  <2> HIDE DEF read
  <2>5. WashappPlugin(ask.op, [n \in DOMAIN read \ LeftOpen(ask.op) |-> read[n]]) = Main(ask)
    BY <2>2, <2>4 DEF Refilled, Rest
  <2>6. read = Context(Main(ask))
    BY <2>4 DEF Meaning
  <2> QED
    BY <2>3, <2>5, <2>6 DEF read
<1> QED
  BY <1>1, ClientIsInvariant, PTL

=============================================================================
