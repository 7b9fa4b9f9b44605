---------------------------- MODULE WashBuilders ----------------------------
(***************************************************************************)
(* packages/chain/src/builders: from what a person asks for (who, which    *)
(* pool, how much, which nonce or loss index) to the instructions of one   *)
(* transaction.  A builder gives every address itself, so the generated    *)
(* function it calls fills in nothing but the programs; the two it calls   *)
(* asynchronously (configuration and pool creation, faucet) leave their    *)
(* addresses to the generated one.                                         *)
(***************************************************************************)
EXTENDS WashWire

(* pool-accounts.ts and protection-accounts.ts: everything that follows    *)
(* from the number of the pool.                                            *)
PoolAccounts(id) ==
  LET pool == PoolAddress(id)
  IN  [config |-> ConfigAddress, mint |-> MintAddress, treasury |-> TreasuryAddress,
       pool |-> pool, vault |-> VaultAddress(pool),
       seniorMint |-> SeniorMintAddress(pool), juniorMint |-> JuniorMintAddress(pool)]

TrancheMint(accounts, tranche) ==
  IF tranche = "senior" THEN accounts.seniorMint ELSE accounts.juniorMint

ProtectionAccounts(id) ==
  LET accounts == PoolAccounts(id)
  IN  Filled(accounts, [protection |-> ProtectionAddress(accounts.pool),
                        pvault |-> PvaultAddress(accounts.pool)])

(* The parts of an input that several builders pass on.                    *)
Only(accounts, names) == [n \in names |-> accounts[n]]

MarketAccounts(id) == Only(ProtectionAccounts(id), {"pool", "protection", "pvault"})

(* getCreateAssociatedTokenIdempotentInstruction of the token library: it  *)
(* opens the account unless it is open.                                    *)
CreateAta(payer, owner, mint) ==
  Assembled("createAta",
            <<WS("payer"), W("ata"), R("owner"), R("mint"), R("systemProgram"), R("tokenProgram")>>,
            <<>>,
            [payer |-> payer, ata |-> AtaAddress(owner, mint), owner |-> owner, mint |-> mint,
             systemProgram |-> SystemProgram, tokenProgram |-> TokenProgram])

-----------------------------------------------------------------------------
BuildInitConfig(authority, faucetCap) ==
  <<GetInitConfigInstructionAsync([authority |-> authority, faucetCap |-> faucetCap])>>

BuildFaucet(owner, amount) ==
  <<GetFaucetInstructionAsync([mint |-> MintAddress, owner |-> owner, amount |-> amount])>>

BuildCreatePool(operator, id, params) ==
  <<GetCreatePoolInstructionAsync(
      [operator |-> operator, mint |-> MintAddress, id |-> id,
       yieldRateBps |-> params.yieldRateBps, seniorRateBps |-> params.seniorRateBps,
       minJuniorBps |-> params.minJuniorBps, perfFeeBps |-> params.perfFeeBps,
       timeScale |-> params.timeScale])>>

BuildAccrue(poolId) == <<GetAccrueInstruction(PoolAccounts(poolId))>>

(* The client opens the account of the tranche; the base account is there  *)
(* since the faucet.                                                       *)
BuildDeposit(owner, poolId, tranche, amount) ==
  LET accounts == PoolAccounts(poolId)
      mint == TrancheMint(accounts, tranche)
  IN  <<CreateAta(owner, owner, mint),
        GetDepositInstruction(
          Filled(accounts, [ownerAta |-> AtaAddress(owner, accounts.mint),
                            ownerTrancheAta |-> AtaAddress(owner, mint),
                            owner |-> owner, tranche |-> tranche, amount |-> amount]))>>

(* The other way round: the shares lie in the account of the tranche, the  *)
(* base account may be missing.                                            *)
BuildRedeemBare(owner, poolId, tranche, shares) ==     \* mutant: nothing is opened on the way
  LET accounts == PoolAccounts(poolId)
  IN  <<GetRedeemInstruction(
          Filled(accounts, [ownerAta |-> AtaAddress(owner, accounts.mint),
                            ownerTrancheAta |-> AtaAddress(owner, TrancheMint(accounts, tranche)),
                            owner |-> owner, tranche |-> tranche, shares |-> shares]))>>

BuildRedeem(owner, poolId, tranche, shares) ==
  LET accounts == PoolAccounts(poolId)
  IN  <<CreateAta(owner, owner, accounts.mint),
        GetRedeemInstruction(
          Filled(accounts, [ownerAta |-> AtaAddress(owner, accounts.mint),
                            ownerTrancheAta |-> AtaAddress(owner, TrancheMint(accounts, tranche)),
                            owner |-> owner, tranche |-> tranche, shares |-> shares]))>>

(* index is the loss count as last read.                                   *)
BuildRecordLoss(operator, poolId, lossBps, index) ==
  LET accounts == PoolAccounts(poolId)
  IN  <<GetRecordLossInstruction(
          Filled(accounts, [lossEvent |-> LossEventAddress(accounts.pool, index),
                            operator |-> operator, lossBps |-> lossBps]))>>

BuildInitProtection(operator, poolId, params) ==
  <<GetInitProtectionInstruction(
      Filled(Only(ProtectionAccounts(poolId), {"pool", "mint", "protection", "pvault"}),
             [operator |-> operator, premiumRateBps |-> params.premiumRateBps,
              triggerBps |-> params.triggerBps, premiumFeeBps |-> params.premiumFeeBps]))>>

BuildProvide(owner, poolId, amount) ==
  LET accounts == MarketAccounts(poolId)
  IN  <<GetProvideProtectionInstruction(
          Filled(accounts, [ownerAta |-> AtaAddress(owner, MintAddress),
                            position |-> SellerAddress(accounts.pool, owner),
                            owner |-> owner, amount |-> amount]))>>

BuildWithdraw(owner, poolId, shares) ==
  LET accounts == MarketAccounts(poolId)
  IN  <<CreateAta(owner, owner, MintAddress),
        GetWithdrawProtectionInstruction(
          Filled(accounts, [ownerAta |-> AtaAddress(owner, MintAddress),
                            position |-> SellerAddress(accounts.pool, owner),
                            owner |-> owner, shares |-> shares]))>>

(* nonce is the counter of contracts as last read.                         *)
BuildBuy(buyer, poolId, notional, term, nonce) ==
  LET accounts == ProtectionAccounts(poolId)
  IN  <<GetBuyProtectionInstruction(
          Filled(accounts, [buyerAta |-> AtaAddress(buyer, accounts.mint),
                            contract |-> ContractAddress(accounts.pool, buyer, nonce),
                            buyer |-> buyer, notional |-> notional, term |-> term,
                            nonce |-> nonce]))>>

(* Nobody signs a settlement; the money goes to the buyer's base account.  *)
BuildSettle(poolId, buyer, nonce, lossIndex) ==
  LET accounts == MarketAccounts(poolId)
  IN  <<GetSettleProtectionInstruction(
          Filled(accounts, [contract |-> ContractAddress(accounts.pool, buyer, nonce),
                            lossEvent |-> LossEventAddress(accounts.pool, lossIndex),
                            buyerAta |-> AtaAddress(buyer, MintAddress)]))>>

BuildExpire(signer, poolId, buyer, nonce) ==
  LET accounts == ProtectionAccounts(poolId)
  IN  <<GetExpireProtectionInstruction(
          Filled(accounts, [contract |-> ContractAddress(accounts.pool, buyer, nonce),
                            signer |-> signer]))>>

=============================================================================
