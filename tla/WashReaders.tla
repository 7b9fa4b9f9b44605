----------------------------- MODULE WashReaders -----------------------------
(***************************************************************************)
(* packages/chain/src/read.ts: how the pages and the tools read the chain. *)
(* A call to the RPC answers from one moment; a read that takes several    *)
(* calls sees several moments.  So a read is given call by call: what the  *)
(* first call brings home, and what each further one adds.                 *)
(*                                                                         *)
(* EagerLossEvents and Batch are the source's EAGER_LOSS_EVENTS (5) and    *)
(* BATCH (100).                                                            *)
(***************************************************************************)
EXTENDS WashAccounts, WashDecoders, WashViews, SequencesExt

CONSTANTS EagerLossEvents, Batch

ASSUME ReadersAssumption == EagerLossEvents \in Nat /\ Batch \in Nat \ {0}

(* getMultipleAccounts.                                                    *)
FetchEncodedAccounts(accts, addresses) ==
  [i \in DOMAIN addresses |->
     IF addresses[i] \in DOMAIN accts
     THEN [exists |-> TRUE, address |-> addresses[i], data |-> Data(accts[addresses[i]])]
     ELSE [exists |-> FALSE, address |-> addresses[i]]]

(* What a read that throws brings home.                                    *)
DoesNotExist == [thrown |-> "does not exist"]

mintSupply(account) == IF account.exists THEN account.data[1].value ELSE DoesNotExist

tokenAmount(account) == IF account.exists THEN account.data[1].value ELSE 0

lossEvent(account) ==
  IF account.exists THEN lossEventView(account.address, DecodeLossEvent(account).data)
  ELSE DoesNotExist

lossEventAddressesAgain(pool, from, to) ==             \* mutant: every batch starts over
  [i \in 1..(IF to > from THEN to - from ELSE 0) |-> LossEventAddress(pool, i - 1)]

lossEventAddresses(pool, from, to) ==
  [i \in 1..(IF to > from THEN to - from ELSE 0) |-> LossEventAddress(pool, from + i - 1)]

LossEvents(accts, addresses) ==
  LET answer == FetchEncodedAccounts(accts, addresses)
  IN  [i \in DOMAIN answer |-> lossEvent(answer[i])]

-----------------------------------------------------------------------------
(* readPool, first call: the pool, both mints, and some loss records, for  *)
(* the number of them is not known yet.  Nothing is home without a pool.   *)
readPool(accts, id) ==
  LET address == PoolAddress(id)
      answer == FetchEncodedAccounts(
                  accts, <<address, SeniorMintAddress(address), JuniorMintAddress(address)>>
                         \o lossEventAddresses(address, 0, EagerLossEvents))
      data == DecodePool(answer[1]).data
      known == SubSeq(answer, 4, 3 + min(EagerLossEvents, data.lossCount))
  IN  IF ~answer[1].exists THEN {}
      ELSE {[address |-> address, data |-> data,
             seniorSupply |-> mintSupply(answer[2]), juniorSupply |-> mintSupply(answer[3]),
             events |-> [i \in DOMAIN known |-> lossEvent(known[i])]]}

(* The end of the next batch.                                              *)
BatchEnd(home) == min(Len(home.events) + Batch, home.data.lossCount)

(* Further calls: the records that are missing, a batch a time.            *)
readLossEvents(accts, home) ==
  [home EXCEPT !.events =
     @ \o LossEvents(accts, lossEventAddresses(home.address, Len(@), BatchEnd(home)))]

ReadAll(home) == Len(home.events) >= home.data.lossCount

PoolViewOf(home) ==
  poolView(home.address, home.data, home.seniorSupply, home.juniorSupply, home.events)

-----------------------------------------------------------------------------
maybeProtection(account) ==
  IF account.exists
  THEN {protectionView(account.address, DecodeProtectionPool(account).data)}
  ELSE {}

readProtection(accts, pool) ==
  maybeProtection(FetchEncodedAccounts(accts, <<ProtectionAddress(pool)>>)[1])

(* getProgramAccounts: every account of the program whose bytes fit the    *)
(* filters.                                                                *)
ByteSize(cells, n) ==
  LET sum[i \in 0..Len(cells)] == IF i = 0 THEN 0 ELSE sum[i - 1] + cells[i].size
  IN  sum[n]

memcmp(cells, offset, value) ==
  \E i \in DOMAIN cells : ByteSize(cells, i - 1) = offset /\ cells[i].value = value

ContractPoolOffset == 8

ContractBuyerOffsetShort == 8                          \* mutant: the discriminator is forgotten

ContractBuyerOffset == 40

(* Without a buyer, every contract of the pool.                            *)
readContracts(accts, pool, buyers) ==
  LET fits(a) ==
        LET cells == Data(accts[a])
        IN  /\ accts[a].kind \in DOMAIN Fields
            /\ ByteSize(cells, Len(cells)) = ProtectionContractSize
            /\ memcmp(cells, 0, "ProtectionContract")
            /\ memcmp(cells, ContractPoolOffset, pool)
            /\ \A buyer \in buyers : memcmp(cells, ContractBuyerOffset, buyer)
      found == {a \in DOMAIN accts : fits(a)}
      answer == {contractView(a, DecodeProtectionContract(FetchEncodedAccounts(accts, <<a>>)[1]).data) :
                   a \in found}
  IN  InOrder(answer)

-----------------------------------------------------------------------------
(* readWallet, first call ...                                              *)
readWallet(accts, pool, owner) ==
  LET answer == FetchEncodedAccounts(
                  accts, <<AtaAddress(owner, pool.mint), AtaAddress(owner, pool.senior.mint),
                           AtaAddress(owner, pool.junior.mint), ProtectionAddress(pool.address),
                           SellerAddress(pool.address, owner)>>)
  IN  [amounts |-> [i \in 1..3 |-> tokenAmount(answer[i])],
       market |-> maybeProtection(answer[4]),
       shares |-> IF answer[5].exists THEN DecodeSellerPosition(answer[5]).data.shares ELSE 0]

(* ... and second, which is left out where there is no market.             *)
readWalletContracts(accts, pool, owner, home) ==
  LET contracts == IF home.market = {} THEN <<>> ELSE readContracts(accts, pool.address, {owner})
  IN  walletView(owner, pool, home.amounts[1], home.amounts[2], home.amounts[3], home.shares,
                 home.market, contracts)

=============================================================================
