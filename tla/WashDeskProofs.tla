--------------------------- MODULE WashDeskProofs ---------------------------
(***************************************************************************)
(* What the pages show, against what the program does, for any wallets,    *)
(* amounts, parameters and bounds.                                         *)
(*                                                                         *)
(* The desk begins in the middle, with a founded program, so the           *)
(* invariants of the program are proved of that beginning first (ChainInv);*)
(* its steps are steps of the program and keep them.  On a fresh read what *)
(* a page computes with the mirror is then what the program computes, case *)
(* by case (PreviewExact, DeskExact).                                      *)
(*                                                                         *)
(* A read grows old.  SeenInv says what remains true of an old one: rates, *)
(* terms and losses stay, clocks and counters only rise, and a contract    *)
(* seen is still there with its terms.  Of quotes and rows shown from      *)
(* reads of different moments, by whatever clock a browser has, this is    *)
(* all that is needed (QuoteHolds, ClaimShownIsPayable).                   *)
(***************************************************************************)
EXTENDS WashDesk, WashProtectionProofs, WashMirrorProofs

-----------------------------------------------------------------------------
(* The beginning: a program founded, saved in, covered, with one contract. *)

LEMMA TotalOfConstant ==
  ASSUME NEW S, IsFiniteSet(S), NEW f, NEW n \in Nat, \A x \in S : f[x] = n
  PROVE  Total(f, S) = n * Cardinality(S)
<1>1. Units(f, S) = S \X (1 .. n)
  BY DEF Units
<1>2. IsFiniteSet(1 .. n) /\ Cardinality(1 .. n) = n
  BY FS_Interval
<1>3. Cardinality(S \X (1 .. n)) = Cardinality(S) * n
  BY <1>2, FS_Product
<1>4. Cardinality(S) \in Nat
  BY FS_CardinalityType
<1> QED
  BY <1>1, <1>3, <1>4 DEF Total

(* The numbers the desk begins with.                                       *)
FirstTerm == FirstDays * DAY_SECONDS
FirstPremium == Premium(FirstCover, cover.premium_rate_bps, FirstTerm)
FirstFee == PremiumFee(FirstPremium, cover.premium_fee_bps)

LEMMA FirstNumbers ==
  ASSUME DeskInit
  PROVE  /\ Deposited["Senior"] \in Nat \ {0} /\ Deposited["Junior"] \in Nat \ {0}
         /\ Provided \in Nat \ {0} /\ Purse \in Nat /\ FirstCover \in 1 .. Provided
         /\ FirstTerm \in U64
         /\ FirstPremium \in 0 .. Purse /\ FirstFee \in 0 .. FirstPremium
         /\ Cardinality(Users) \in Nat \ {0} /\ Purse <= Purse * Cardinality(Users)
         /\ Deposited["Senior"] + Deposited["Junior"] + Provided + Purse * Cardinality(Users) \in U64
         /\ Founder \in Users /\ Saver \in Users
<1>1. /\ Deposited["Senior"] \in Nat \ {0} /\ Deposited["Junior"] \in Nat \ {0}
      /\ Provided \in Nat /\ Purse \in Nat /\ FirstCover \in 1 .. Provided
  BY DeskAssumption DEF Tranches, U64
<1>2. Provided # 0
  BY <1>1
<1>3. FirstTerm \in U64
  BY DeskAssumption DEF FirstTerm
<1>4. FirstPremium \in 0 .. Purse
  BY DEF DeskInit, FirstPremium, FirstTerm
<1>5. cover.premium_fee_bps \in 0 .. BPS
  BY ProtectionAssumption, ScaleAssumption DEF DeskInit, ValidCover
<1>6. FirstFee \in 0 .. FirstPremium
  BY <1>1, <1>4, <1>5, MulBpsIsPart DEF FirstFee, PremiumFee
<1>7. Founder \in Users /\ Saver \in Users
  BY DeskAssumption
<1>8. Cardinality(Users) \in Nat \ {0}
  BY <1>7, PoolAssumption, FS_CardinalityType, FS_EmptySet
<1>9. Purse <= Purse * Cardinality(Users)
  <2> DEFINE n == Cardinality(Users)
  <2>1. n \in Nat /\ 1 <= n
    BY <1>8
  <2> HIDE DEF n
  <2>2. Purse * 1 <= Purse * n
    BY <1>1, <2>1
  <2> QED
    BY <1>1, <2>2 DEF n
<1> QED
  BY <1>1, <1>2, <1>3, <1>4, <1>6, <1>7, <1>8, <1>9, DeskAssumption

(* Where the tokens are.                                                   *)
LEMMA FirstTokens ==
  ASSUME DeskInit
  PROVE  /\ DOMAIN base = Accounts
         /\ base["vault"] = Deposited["Senior"] + Deposited["Junior"]
         /\ base["pvault"] = Provided + FirstPremium - FirstFee
         /\ base["treasury"] = FirstFee
         /\ base[Saver] = Purse - FirstPremium
         /\ \A u \in Users \ {Saver} : base[u] = Purse
         /\ minted = Deposited["Senior"] + Deposited["Junior"] + Provided
                       + Purse * Cardinality(Users)
         /\ collateral = Provided + FirstPremium - FirstFee
<1>1. /\ base = [a \in Accounts |-> CASE a = "vault" -> Deposited["Senior"] + Deposited["Junior"]
                                    [] a = "pvault" -> collateral
                                    [] a = "treasury" -> FirstFee
                                    [] a = Saver -> Purse - FirstPremium
                                    [] OTHER -> Purse]
      /\ collateral = Provided + FirstPremium - FirstFee
      /\ minted = Deposited["Senior"] + Deposited["Junior"] + Provided
                       + Purse * Cardinality(Users)
  BY DEF DeskInit, FirstFee, FirstPremium, FirstTerm
<1>2. Saver \in Users
  BY DeskAssumption
<1>3. \A a \in Accounts :
        /\ a = "vault" => base[a] = Deposited["Senior"] + Deposited["Junior"]
        /\ a = "pvault" => base[a] = collateral
        /\ a = "treasury" => base[a] = FirstFee
        /\ a = Saver => base[a] = Purse - FirstPremium
        /\ a \in Users \ {Saver} => base[a] = Purse
  BY <1>1, <1>2, AccountsApart, Zenon
<1> QED
  BY <1>1, <1>2, <1>3, AccountsApart

LEMMA FirstBooks ==
  ASSUME DeskInit
  PROVE  PoolInv
<1>1. /\ pool \in Pool /\ pool # NoPool /\ ValidParams(pool.params) /\ pool.created_at = 0
      /\ config \in Config
  BY DeskAssumption, PoolAssumption, AbsentAssumption DEF DeskInit, Pool, Config
<1>2. /\ balances.nav["Senior"] = Deposited["Senior"] /\ balances.nav["Junior"] = Deposited["Junior"]
      /\ balances.supply["Senior"] = Deposited["Senior"]
      /\ balances.supply["Junior"] = Deposited["Junior"]
      /\ balances.assets = Deposited["Senior"] + Deposited["Junior"]
      /\ balances = [assets |-> balances.assets, nav |-> Deposited, supply |-> Deposited]
      /\ Deposited \in [Tranches -> U64]
  BY DeskAssumption DEF DeskInit
<1>3. \A n \in Nat : n <= Deposited["Senior"] + Deposited["Junior"] + Provided
                           + Purse * Cardinality(Users) => n \in U64
  BY FirstNumbers, ScaleAssumption DEF U64
<1>4. balances \in PoolBalances
  <2>1. balances.assets \in U64
    BY <1>2, <1>3, FirstNumbers
  <2> QED
    BY <1>2, <2>1 DEF PoolBalances
<1>5. base \in TokenAccounts
  <2>1. \A a \in Accounts : base[a] \in U64
    <3> TAKE a \in Accounts
    <3>1. CASE a = "vault"
      BY <1>3, <3>1, FirstNumbers, FirstTokens
    <3>2. CASE a = "pvault"
      BY <1>3, <3>2, FirstNumbers, FirstTokens
    <3>3. CASE a = "treasury"
      BY <1>3, <3>3, FirstNumbers, FirstTokens
    <3>4. CASE a = Saver
      BY <1>3, <3>4, FirstNumbers, FirstTokens
    <3>5. CASE a \in Users \ {Saver}
      BY <1>3, <3>5, FirstNumbers, FirstTokens
    <3> QED
      BY <3>1, <3>2, <3>3, <3>4, <3>5, AccountsApart
  <2>2. base = [a \in Accounts |-> base[a]]
    BY DEF DeskInit
  <2> QED
    BY <2>1, <2>2 DEF TokenAccounts
<1>6. minted \in U64
  BY FirstNumbers, FirstTokens
<1>7. held \in ShareAccounts
  <2>1. 0 \in U64
    BY ScaleAssumption DEF U64
  <2> QED
    BY <1>2, <2>1 DEF DeskInit, ShareAccounts
<1>8. events \in [0 .. lossCount - 1 -> LossEvent]
  BY DEF DeskInit
<1>9. PoolTypeOK
  BY <1>1, <1>4, <1>5, <1>6, <1>7, <1>8, PoolAssumption, ScaleAssumption
     DEF PoolTypeOK, DeskInit, U64
<1>10. Solvent /\ EmptyTrancheHasNothing
  BY <1>2, FirstNumbers, FirstTokens DEF Solvent, EmptyTrancheHasNothing, Tranches
<1>11. ModelClockExact
  <2>1. pool.params.time_scale \in Nat /\ modelTime = 0 /\ lastAccrued = 0
    BY <1>1, PoolAssumption DEF Pool, DeskInit
  <2> QED
    BY <1>1, <2>1 DEF ModelClockExact
<1>12. EventsInOrder /\ ParamsAccepted /\ NothingBeforePool
  BY <1>1, <1>8 DEF DeskInit, EventsInOrder, ParamsAccepted, NothingBeforePool
<1> QED
  BY <1>9, <1>10, <1>11, <1>12 DEF PoolInv

FirstContract ==
  [notional |-> FirstCover, premium |-> FirstPremium, start_model_time |-> 0,
   expiry_model_time |-> FirstTerm, trigger_bps |-> cover.trigger_bps,
   loss_index_from |-> 0, status |-> "Active", settled_loss_index |-> 0, payout |-> 0]

LEMMA FirstMarket ==
  ASSUME DeskInit
  PROVE  SumsInv
<1>1. /\ contracts = [key \in {<<Saver, 0>>} |-> FirstContract]
      /\ DOMAIN contracts = {<<Saver, 0>>} /\ contracts[<<Saver, 0>>] = FirstContract
  <2>1. contracts = [key \in {<<Saver, 0>>} |-> FirstContract]
    BY DEF DeskInit, FirstContract, FirstPremium, FirstTerm
  <2> QED
    BY <2>1
<1>2. /\ cover \in CoverParams /\ cover # NoCover /\ ValidCover(cover) /\ pool # NoPool
      /\ cover.trigger_bps \in 0 .. BPS
  <2>1. cover \in CoverParams /\ cover # NoCover /\ ValidCover(cover)
    BY ProtectionAssumption DEF DeskInit
  <2>2. cover.trigger_bps \in 0 .. BPS
    BY <2>1, ProtectionAssumption, ScaleAssumption DEF ValidCover
  <2>3. pool \in [operator : Users, created_at : 0 .. MaxClock, params : PoolParams]
    BY DeskAssumption, PoolAssumption DEF DeskInit
  <2> QED
    BY <2>1, <2>2, <2>3, AbsentAssumption
<1>3. \A n \in Nat : n <= Deposited["Senior"] + Deposited["Junior"] + Provided
                           + Purse * Cardinality(Users) => n \in U64
  BY FirstNumbers, ScaleAssumption DEF U64
<1>4. collateral \in U64 /\ FirstCover <= collateral /\ FirstCover \in U64
      /\ FirstPremium \in U64 /\ 0 \in U64
  BY <1>3, FirstNumbers, FirstTokens
<1>5. CoverTypeOK
  <2>1. FirstContract \in Contract
    BY <1>2, <1>4, FirstNumbers, PoolAssumption DEF FirstContract, Contract
  <2>2. <<Saver, 0>> \in Users \X Nonces
    BY DeskAssumption
  <2>3. bought \in U64
    BY ScaleAssumption DEF DeskInit, U64
  <2>4. positions \in SellerPositions
    BY <1>4, DeskAssumption DEF DeskInit, SellerPositions
  <2> QED
    BY <1>1, <1>2, <1>4, <2>1, <2>2, <2>3, <2>4, DeskAssumption DEF DeskInit, CoverTypeOK
<1>6. CoverSolvent
  BY <1>4, FirstTokens DEF CoverSolvent, DeskInit
<1>7. CoverAccepted /\ NothingBeforeCover /\ NoSharesNoCollateral
  BY <1>2, FirstNumbers DEF CoverAccepted, NothingBeforeCover, NoSharesNoCollateral, DeskInit
<1>8. ContractsOK
  BY <1>1 DEF ContractsOK, ContractOK, FirstContract, DeskInit
<1>9. PositionsAddUp
  <2> DEFINE nobody == [u \in Users |-> 0]
  <2>1. Total(nobody, Users) = 0
    BY TotalOfZeros
  <2>2. /\ positions[Founder] = Provided /\ \A u \in Users \ {Founder} : positions[u] = 0
        /\ shareSupply = Provided
    BY FirstNumbers DEF DeskInit
  <2>3. Total(positions, Users) = Total(nobody, Users) + (positions[Founder] - nobody[Founder])
    <3>1. \A u \in Users : positions[u] \in Nat /\ nobody[u] \in Nat
      BY <2>2, FirstNumbers
    <3> QED
      BY <2>2, <3>1, FirstNumbers, AccountsAreFinite, TotalUpdates
  <2> QED
    BY <2>1, <2>2, <2>3, FirstNumbers DEF PositionsAddUp
<1>10. ContractsAreFinite
  BY <1>1, FS_Singleton DEF ContractsAreFinite
<1>11. ReservedIsActive
  <2>1. ActiveContracts = {<<Saver, 0>>} /\ Notionals[<<Saver, 0>>] = FirstCover
    BY <1>1 DEF ActiveContracts, Notionals, FirstContract
  <2> DEFINE S == {<<Saver, 0>>}
  <2>2. IsFiniteSet(S) /\ Cardinality(S) = 1
    BY FS_Singleton
  <2>3. FirstCover \in Nat /\ \A key \in S : Notionals[key] = FirstCover
    BY <2>1, FirstNumbers
  <2>4. ActiveContracts = S
    BY <2>1
  <2> HIDE DEF S
  <2>5. Total(Notionals, S) = FirstCover * Cardinality(S)
    BY <2>2, <2>3, TotalOfConstant
  <2>6. reserved = FirstCover
    BY DEF DeskInit
  <2> QED
    BY <2>2, <2>3, <2>4, <2>5, <2>6 DEF ReservedIsActive
<1> QED
  BY <1>5, <1>6, <1>7, <1>8, <1>9, <1>10, <1>11, FirstBooks DEF SumsInv, CoverInv

LEMMA FirstAllOwned ==
  ASSUME DeskInit
  PROVE  AllOwned
<1>1. SumsInv
  BY FirstMarket
<1>2. HoldersOwnSupply
  <2> SUFFICES ASSUME NEW t \in Tranches PROVE balances.supply[t] = Total(held[t], Users)
    BY DEF HoldersOwnSupply
  <2> DEFINE nobody == [u \in Users |-> 0]
  <2>1. Total(nobody, Users) = 0
    BY TotalOfZeros
  <2>2. /\ \A u \in Users : held[t][u] = IF u = Saver THEN Deposited[t] ELSE 0
        /\ balances.supply[t] = Deposited[t] /\ Deposited[t] \in Nat
    BY DeskAssumption DEF DeskInit, U64
  <2>3. Total(held[t], Users) = Total(nobody, Users) + (held[t][Saver] - nobody[Saver])
    BY <2>2, FirstNumbers, AccountsAreFinite, TotalUpdates
  <2> QED
    BY <2>1, <2>2, <2>3, FirstNumbers
<1>3. Conserved
  <2> DEFINE purses == [u \in Users |-> Purse]
             one == Users \cup {"vault"}
             two == one \cup {"pvault"}
  <2>1. Total(purses, Users) = Purse * Cardinality(Users)
    BY FirstNumbers, AccountsAreFinite, TotalOfConstant
  <2>2. \A a \in Accounts : base[a] \in Nat
    BY TokensAreNatural, FirstBooks DEF PoolInv, PoolTypeOK
  <2>3. Total(base, Users) = Total(purses, Users) + (base[Saver] - purses[Saver])
    <3>1. Users \subseteq Accounts /\ Saver \in Users /\ \A u \in Users : purses[u] \in Nat
      BY AccountsApart, FirstNumbers
    <3>2. \A u \in Users \ {Saver} : base[u] = purses[u]
      BY FirstTokens
    <3> QED
      BY <2>2, <3>1, <3>2, AccountsAreFinite, TotalUpdates
  <2>4. /\ IsFiniteSet(one) /\ IsFiniteSet(two) /\ IsFiniteSet(Accounts)
    BY AccountsAreFinite, FS_AddElement
  <2>5. /\ one \ {"vault"} = Users /\ two \ {"pvault"} = one /\ Accounts \ {"treasury"} = two
        /\ one \subseteq Accounts /\ two \subseteq Accounts
    BY AccountsApart
  <2>6. Total(base, one) = Total(base, Users) + base["vault"]
    BY <2>2, <2>4, <2>5, TotalSplits
  <2>7. Total(base, two) = Total(base, one) + base["pvault"]
    BY <2>2, <2>4, <2>5, TotalSplits
  <2>8. Total(base, Accounts) = Total(base, two) + base["treasury"]
    BY <2>2, <2>4, <2>5, TotalSplits, AccountsApart
  <2> HIDE DEF purses, one, two
  <2>9. purses[Saver] = Purse
    BY FirstNumbers DEF purses
  <2>10. Purse * Cardinality(Users) \in Nat
    BY FirstNumbers
  <2> QED
    BY <2>1, <2>3, <2>6, <2>7, <2>8, <2>9, <2>10, FirstTokens, FirstNumbers DEF Conserved
<1> QED
  BY <1>1, <1>2, <1>3 DEF AllOwned

-----------------------------------------------------------------------------
(* The desk's steps are steps of the program.                              *)

Founded == pool # NoPool /\ pool.operator = Founder /\ cover # NoCover

(* Contracts of all buyers are numbered through, and the numbers do not    *)
(* run out before the transactions do.                                     *)
Numbered ==
  /\ sent \in 0 .. MaxSent /\ bought \in 0 .. sent + 1
  /\ \A key \in DOMAIN contracts : key[2] \in Nat /\ key[2] < bought
  /\ \A j, k \in DOMAIN contracts : j[2] = k[2] => j = k

ChainInv == AllOwned /\ Founded /\ Numbered

LEMMA ChainInvInit == DeskInit => ChainInv
<1> SUFFICES ASSUME DeskInit PROVE ChainInv
  OBVIOUS
<1>1. Founded
  <2>1. pool \in [operator : Users, created_at : 0 .. MaxClock, params : PoolParams]
    BY DeskAssumption, PoolAssumption DEF DeskInit
  <2> QED
    BY <2>1, AbsentAssumption, ProtectionAssumption DEF Founded, DeskInit
<1>2. Numbered
  <2>1. sent = 0 /\ bought = 1 /\ MaxSent \in Nat /\ DOMAIN contracts = {<<Saver, 0>>}
    BY DeskAssumption DEF DeskInit
  <2> QED
    BY <2>1 DEF Numbered
<1> QED
  BY <1>1, <1>2, FirstAllOwned DEF ChainInv

LEMMA ChainFacts ==
  ASSUME ChainInv
  PROVE  /\ AllOwned /\ SumsInv /\ CoverInv /\ PoolInv /\ Conserved /\ HoldersOwnSupply
         /\ CoverTypeOK /\ PoolTypeOK /\ Founded /\ Numbered
BY DEF ChainInv, AllOwned, SumsInv, CoverInv, PoolInv

(* What a step of the desk does to the chain, one case after the other.    *)
LEMMA DeskCases ==
  ASSUME DeskNext
  PROVE  \/ PoolNext /\ UNCHANGED coverVars /\ sent' \in {sent, sent + 1}
         \/ MarketStep /\ sent < MaxSent /\ sent' = sent + 1
         \/ UNCHANGED vars /\ UNCHANGED sent
<1>1. CASE Send
  <2>1. PoolStep => PoolNext /\ UNCHANGED coverVars
    BY DeskAssumption DEF PoolStep, PoolNext
  <2> QED
    BY <1>1, <2>1 DEF Send
<1>2. CASE TimePasses
  BY <1>2 DEF TimePasses, PoolNext
<1>3. CASE PollPool \/ PollMarket \/ PollWallet
  BY <1>3 DEF PollPool, PollMarket, PollWallet
<1> QED
  BY <1>1, <1>2, <1>3 DEF DeskNext

LEMMA MarketStepIsStep ==
  ASSUME ChainInv, MarketStep, sent < MaxSent
  PROVE  CoverNext
<1>1. ASSUME NEW u \in Users, NEW notional \in CoverAmounts, NEW days \in TermDays,
             BuyProtection(u, notional, days * DAY_SECONDS, bought)
      PROVE  CoverNext
  <2>1. days * DAY_SECONDS \in Terms /\ bought \in Nonces
    BY DeskAssumption DEF ChainInv, Numbered
  <2> QED
    BY <1>1, <2>1 DEF CoverNext
<1>2. ASSUME NEW shares \in CoverAmounts \cup {positions[Founder]},
             WithdrawProtection(Founder, shares)
      PROVE  CoverNext
  BY <1>2, DeskAssumption DEF CoverNext
<1> QED
  BY <1>1, <1>2 DEF MarketStep, CoverNext

LEMMA DeskStepIsStep ==
  ASSUME ChainInv, [DeskNext]_deskVars
  PROVE  [Next]_vars
<1>1. CASE UNCHANGED deskVars
  BY <1>1 DEF deskVars, vars
<1>2. CASE DeskNext
  BY <1>2, DeskCases, MarketStepIsStep DEF Next
<1> QED
  BY <1>1, <1>2

(* What no step takes back: the pool and the market as they were made, the *)
(* time that has passed, the contracts sold, and the loss records.         *)
LEMMA NothingIsTakenBack ==
  ASSUME ChainInv, [Next]_vars
  PROVE  /\ HistoryGrows
         /\ UNCHANGED <<pool, cover>>
         /\ lastAccrued' >= lastAccrued /\ bought' >= bought
<1>0. /\ PoolInv /\ CoverInv /\ pool # NoPool /\ cover # NoCover
      /\ lastAccrued \in Nat /\ bought \in Nat
  BY ChainFacts, PoolAssumption, ScaleAssumption DEF Founded, PoolTypeOK, CoverTypeOK, U64
<1> DEFINE Goal == /\ HistoryGrows /\ UNCHANGED <<pool, cover>>
                   /\ lastAccrued' >= lastAccrued /\ bought' >= bought
<1>1. ASSUME AccruePool, UNCHANGED <<pool, lossCount, events, cover>>, bought' >= bought
      PROVE  Goal
  BY <1>0, <1>1, AccrualGrows, AccrualMovesClock
<1>2. ASSUME UNCHANGED <<pool, modelTime, lossCount, events, cover, lastAccrued, bought>>
      PROVE  Goal
  BY <1>0, <1>2, IdleGrows
<1>3. ASSUME PoolNext, UNCHANGED coverVars
      PROVE  Goal
  <2>1. HistoryGrows /\ bought' >= bought /\ cover' = cover
    BY <1>0, <1>3, PoolPart DEF coverVars
  <2>2. pool' = pool
    BY <1>0, <2>1 DEF HistoryGrows
  <2>3. lastAccrued' >= lastAccrued
    <3>1. AccruePool => lastAccrued' >= lastAccrued
      BY <1>0, AccrualMovesClock
    <3>2. ASSUME NEW u \in Users, NEW p \in PoolParams, CreatePool(u, p) PROVE FALSE
      BY <1>0, <3>2 DEF CreatePool
    <3> QED
      BY <1>0, <1>3, <3>1, <3>2
         DEF PoolNext, ClockMoves, InitConfig, Faucet, CollectFees, Accrue, Deposit, Redeem,
             RecordLoss
  <2> QED
    BY <2>1, <2>2, <2>3
<1>4. ASSUME NEW u \in Users, NEW c \in CoverParams, InitProtection(u, c) PROVE Goal
  BY <1>0, <1>4 DEF InitProtection
<1>5. ASSUME NEW u \in Users, NEW amount \in CoverAmounts, ProvideProtection(u, amount)
      PROVE  Goal
  BY <1>2, <1>5 DEF ProvideProtection
<1>6. ASSUME NEW u \in Users, NEW shares \in CoverAmounts \cup {positions[u]},
             WithdrawProtection(u, shares)
      PROVE  Goal
  BY <1>2, <1>6 DEF WithdrawProtection
<1>7. ASSUME NEW u \in Users, NEW notional \in CoverAmounts, NEW term \in Terms,
             NEW nonce \in Nonces, BuyProtection(u, notional, term, nonce)
      PROVE  Goal
  <2>1. AccruePool /\ UNCHANGED <<pool, lossCount, events, cover>> /\ bought' = bought + 1
    BY <1>7 DEF BuyProtection
  <2> QED
    BY <1>0, <1>1, <2>1
<1>8. ASSUME NEW key \in DOMAIN contracts, NEW i \in DOMAIN events, SettleProtection(key, i)
      PROVE  Goal
  BY <1>2, <1>8 DEF SettleProtection
<1>9. ASSUME NEW u \in Users, NEW key \in DOMAIN contracts, ExpireProtection(u, key)
      PROVE  Goal
  <2>1. AccruePool /\ UNCHANGED <<pool, lossCount, events, cover, bought>>
    BY <1>9 DEF ExpireProtection
  <2> QED
    BY <1>0, <1>1, <2>1
<1>10. ASSUME UNCHANGED vars PROVE Goal
  BY <1>2, <1>10 DEF vars
<1> HIDE DEF Goal
<1>11. Goal
  BY <1>3, <1>4, <1>5, <1>6, <1>7, <1>8, <1>9, <1>10 DEF Next, CoverNext
<1> QED
  BY <1>11 DEF Goal

(* Where contracts come from: a purchase adds one, under the number the    *)
(* buyer's page chose, and nothing else adds any.                          *)
LEMMA NumbersAreKept ==
  ASSUME ChainInv, [DeskNext]_deskVars
  PROVE  Numbered'
<1>1. /\ sent \in Nat /\ MaxSent \in Nat /\ sent <= MaxSent
      /\ bought \in Nat /\ bought <= sent + 1
      /\ \A key \in DOMAIN contracts : key[2] \in Nat /\ key[2] < bought
      /\ \A j, k \in DOMAIN contracts : j[2] = k[2] => j = k
      /\ CoverInv
  BY ChainFacts, DeskAssumption DEF Numbered
<1>2. ASSUME DOMAIN contracts' = DOMAIN contracts, bought' = bought,
             sent' \in {sent, sent + 1}, sent' <= MaxSent
      PROVE  Numbered'
  <2>1. sent' \in 0 .. MaxSent /\ bought' \in 0 .. sent' + 1
    BY <1>1, <1>2
  <2>2. /\ \A key \in DOMAIN contracts' : key[2] \in Nat /\ key[2] < bought'
        /\ \A j, k \in DOMAIN contracts' : j[2] = k[2] => j = k
    BY <1>1, <1>2
  <2> QED
    BY <2>1, <2>2 DEF Numbered
<1>3. CASE UNCHANGED <<contracts, bought, sent>>
  BY <1>1, <1>2, <1>3
<1>4. CASE Send
  <2>1. sent' = sent + 1 /\ sent' <= MaxSent
    BY <1>1, <1>4 DEF Send
  <2>2. CASE PoolStep
    BY <1>2, <2>1, <2>2 DEF PoolStep, coverVars
  <2>3. ASSUME NEW u \in Users, NEW notional \in CoverAmounts, NEW days \in TermDays,
               BuyProtection(u, notional, days * DAY_SECONDS, bought)
        PROVE  Numbered'
    <3>1. DOMAIN contracts' = DOMAIN contracts \cup {<<u, bought>>} /\ bought' = bought + 1
      BY <2>3 DEF BuyProtection
    <3> QED
      BY <1>1, <2>1, <3>1 DEF Numbered
  <2>4. ASSUME NEW shares, WithdrawProtection(Founder, shares)
        PROVE  Numbered'
    BY <1>2, <2>1, <2>4 DEF WithdrawProtection
  <2>5. ASSUME NEW key \in DOMAIN contracts, NEW i \in DOMAIN events, SettleProtection(key, i)
        PROVE  Numbered'
    <3>1. DOMAIN contracts' = DOMAIN contracts /\ bought' = bought
      BY <2>5 DEF SettleProtection
    <3> QED
      BY <1>2, <2>1, <3>1
  <2>6. ASSUME NEW u \in Users, NEW key \in DOMAIN contracts, ExpireProtection(u, key)
        PROVE  Numbered'
    <3>1. DOMAIN contracts' = DOMAIN contracts /\ bought' = bought
      BY <2>6 DEF ExpireProtection
    <3> QED
      BY <1>2, <2>1, <3>1
  <2> QED
    BY <1>4, <2>2, <2>3, <2>4, <2>5, <2>6 DEF Send, MarketStep
<1>5. CASE TimePasses
  BY <1>3, <1>5 DEF TimePasses, coverVars
<1>6. CASE PollPool \/ PollMarket \/ PollWallet
  BY <1>3, <1>6 DEF PollPool, PollMarket, PollWallet, vars
<1>7. CASE UNCHANGED deskVars
  BY <1>3, <1>7 DEF deskVars
<1> QED
  BY <1>4, <1>5, <1>6, <1>7 DEF DeskNext

LEMMA ChainInvNext == ChainInv /\ [DeskNext]_deskVars => ChainInv'
<1> SUFFICES ASSUME ChainInv, [DeskNext]_deskVars PROVE ChainInv'
  OBVIOUS
<1>1. [Next]_vars
  BY DeskStepIsStep
<1>2. AllOwned'
  BY <1>1, SumsInvNext, MarketConserves, MarketKeepsHolders, ChainFacts DEF AllOwned
<1>3. Founded'
  BY <1>1, NothingIsTakenBack, ChainFacts DEF Founded
<1> QED
  BY <1>2, <1>3, NumbersAreKept DEF ChainInv

(* The chain under the desk, at all times: everything is owned, and the    *)
(* contracts are numbered.                                                 *)
THEOREM DeskKeepsTheBooks == DeskSpec => []ChainInv
BY ChainInvInit, ChainInvNext, PTL DEF DeskSpec

-----------------------------------------------------------------------------
(* The pool as the pages draw it.                                          *)

PoolFields ==
  {"address", "id", "operator", "mint", "vault", "params", "assets", "senior", "junior",
   "modelTime", "lastAccruedTs", "createdAt", "lossCount", "lossEvents"}

(* The fields of a drawn pool that the drawing takes from its balances.    *)
LEMMA DrawnFields ==
  ASSUME NEW b, NEW mt, NEW la
  PROVE  LET p == PoolWith(b, mt, la)
         IN  /\ p = [f \in PoolFields |-> p[f]]
             /\ p.assets = b.assets
             /\ p.senior = trancheView("Senior", b.nav["Senior"], b.supply["Senior"])
             /\ p.junior = trancheView("Junior", b.nav["Junior"], b.supply["Junior"])
             /\ p.modelTime = mt /\ p.lastAccruedTs = la
             /\ p.lossCount = lossCount /\ p.lossEvents = Losses
             /\ p.params = [yieldRateBps |-> pool.params.yield_rate_bps,
                            seniorRateBps |-> pool.params.senior_rate_bps,
                            minJuniorBps |-> pool.params.min_junior_bps,
                            perfFeeBps |-> pool.params.perf_fee_bps,
                            timeScale |-> pool.params.time_scale]
             /\ \A c, nt, na : LET q == PoolWith(c, nt, na)
                              IN  \A f \in PoolFields \ {"assets", "senior", "junior",
                                                         "modelTime", "lastAccruedTs"} :
                                    q[f] = p[f]
<1> DEFINE p == PoolWith(b, mt, la)
<1>1. p = [f \in PoolFields |-> p[f]]
  BY DEF PoolWith, poolView, PoolFields
<1>2. /\ p.assets = b.assets
      /\ p.senior = trancheView("Senior", b.nav["Senior"], b.supply["Senior"])
      /\ p.junior = trancheView("Junior", b.nav["Junior"], b.supply["Junior"])
      /\ p.modelTime = mt /\ p.lastAccruedTs = la
      /\ p.lossCount = lossCount /\ p.lossEvents = Losses
      /\ p.params = [yieldRateBps |-> pool.params.yield_rate_bps,
                     seniorRateBps |-> pool.params.senior_rate_bps,
                     minJuniorBps |-> pool.params.min_junior_bps,
                     perfFeeBps |-> pool.params.perf_fee_bps,
                     timeScale |-> pool.params.time_scale]
  BY DEF PoolWith, poolView
<1>3. ASSUME NEW c, NEW nt, NEW na,
             NEW f \in PoolFields \ {"assets", "senior", "junior", "modelTime", "lastAccruedTs"}
      PROVE  PoolWith(c, nt, na)[f] = p[f]
  BY DEF PoolWith, poolView, PoolFields
<1> QED
  BY <1>1, <1>2, <1>3

(* Drawing other balances in its place.                                    *)
LEMMA RedrawnPool ==
  ASSUME NEW b, NEW mt, NEW la, NEW c
  PROVE  withBalances(PoolWith(b, mt, la), Mirrored(c)) = PoolWith(c, mt, la)
<1> DEFINE p == PoolWith(b, mt, la)
           q == PoolWith(c, mt, la)
           w == withBalances(p, Mirrored(c))
<1>1. /\ p = [f \in PoolFields |-> p[f]] /\ q = [f \in PoolFields |-> q[f]]
      /\ p.senior.mint = "Senior" /\ p.junior.mint = "Junior"
      /\ q.assets = c.assets
      /\ q.senior = trancheView("Senior", c.nav["Senior"], c.supply["Senior"])
      /\ q.junior = trancheView("Junior", c.nav["Junior"], c.supply["Junior"])
      /\ \A f \in PoolFields \ {"assets", "senior", "junior"} : q[f] = p[f]
  <2>1. /\ p = [f \in PoolFields |-> p[f]] /\ q = [f \in PoolFields |-> q[f]]
        /\ p.senior = trancheView("Senior", b.nav["Senior"], b.supply["Senior"])
        /\ p.junior = trancheView("Junior", b.nav["Junior"], b.supply["Junior"])
        /\ q.assets = c.assets
        /\ q.senior = trancheView("Senior", c.nav["Senior"], c.supply["Senior"])
        /\ q.junior = trancheView("Junior", c.nav["Junior"], c.supply["Junior"])
        /\ p.modelTime = mt /\ p.lastAccruedTs = la /\ q.modelTime = mt /\ q.lastAccruedTs = la
    BY DrawnFields
  <2>2. \A f \in PoolFields \ {"assets", "senior", "junior", "modelTime", "lastAccruedTs"} :
          q[f] = p[f]
    BY DrawnFields
  <2> HIDE DEF p, q
  <2>3. p.senior.mint = "Senior" /\ p.junior.mint = "Junior"
    BY <2>1 DEF trancheView
  <2>4. \A f \in PoolFields \ {"assets", "senior", "junior"} : q[f] = p[f]
    BY <2>1, <2>2
  <2> QED
    BY <2>1, <2>3, <2>4
<1> HIDE DEF p, q
<1>2. /\ w = [f \in PoolFields |-> w[f]]
      /\ w.assets = c.assets
      /\ w.senior = trancheView("Senior", c.nav["Senior"], c.supply["Senior"])
      /\ w.junior = trancheView("Junior", c.nav["Junior"], c.supply["Junior"])
      /\ \A f \in PoolFields \ {"assets", "senior", "junior"} : w[f] = p[f]
  BY <1>1 DEF withBalances, Mirrored, PoolFields
<1> HIDE DEF w
<1>3. w = q
  BY <1>1, <1>2 DEF PoolFields
<1> QED
  BY <1>3 DEF p, q, w

(* The balances and rates read back from a drawing.                        *)
LEMMA ReadBack ==
  ASSUME NEW b, NEW mt, NEW la
  PROVE  /\ poolBalances(PoolWith(b, mt, la)) = Mirrored(b)
         /\ poolRates(PoolWith(b, mt, la)) = MirroredRates(pool.params)
<1> DEFINE p == PoolWith(b, mt, la)
<1>1. /\ p.assets = b.assets
      /\ p.senior = trancheView("Senior", b.nav["Senior"], b.supply["Senior"])
      /\ p.junior = trancheView("Junior", b.nav["Junior"], b.supply["Junior"])
      /\ p.params.yieldRateBps = pool.params.yield_rate_bps
      /\ p.params.seniorRateBps = pool.params.senior_rate_bps
      /\ p.params.perfFeeBps = pool.params.perf_fee_bps
  BY DrawnFields
<1> HIDE DEF p
<1>2. poolBalances(p) = Mirrored(b)
  BY <1>1 DEF poolBalances, Mirrored, trancheView
<1>3. poolRates(p) = MirroredRates(pool.params)
  BY <1>1 DEF poolRates, MirroredRates
<1> QED
  BY <1>2, <1>3 DEF p

(* The page's own accrual draws the pool as the program's accrual leaves   *)
(* it, for whatever yield is due since the last transaction.               *)
LEMMA AccruedIsDrawn ==
  ASSUME ChainInv, AccrualFits
  PROVE  accruedView(PoolNow, clock) = PoolAfter(Accrued)
<1>1. /\ PoolInv /\ pool # NoPool /\ balances \in PoolBalances
      /\ clock \in Nat /\ lastAccrued \in Nat
      /\ modelTime \in Nat
  BY ChainFacts, PoolAssumption, ScaleAssumption DEF Founded, PoolTypeOK, U64
<1>2. /\ DtModel \in Nat /\ Rates(pool.params) /\ Accrued \in PoolBalances
      /\ pool.params.time_scale \in Nat
  BY <1>1, AccrualKeepsBooks, PoolIsRecord
<1> DEFINE elapsed == IF clock > lastAccrued THEN clock - lastAccrued ELSE 0
           p == PoolWith(balances, modelTime, lastAccrued)
           next == PoolWith(Accrued, modelTime, lastAccrued)
           last == PoolWith(Accrued, modelTime + DtModel, Timestamp)
<1>3. elapsed = Timestamp - lastAccrued /\ lastAccrued + elapsed = Timestamp
  BY <1>1 DEF Timestamp
<1>4. elapsed * pool.params.time_scale = DtModel
  BY <1>3 DEF DtModel
<1> HIDE DEF elapsed
<1>5. afterAccrual(Mirrored(balances), accrue(Mirrored(balances), MirroredRates(pool.params), DtModel))
        = Mirrored(Accrued)
  <2>1. /\ Due.yield \in U64
        /\ (\A t \in Tranches : balances.supply[t] > 0) => SeniorDue(balances, pool.params, DtModel) \in U64
        /\ Accrued \in PoolBalances
    BY DEF AccrualFits
  <2>2. /\ Due.fee \in Nat /\ Due.net \in Nat /\ Due.gain["Senior"] \in Nat
        /\ Due.yield \in Nat /\ Due.net = Due.yield - Due.fee
    <3>1. Due.net = Due.yield - Due.fee
      BY DEF Due, Accrual
    <3>2. /\ Due.yield \in Nat /\ Due.fee \in Nat /\ Due.net \in Nat
          /\ Due.gain \in [Tranches -> Nat]
      BY <1>1, <1>2, AccrualSplits DEF Due
    <3>3. Due.gain["Senior"] \in Nat
      BY <3>2 DEF Tranches
    <3> QED
      BY <3>1, <3>2, <3>3
  <2>3. Due.fee \in U64
    BY <2>1, <2>2, ScaleAssumption DEF U64
  <2> QED
    BY <1>1, <1>2, <2>1, <2>2, <2>3, AccrualMirrored DEF Due, Accrued
<1>6. /\ p.lastAccruedTs = lastAccrued /\ p.params.timeScale = pool.params.time_scale
      /\ p.modelTime = modelTime
      /\ poolBalances(p) = Mirrored(balances) /\ poolRates(p) = MirroredRates(pool.params)
  BY DrawnFields, ReadBack
<1>7. withBalances(p, Mirrored(Accrued)) = next
  BY RedrawnPool
<1>8. /\ next = [f \in PoolFields |-> next[f]] /\ last = [f \in PoolFields |-> last[f]]
      /\ next.modelTime = modelTime /\ next.lastAccruedTs = lastAccrued
      /\ last.modelTime = modelTime + DtModel /\ last.lastAccruedTs = Timestamp
      /\ \A f \in PoolFields \ {"modelTime", "lastAccruedTs"} : last[f] = next[f]
  BY DrawnFields
<1> HIDE DEF p, next, last
<1>9. accruedView(p, clock) = [next EXCEPT !.modelTime = @ + DtModel, !.lastAccruedTs = @ + elapsed]
  BY <1>4, <1>5, <1>6, <1>7 DEF accruedView, elapsed
<1>10. [next EXCEPT !.modelTime = @ + DtModel, !.lastAccruedTs = @ + elapsed] = last
  <2> DEFINE w == [next EXCEPT !.modelTime = @ + DtModel, !.lastAccruedTs = @ + elapsed]
  <2>1. /\ w = [f \in PoolFields |-> w[f]]
        /\ w.modelTime = modelTime + DtModel /\ w.lastAccruedTs = lastAccrued + elapsed
        /\ \A f \in PoolFields \ {"modelTime", "lastAccruedTs"} : w[f] = next[f]
    BY <1>8 DEF PoolFields
  <2> HIDE DEF w
  <2>2. w = last
    BY <1>3, <1>8, <2>1
  <2> QED
    BY <2>2 DEF w
<1> QED
  BY <1>9, <1>10 DEF PoolNow, PoolAfter, p, last

-----------------------------------------------------------------------------
(* The tranche panel and the loss form.                                    *)

(* preview, read as one condition.                                         *)
LEMMA PreviewIs ==
  ASSUME NEW p, NEW mode, NEW t, NEW value \in Nat, NEW wallets
  PROVE  LET next == nextBalances(p, mode, t, value)
             in == preview(p, mode, t, value, wallets)
         IN  /\ in.kind = "ok" <=>
                  /\ value > 0
                  /\ ~walletShortfall(mode, t, value, wallets)
                  /\ ~Throws(next.receive) /\ ~\E f \in DOMAIN next.after : Throws(next.after[f])
                  /\ next.receive # 0
                  /\ ~breachesFloor(p, mode, t, next.after)
             /\ in.kind = "ok" => /\ in.receive = next.receive
                                  /\ in.after = withBalances(p, next.after)
<1> DEFINE next == nextBalances(p, mode, t, value)
           thrown == Throws(next.receive) \/ \E f \in DOMAIN next.after : Throws(next.after[f])
           in == preview(p, mode, t, value, wallets)
           shown == [kind |-> "ok", give |-> next.give, receive |-> next.receive,
                     navNow |-> IF t = "Senior" THEN p.senior.nav ELSE p.junior.nav,
                     after |-> withBalances(p, next.after),
                     juniorFloorAfter |-> juniorShareBps(next.after.seniorAssets, next.after.juniorAssets),
                     remainingShares |->
                       IF mode = "redeem" THEN {heldShares(w, t) - value : w \in wallets} ELSE {}]
<1>1. \A r : Refused(r).kind # "ok"
  BY DEF Refused
<1>2. shown.kind = "ok" /\ shown.receive = next.receive /\ shown.after = withBalances(p, next.after)
  OBVIOUS
<1>3. in = IF value <= 0 THEN Refused("zero")
           ELSE IF walletShortfall(mode, t, value, wallets) THEN Refused("wallet")
           ELSE IF thrown THEN Refused("waterfall")
           ELSE IF next.receive = 0 THEN Refused("rounds to zero")
           ELSE IF breachesFloor(p, mode, t, next.after) THEN Refused("floor")
           ELSE shown
  BY DEF preview
<1>4. value <= 0 <=> ~(value > 0)
  OBVIOUS
<1> HIDE DEF in, next, shown
<1>5. /\ in.kind = "ok" <=>
           /\ value > 0 /\ ~walletShortfall(mode, t, value, wallets) /\ ~thrown
           /\ next.receive # 0 /\ ~breachesFloor(p, mode, t, next.after)
      /\ in.kind = "ok" => in = shown
  BY <1>1, <1>2, <1>3, <1>4, Zenon
<1> QED
  BY <1>2, <1>5 DEF in, next

(* The tranche of a drawing is the tranche.                                *)
LEMMA TrancheDrawn ==
  ASSUME NEW b, NEW t \in Tranches
  PROVE  /\ trancheOf(Mirrored(b), t).assets = b.nav[t]
         /\ trancheOf(Mirrored(b), t).supply = b.supply[t]
BY DEF trancheOf, Mirrored, Tranches

(* What the tranche panel computes from a drawing of the accrued pool.     *)
LEMMA NextDrawn ==
  ASSUME NEW b, NEW mt, NEW la, NEW t \in Tranches, NEW value
  PROVE  /\ LET next == nextBalances(PoolWith(b, mt, la), "deposit", t, value)
                k == sharesForDeposit(value, b.nav[t], b.supply[t])
            IN  /\ next.receive = k
                /\ ~Throws(k) => next.after = afterDeposit(Mirrored(b), t, value, k)
         /\ LET next == nextBalances(PoolWith(b, mt, la), "redeem", t, value)
                k == amountForRedeem(value, b.nav[t], b.supply[t])
            IN  /\ next.receive = k
                /\ ~Throws(k) => next.after = afterRedeem(Mirrored(b), t, value, k)
<1> DEFINE p == PoolWith(b, mt, la)
<1>1. poolBalances(p) = Mirrored(b)
  BY ReadBack
<1> HIDE DEF p
<1>2. /\ nextBalances(p, "deposit", t, value).receive
            = sharesForDeposit(value, b.nav[t], b.supply[t])
      /\ nextBalances(p, "redeem", t, value).receive
            = amountForRedeem(value, b.nav[t], b.supply[t])
  BY <1>1, TrancheDrawn DEF nextBalances
<1>3. /\ ~Throws(nextBalances(p, "deposit", t, value).receive) =>
            nextBalances(p, "deposit", t, value).after
              = afterDeposit(Mirrored(b), t, value, sharesForDeposit(value, b.nav[t], b.supply[t]))
      /\ ~Throws(nextBalances(p, "redeem", t, value).receive) =>
            nextBalances(p, "redeem", t, value).after
              = afterRedeem(Mirrored(b), t, value, amountForRedeem(value, b.nav[t], b.supply[t]))
  BY <1>1, TrancheDrawn DEF nextBalances
<1> QED
  BY <1>2, <1>3 DEF p

(* The accounts as the accrual leaves them still add up to the mint.       *)
LEMMA AccruedTokens ==
  ASSUME ChainInv, AccrualFits
  PROVE  /\ AccruedBase \in [Accounts -> Nat] /\ Total(AccruedBase, Accounts) \in U64
         /\ AccruedBase \in TokenAccounts
         /\ \A u \in Users : AccruedBase[u] = base[u] /\ base[u] \in Nat
<1>1. /\ PoolInv /\ Conserved /\ pool # NoPool
  BY ChainFacts DEF Founded
<1>2. AccruedBase \in [Accounts -> Nat]
  BY <1>1, AccrualKeepsBooks
<1>3. Total(AccruedBase, Accounts) \in U64
  BY <1>1, AccrualConserves DEF AccrualFits
<1>4. AccruedBase \in TokenAccounts
  <2>1. \A a \in Accounts : AccruedBase[a] <= Total(AccruedBase, Accounts)
    BY <1>2, AccountsAreFinite, TotalAbove
  <2>2. \A a \in Accounts : AccruedBase[a] \in U64
    BY <1>2, <1>3, <2>1, ScaleAssumption DEF U64
  <2> QED
    BY <1>2, <2>2 DEF TokenAccounts
<1>5. \A u \in Users : AccruedBase[u] = base[u] /\ base[u] \in Nat
  BY <1>1, <1>2, AccrualSparesOthers, AccountsApart
<1> QED
  BY <1>2, <1>3, <1>4, <1>5

(* A wallet can pay exactly what it has.                                   *)
LEMMA WalletPays ==
  ASSUME ChainInv, AccrualFits, NEW u \in Users, NEW n \in Nat,
         NEW to \in {"vault", "treasury", "pvault"}
  PROVE  [AccruedBase EXCEPT ![u] = @ - n, ![to] = @ + n] \in TokenAccounts <=> n <= base[u]
<1> DEFINE c == [AccruedBase EXCEPT ![u] = @ - n, ![to] = @ + n]
<1>1. /\ AccruedBase \in [Accounts -> Nat] /\ Total(AccruedBase, Accounts) \in U64
      /\ AccruedBase[u] = base[u] /\ base[u] \in Nat
      /\ u \in Accounts /\ to \in Accounts /\ u # to
  BY AccruedTokens, AccountsApart
<1>2. n <= base[u] => c \in TokenAccounts
  BY <1>1, TransferFits
<1>3. c[u] = base[u] - n
  BY <1>1
<1>4. c \in TokenAccounts => c[u] \in Nat
  BY <1>1, TokensAreNatural
<1> HIDE DEF c
<1>5. c \in TokenAccounts => n <= base[u]
  BY <1>1, <1>3, <1>4
<1> QED
  BY <1>2, <1>5 DEF c

LEMMA DepositPreviewed ==
  ASSUME ChainInv, AccrualFits, NEW u \in Users, NEW t \in Tranches, NEW value \in U64
  PROVE  LET in == preview(PoolAfter(Accrued), "deposit", t, value, {WalletNow(u)})
         IN  /\ in.kind = "ok" <=> DepositAccepts(u, t, value)
             /\ in.kind = "ok" => /\ in.receive = DepositedShares(t, value)
                                  /\ in.after = PoolAfter(DepositedBooks(t, value))
<1> DEFINE p == PoolAfter(Accrued)
           in == preview(p, "deposit", t, value, {WalletNow(u)})
           next == nextBalances(p, "deposit", t, value)
           k == sharesForDeposit(value, Accrued.nav[t], Accrued.supply[t])
           s == DepositedShares(t, value)
           books == DepositedBooks(t, value)
<1>1. /\ PoolInv /\ HoldersOwnSupply /\ pool # NoPool /\ Accrued \in PoolBalances
      /\ Accrued.nav[t] \in Nat /\ Accrued.supply[t] \in U64 /\ Accrued.supply[t] \in Nat
      /\ Accrued.supply = balances.supply
      /\ value \in Nat
  <2>1. PoolInv /\ HoldersOwnSupply /\ pool # NoPool
    BY ChainFacts DEF Founded
  <2>2. Accrued \in PoolBalances /\ Accrued.supply = balances.supply
    BY <2>1, AccrualKeepsBooks
  <2> QED
    BY <2>1, <2>2, BalancesInU64 DEF U64
<1>2. /\ ~Throws(k) /\ k # 0 <=> s # 0 /\ s \in U64
      /\ s # 0 /\ s \in U64 => k = s
  BY <1>1, SharesMirrored DEF DepositedShares
<1>3. next.receive = k /\ (~Throws(k) => next.after = afterDeposit(Mirrored(Accrued), t, value, k))
  BY NextDrawn DEF PoolAfter
<1>4. walletShortfall("deposit", t, value, {WalletNow(u)}) <=> value > base[u]
  <2>1. WalletNow(u).base = base[u]
    BY DEF WalletNow, walletView
  <2> QED
    BY <2>1 DEF walletShortfall
<1>5. ASSUME s # 0, s \in U64
      PROVE  /\ (\E f \in DOMAIN next.after : Throws(next.after[f])) <=> books \notin PoolBalances
             /\ books \in PoolBalances => next.after = Mirrored(books)
  <2>1. k = s /\ next.after = afterDeposit(Mirrored(Accrued), t, value, s) /\ s \in Int
    BY <1>2, <1>3, <1>5 DEF U64
  <2> HIDE DEF next, s
  <2> QED
    BY <1>1, <2>1, DepositMirrored DEF books, DepositedBooks, s
<1>6. ASSUME books \in PoolBalances, next.after = Mirrored(books)
      PROVE  breachesFloor(p, "deposit", t, next.after) <=> ~DepositAllowed(t, books)
  <2>1. p.params.minJuniorBps = pool.params.min_junior_bps
    BY DrawnFields DEF PoolAfter
  <2>2. next.after.seniorAssets = books.nav["Senior"] /\ next.after.juniorAssets = books.nav["Junior"]
    BY <1>6 DEF Mirrored
  <2> HIDE DEF p, next, books
  <2> QED
    BY <2>1, <2>2, PartsMirrored DEF breachesFloor, DepositAllowed, Tranches
<1>7. s \in U64 /\ books \in PoolBalances => DepositedHoldings(u, t, value) \in ShareAccounts
  <2> SUFFICES ASSUME s \in U64, books \in PoolBalances
               PROVE  DepositedHoldings(u, t, value) \in ShareAccounts
    OBVIOUS
  <2>1. held[t][u] \in Nat /\ held[t][u] <= Accrued.supply[t] /\ held \in ShareAccounts
    BY <1>1, HeldIsPart DEF PoolInv, PoolTypeOK
  <2>2. books.supply[t] = Accrued.supply[t] + s /\ books.supply[t] \in U64
    <3>1. books.supply = [Accrued.supply EXCEPT ![t] = @ + s]
      BY DEF DepositedBooks, AfterDeposit
    <3>2. books.supply \in [Tranches -> U64] /\ Accrued.supply \in [Tranches -> U64]
      BY <1>1, BalancesInU64
    <3> HIDE DEF books, s
    <3> QED
      BY <3>1, <3>2
  <2> HIDE DEF books, s
  <2>3. held[t][u] + s \in U64
    BY <1>1, <2>1, <2>2, ScaleAssumption DEF U64
  <2> QED
    BY <2>1, <2>3 DEF DepositedHoldings, ShareAccounts, s
<1>8. DepositedBase(u, value) \in TokenAccounts <=> value <= base[u]
  BY <1>1, WalletPays DEF DepositedBase
<1>9. base[u] \in Nat
  BY AccruedTokens
<1>10. books \in PoolBalances => s \in U64
  <2> SUFFICES ASSUME books \in PoolBalances PROVE s \in U64
    OBVIOUS
  <2>1. s \in Nat
    BY <1>1, DepositKeepsPrice, AccrualKeepsBooks DEF DepositedShares
  <2>2. books.supply[t] = Accrued.supply[t] + s /\ books.supply[t] \in U64
    <3>1. books.supply = [Accrued.supply EXCEPT ![t] = @ + s]
      BY DEF DepositedBooks, AfterDeposit
    <3>2. books.supply \in [Tranches -> U64] /\ Accrued.supply \in [Tranches -> U64]
      BY <1>1, BalancesInU64
    <3> HIDE DEF books, s
    <3> QED
      BY <3>1, <3>2
  <2> HIDE DEF books, s
  <2> QED
    BY <1>1, <2>1, <2>2, ScaleAssumption DEF U64
<1>11. s \in Nat
  BY <1>1, DepositKeepsPrice, AccrualKeepsBooks DEF DepositedShares
<1>12. /\ in.kind = "ok" <=>
            /\ value > 0
            /\ ~walletShortfall("deposit", t, value, {WalletNow(u)})
            /\ ~Throws(next.receive) /\ ~\E f \in DOMAIN next.after : Throws(next.after[f])
            /\ next.receive # 0
            /\ ~breachesFloor(p, "deposit", t, next.after)
       /\ in.kind = "ok" => in.receive = next.receive /\ in.after = withBalances(p, next.after)
  BY <1>1, PreviewIs
<1>13. DepositAccepts(u, t, value) <=>
         /\ value > 0 /\ s > 0 /\ books \in PoolBalances /\ DepositAllowed(t, books)
         /\ DepositedHoldings(u, t, value) \in ShareAccounts
         /\ DepositedBase(u, value) \in TokenAccounts
  BY <1>1 DEF DepositAccepts
<1>14. withBalances(p, Mirrored(books)) = PoolAfter(books)
  BY RedrawnPool DEF PoolAfter
<1> HIDE DEF in, next, k, s, books, p
<1>15. s > 0 <=> s # 0
  BY <1>11
<1>16. value > base[u] <=> ~(value <= base[u])
  BY <1>1, <1>9
<1>17. in.kind = "ok" <=> DepositAccepts(u, t, value)
  BY <1>2, <1>3, <1>4, <1>5, <1>6, <1>7, <1>8, <1>10, <1>12, <1>13, <1>15, <1>16, Zenon
<1>18. in.kind = "ok" => in.receive = s /\ in.after = PoolAfter(books)
  BY <1>2, <1>3, <1>5, <1>12, <1>13, <1>14, <1>17, <1>15, <1>10
<1> QED
  BY <1>17, <1>18 DEF in, p, s, books

LEMMA RedeemPreviewed ==
  ASSUME ChainInv, AccrualFits, NEW u \in Users, NEW t \in Tranches, NEW value \in U64
  PROVE  LET out == preview(PoolAfter(Accrued), "redeem", t, value, {WalletNow(u)})
             books == AfterRedeem(Accrued, t, value, Redeemed(t, value))
         IN  /\ out.kind = "ok" <=> RedeemAccepts(u, t, value)
             /\ out.kind = "ok" => /\ out.receive = Redeemed(t, value)
                                   /\ out.after = PoolAfter(books)
<1> DEFINE p == PoolAfter(Accrued)
           out == preview(p, "redeem", t, value, {WalletNow(u)})
           next == nextBalances(p, "redeem", t, value)
           k == amountForRedeem(value, Accrued.nav[t], Accrued.supply[t])
           a == Redeemed(t, value)
           books == AfterRedeem(Accrued, t, value, a)
           fits == value <= Accrued.supply[t]
<1>1. /\ PoolInv /\ HoldersOwnSupply /\ pool # NoPool /\ Accrued \in PoolBalances
      /\ Accrued.nav[t] \in Nat /\ Accrued.nav[t] \in U64 /\ Accrued.supply[t] \in Nat
      /\ Accrued.supply = balances.supply
      /\ AccruedBase["vault"] = Accrued.nav["Senior"] + Accrued.nav["Junior"]
      /\ Accrued.nav["Senior"] \in Nat /\ Accrued.nav["Junior"] \in Nat
      /\ value \in Nat
  <2>1. PoolInv /\ HoldersOwnSupply /\ pool # NoPool
    BY ChainFacts DEF Founded
  <2>2. /\ Accrued \in PoolBalances /\ Accrued.supply = balances.supply
        /\ AccruedBase["vault"] = Accrued.nav["Senior"] + Accrued.nav["Junior"]
    BY <2>1, AccrualKeepsBooks
  <2> QED
    BY <2>1, <2>2, BalancesInU64 DEF U64
<1>2. /\ ~Throws(k) /\ k # 0 <=> fits /\ a # 0 /\ a \in U64
      /\ fits /\ a # 0 /\ a \in U64 => k = a
  BY <1>1, AmountsMirrored DEF Redeemed
<1>3. next.receive = k /\ (~Throws(k) => next.after = afterRedeem(Mirrored(Accrued), t, value, k))
  BY NextDrawn DEF PoolAfter
<1>4. walletShortfall("redeem", t, value, {WalletNow(u)}) <=> value > held[t][u]
  <2>1. heldShares(WalletNow(u), t) = held[t][u]
    BY DEF WalletNow, walletView, heldShares, Tranches
  <2> QED
    BY <2>1 DEF walletShortfall
<1>5. ASSUME fits, a # 0, a \in U64
      PROVE  /\ (\E f \in DOMAIN next.after : Throws(next.after[f])) <=> books \notin PoolBalances
             /\ books \in PoolBalances => next.after = Mirrored(books)
  <2>1. k = a /\ next.after = afterRedeem(Mirrored(Accrued), t, value, a) /\ a \in Int
    BY <1>2, <1>3, <1>5 DEF U64
  <2> HIDE DEF next, a
  <2> QED
    BY <1>1, <2>1, RedeemMirrored DEF books
<1>6. ASSUME books \in PoolBalances, next.after = Mirrored(books)
      PROVE  breachesFloor(p, "redeem", t, next.after) <=> ~RedeemAllowed(t, books)
  <2>1. p.params.minJuniorBps = pool.params.min_junior_bps
    BY DrawnFields DEF PoolAfter
  <2>2. next.after.seniorAssets = books.nav["Senior"] /\ next.after.juniorAssets = books.nav["Junior"]
    BY <1>6 DEF Mirrored
  <2> HIDE DEF p, next, books
  <2> QED
    BY <2>1, <2>2, PartsMirrored DEF breachesFloor, RedeemAllowed, Tranches
<1>7. fits => a \in 0 .. Accrued.nav[t] /\ a \in Nat /\ a \in U64 /\ a <= AccruedBase["vault"]
  <2> SUFFICES ASSUME fits
               PROVE  a \in 0 .. Accrued.nav[t] /\ a \in Nat /\ a \in U64 /\ a <= AccruedBase["vault"]
    OBVIOUS
  <2>1. a \in 0 .. Accrued.nav[t]
    BY <1>1, RedeemKeepsPrice DEF Redeemed
  <2> HIDE DEF a
  <2>2. Accrued.nav[t] <= AccruedBase["vault"]
    BY <1>1 DEF Tranches
  <2>3. a \in U64
    BY <1>1, <2>1, ScaleAssumption DEF U64
  <2> QED
    BY <1>1, <2>1, <2>2, <2>3
<1>8. fits => RedeemedBase(u, a) \in TokenAccounts
  <2>1. /\ AccruedBase \in [Accounts -> Nat] /\ Total(AccruedBase, Accounts) \in U64
        /\ u \in Accounts /\ "vault" \in Accounts /\ u # "vault"
    BY AccruedTokens, AccountsApart
  <2> HIDE DEF a
  <2> QED
    BY <1>7, <2>1, TransferFits DEF RedeemedBase
<1>9. RedeemedShares(u, t, value) \in ShareAccounts <=> value <= held[t][u]
  <2>1. held[t][u] \in Nat /\ held[t][u] \in U64 /\ held \in ShareAccounts
    <3>1. held \in ShareAccounts
      BY <1>1 DEF PoolInv, PoolTypeOK
    <3> QED
      BY <3>1 DEF ShareAccounts, U64
  <2>2. RedeemedShares(u, t, value)[t][u] = held[t][u] - value
    BY <2>1 DEF RedeemedShares, ShareAccounts
  <2>3. RedeemedShares(u, t, value) \in ShareAccounts => held[t][u] - value \in U64
    BY <2>2 DEF ShareAccounts
  <2>4. held[t][u] - value \in U64 => RedeemedShares(u, t, value) \in ShareAccounts
    BY <2>1 DEF RedeemedShares, ShareAccounts
  <2>5. held[t][u] - value \in U64 <=> value <= held[t][u]
    BY <1>1, <2>1, ScaleAssumption DEF U64
  <2> QED
    BY <2>3, <2>4, <2>5
<1>10. held[t][u] \in Nat
  BY <1>1, HeldIsPart
<1>12. /\ out.kind = "ok" <=>
            /\ value > 0
            /\ ~walletShortfall("redeem", t, value, {WalletNow(u)})
            /\ ~Throws(next.receive) /\ ~\E f \in DOMAIN next.after : Throws(next.after[f])
            /\ next.receive # 0
            /\ ~breachesFloor(p, "redeem", t, next.after)
       /\ out.kind = "ok" => out.receive = next.receive /\ out.after = withBalances(p, next.after)
  BY <1>1, PreviewIs
<1>13. RedeemAccepts(u, t, value) <=>
         /\ value > 0 /\ fits /\ a > 0 /\ a <= AccruedBase["vault"] /\ books \in PoolBalances
         /\ RedeemAllowed(t, books)
         /\ RedeemedBase(u, a) \in TokenAccounts
         /\ RedeemedShares(u, t, value) \in ShareAccounts
  BY <1>1 DEF RedeemAccepts
<1>14. withBalances(p, Mirrored(books)) = PoolAfter(books)
  BY RedrawnPool DEF PoolAfter
<1> HIDE DEF out, next, k, a, books, p, fits
<1>15. fits => (a > 0 <=> a # 0)
  BY <1>7
<1>16. value > held[t][u] <=> ~(value <= held[t][u])
  BY <1>1, <1>10
<1>17. out.kind = "ok" <=> RedeemAccepts(u, t, value)
  BY <1>2, <1>3, <1>4, <1>5, <1>6, <1>7, <1>8, <1>9, <1>12, <1>13, <1>15, <1>16, Zenon
<1>18. out.kind = "ok" => out.receive = a /\ out.after = PoolAfter(books)
  BY <1>2, <1>3, <1>5, <1>7, <1>12, <1>13, <1>14, <1>15, <1>17
<1> QED
  BY <1>17, <1>18 DEF out, p, a, books

(* A loss as the mirror takes it from the drawn pool, and as the program   *)
(* takes it from the books.                                                *)
LEMMA LossForeseen ==
  ASSUME ChainInv, AccrualFits, NEW bps \in LossRates, bps <= BPS
  PROVE  LET n == LossNow(bps)
             k == lossAmount(Accrued.assets, bps)
             split == applyLoss(k, Accrued.nav["Senior"], Accrued.nav["Junior"])
             parts == LossSplit(bps)
             books == AfterLoss(Accrued, parts)
         IN  /\ n \in 0 .. Accrued.assets /\ k = n /\ n \in Nat
             /\ split.juniorLoss = parts["Junior"] /\ split.seniorLoss = parts["Senior"]
             /\ books \in PoolBalances
             /\ afterLoss(Mirrored(Accrued), split) = Mirrored(books)
<1> DEFINE k == lossAmount(Accrued.assets, bps)
           split == applyLoss(k, Accrued.nav["Senior"], Accrued.nav["Junior"])
           n == LossNow(bps)
           parts == LossSplit(bps)
           books == AfterLoss(Accrued, parts)
<1>1. /\ PoolInv /\ pool # NoPool /\ pool.operator = Founder
      /\ Accrued \in PoolBalances /\ Accrued.assets \in Nat /\ Accrued.assets \in U64
      /\ AccruedBase["vault"] = Accrued.assets
      /\ Accrued.assets = Accrued.nav["Senior"] + Accrued.nav["Junior"]
      /\ Accrued.nav["Senior"] \in U64 /\ Accrued.nav["Junior"] \in U64
      /\ Accrued.nav["Senior"] \in Nat /\ Accrued.nav["Junior"] \in Nat
      /\ bps \in Nat
  <2>1. PoolInv /\ pool # NoPool /\ pool.operator = Founder
    BY ChainFacts DEF Founded
  <2>2. /\ Accrued \in PoolBalances /\ AccruedBase["vault"] = Accrued.assets
        /\ Accrued.assets = Accrued.nav["Senior"] + Accrued.nav["Junior"]
    BY <2>1, AccrualKeepsBooks
  <2> QED
    BY <2>1, <2>2, BalancesInU64, PoolAssumption DEF U64
<1>2. n \in 0 .. Accrued.assets /\ k = n /\ n \in Nat
  <2>1. n \in 0 .. Accrued.assets
    BY <1>1, ScaleAssumption, MulBpsIsPart DEF LossNow, LossAmount
  <2>2. k = toU64(n)
    BY PartsMirrored DEF LossNow
  <2> HIDE DEF n, k
  <2>3. n \in U64 /\ n \in Nat
    BY <1>1, <2>1, ScaleAssumption DEF U64
  <2> QED
    BY <2>1, <2>2, <2>3, ToU64
<1>3. /\ split.juniorLoss = parts["Junior"] /\ split.seniorLoss = parts["Senior"]
      /\ books \in PoolBalances
      /\ afterLoss(Mirrored(Accrued), split) = Mirrored(books)
  <2>1. n \in Nat /\ n <= Accrued.assets /\ k = n
    BY <1>2
  <2>2. /\ parts["Senior"] + parts["Junior"] = n
        /\ parts["Junior"] <= Accrued.nav["Junior"]
        /\ parts["Senior"] > 0 => parts["Junior"] = Accrued.nav["Junior"]
        /\ parts["Senior"] \in Nat /\ parts["Junior"] \in Nat
    <3>1. LET cut == ApplyLoss(n, Accrued)
          IN  /\ cut \in [Tranches -> 0 .. n]
              /\ cut["Senior"] + cut["Junior"] = n
              /\ cut["Junior"] <= Accrued.nav["Junior"]
              /\ cut["Senior"] > 0 => cut["Junior"] = Accrued.nav["Junior"]
      BY <1>1, <2>1, LossSplits
    <3> HIDE DEF n
    <3>2. parts = ApplyLoss(n, Accrued)
      BY DEF LossSplit, n
    <3> HIDE DEF parts
    <3> QED
      BY <2>1, <3>1, <3>2 DEF Tranches
  <2>3. books \in PoolBalances
    <3>1. /\ Accrued.assets - (parts["Senior"] + parts["Junior"]) \in U64
          /\ \A t \in Tranches : Accrued.nav[t] - parts[t] \in U64
      <4> HIDE DEF parts, n
      <4>1. Accrued.nav["Senior"] - parts["Senior"] \in U64
        BY <1>1, <2>1, <2>2, ScaleAssumption DEF U64
      <4>2. Accrued.nav["Junior"] - parts["Junior"] \in U64
        BY <1>1, <2>1, <2>2, ScaleAssumption DEF U64
      <4>3. Accrued.assets - (parts["Senior"] + parts["Junior"]) \in U64
        BY <1>1, <2>1, <2>2, ScaleAssumption DEF U64
      <4> QED
        BY <4>1, <4>2, <4>3 DEF Tranches
    <3>2. Accrued.supply \in [Tranches -> U64]
      BY <1>1, BalancesInU64
    <3> HIDE DEF parts
    <3> QED
      BY <3>1, <3>2 DEF AfterLoss, PoolBalances
  <2>4. parts = ApplyLoss(n, Accrued)
    BY DEF LossSplit
  <2> HIDE DEF n, k, parts
  <2> QED
    BY <1>1, <2>1, <2>3, <2>4, LossMirrored
<1> QED
  BY <1>2, <1>3

LEMMA LossPreviewed ==
  ASSUME ChainInv, AccrualFits, NEW bps \in LossRates
  PROVE  LET loss == lossPreview(PoolAfter(Accrued), bps)
         IN  /\ loss.kind = "ok" <=> LossAccepts(Founder, bps)
             /\ loss.kind = "ok" => /\ loss.juniorLoss = LossSplit(bps)["Junior"]
                                    /\ loss.seniorLoss = LossSplit(bps)["Senior"]
                                    /\ loss.after = PoolAfter(AfterLoss(Accrued, LossSplit(bps)))
<1> DEFINE p == PoolAfter(Accrued)
           loss == lossPreview(p, bps)
           k == lossAmount(Accrued.assets, bps)
           split == applyLoss(k, Accrued.nav["Senior"], Accrued.nav["Junior"])
           n == LossNow(bps)
           parts == LossSplit(bps)
           books == AfterLoss(Accrued, parts)
           shown == [kind |-> "ok", lossBps |-> bps, amount |-> k,
                     juniorLoss |-> split.juniorLoss, seniorLoss |-> split.seniorLoss,
                     after |-> withBalances(p, afterLoss(Mirrored(Accrued), split))]
<1>1. /\ PoolInv /\ pool # NoPool /\ pool.operator = Founder
      /\ Accrued \in PoolBalances /\ Accrued.assets \in Nat /\ Accrued.assets \in U64
      /\ AccruedBase["vault"] = Accrued.assets
      /\ Accrued.assets = Accrued.nav["Senior"] + Accrued.nav["Junior"]
      /\ Accrued.nav["Senior"] \in U64 /\ Accrued.nav["Junior"] \in U64
      /\ Accrued.nav["Senior"] \in Nat /\ Accrued.nav["Junior"] \in Nat
      /\ bps \in Nat
  <2>1. PoolInv /\ pool # NoPool /\ pool.operator = Founder
    BY ChainFacts DEF Founded
  <2>2. /\ Accrued \in PoolBalances /\ AccruedBase["vault"] = Accrued.assets
        /\ Accrued.assets = Accrued.nav["Senior"] + Accrued.nav["Junior"]
    BY <2>1, AccrualKeepsBooks
  <2> QED
    BY <2>1, <2>2, BalancesInU64, PoolAssumption DEF U64
<1>2. poolBalances(p) = Mirrored(Accrued)
  BY ReadBack DEF PoolAfter
<1>3. /\ Mirrored(Accrued).assets = Accrued.assets
      /\ Mirrored(Accrued).seniorAssets = Accrued.nav["Senior"]
      /\ Mirrored(Accrued).juniorAssets = Accrued.nav["Junior"]
  BY DEF Mirrored
<1>4. loss = IF bps > BPS THEN Refused("above everything")
             ELSE IF k = 0 THEN Refused("rounds to zero") ELSE shown
  BY <1>2, <1>3 DEF lossPreview
<1>5. \A r : Refused(r).kind # "ok"
  BY DEF Refused
<1>6. bps <= BPS => n \in 0 .. Accrued.assets /\ k = n /\ n \in Nat
  BY LossForeseen
<1>7. bps <= BPS =>
        /\ split.juniorLoss = parts["Junior"] /\ split.seniorLoss = parts["Senior"]
        /\ books \in PoolBalances
        /\ afterLoss(Mirrored(Accrued), split) = Mirrored(books)
  BY LossForeseen
<1>8. bps <= BPS => BurnedBase(bps) \in TokenAccounts
  <2> SUFFICES ASSUME bps <= BPS PROVE BurnedBase(bps) \in TokenAccounts
    OBVIOUS
  <2>1. n \in Nat /\ n <= AccruedBase["vault"]
    BY <1>1, <1>6
  <2>2. AccruedBase \in TokenAccounts /\ AccruedBase["vault"] \in U64
    BY AccruedTokens, AccountsApart DEF TokenAccounts
  <2> HIDE DEF n
  <2>3. AccruedBase["vault"] - n \in U64
    BY <2>1, <2>2, ScaleAssumption DEF U64
  <2> QED
    BY <2>2, <2>3 DEF BurnedBase, TokenAccounts, n
<1>9. bps <= BPS => AccruedMint - n \in U64
  <2> SUFFICES ASSUME bps <= BPS PROVE AccruedMint - n \in U64
    OBVIOUS
  <2>1. AccruedMint \in U64 /\ AccruedMint = Total(AccruedBase, Accounts)
    BY <1>1, ChainFacts, AccrualConserves DEF AccrualFits
  <2>2. AccruedBase["vault"] <= Total(AccruedBase, Accounts) /\ AccruedBase["vault"] \in Nat
    BY AccruedTokens, AccountsAreFinite, AccountsApart, TotalAbove
  <2>3. n \in Nat /\ n <= AccruedBase["vault"]
    BY <1>1, <1>6
  <2> HIDE DEF n
  <2> QED
    BY <2>1, <2>2, <2>3, ScaleAssumption DEF U64
<1>10. lossCount \notin DOMAIN events
  <2>1. DOMAIN events = 0 .. lossCount - 1 /\ lossCount \in Nat
    BY <1>1, PoolAssumption DEF PoolInv, PoolTypeOK
  <2> QED
    BY <2>1
<1>11. LossAccepts(Founder, bps) <=> bps <= BPS /\ n > 0
  <2>1. LossAccepts(Founder, bps) <=>
          /\ bps <= BPS /\ n > 0 /\ books \in PoolBalances
          /\ BurnedBase(bps) \in TokenAccounts /\ AccruedMint - n \in U64
    BY <1>1, <1>10 DEF LossAccepts
  <2> QED
    BY <1>7, <1>8, <1>9, <2>1, Zenon
<1>12. bps > BPS <=> ~(bps <= BPS)
  BY <1>1, ScaleAssumption
<1>13. withBalances(p, Mirrored(books)) = PoolAfter(books)
  BY RedrawnPool DEF PoolAfter
<1>14. /\ shown.kind = "ok" /\ shown.juniorLoss = split.juniorLoss
       /\ shown.seniorLoss = split.seniorLoss
       /\ shown.after = withBalances(p, afterLoss(Mirrored(Accrued), split))
  OBVIOUS
<1> HIDE DEF p, loss, k, split, n, parts, books, shown
<1>15. loss.kind = "ok" <=> bps <= BPS /\ k # 0
  BY <1>4, <1>5, <1>12, <1>14, Zenon
<1>16. bps <= BPS => (k # 0 <=> n > 0)
  BY <1>6
<1>17. loss.kind = "ok" <=> LossAccepts(Founder, bps)
  BY <1>11, <1>15, <1>16, Zenon
<1>18. loss.kind = "ok" => /\ loss.juniorLoss = parts["Junior"] /\ loss.seniorLoss = parts["Senior"]
                           /\ loss.after = PoolAfter(books)
  <2> SUFFICES ASSUME loss.kind = "ok"
               PROVE  /\ loss.juniorLoss = parts["Junior"] /\ loss.seniorLoss = parts["Senior"]
                      /\ loss.after = PoolAfter(books)
    OBVIOUS
  <2>1. bps <= BPS /\ loss = shown
    BY <1>4, <1>5, <1>12, <1>15
  <2> QED
    BY <1>7, <1>13, <1>14, <2>1
<1> QED
  BY <1>17, <1>18 DEF loss, p, parts, books

(* The tranche panel and the loss form of a fresh read offer exactly what  *)
(* the program accepts, and draw exactly what it leaves behind.            *)
THEOREM PreviewsAreExact == DeskSpec => []PreviewExact
<1>1. ChainInv => PreviewExact
  <2> SUFFICES ASSUME ChainInv PROVE PreviewExact
    OBVIOUS
  <2> DEFINE p == accruedView(PoolNow, clock)
  <2>1. AccrualFits => p = PoolAfter(Accrued)
    BY AccruedIsDrawn
  <2> HIDE DEF p
  <2>2. ASSUME NEW u \in Users, NEW t \in Tranches, NEW value \in Tried
        PROVE  LET in == preview(p, "deposit", t, value, {WalletNow(u)})
               IN  IF in.kind = "ok" /\ AccrualFits
                   THEN /\ DepositAccepts(u, t, value)
                        /\ in.receive = DepositedShares(t, value)
                        /\ in.after = PoolAfter(DepositedBooks(t, value))
                   ELSE ~DepositAccepts(u, t, value)
    <3>1. value \in U64
      BY DeskAssumption
    <3>2. DepositAccepts(u, t, value) => AccrualFits
      BY DEF DepositAccepts
    <3> QED
      BY <2>1, <3>1, <3>2, DepositPreviewed
  <2>3. ASSUME NEW u \in Users, NEW t \in Tranches, NEW value \in Tried
        PROVE  LET out == preview(p, "redeem", t, value, {WalletNow(u)})
               IN  IF out.kind = "ok" /\ AccrualFits
                   THEN /\ RedeemAccepts(u, t, value)
                        /\ out.receive = Redeemed(t, value)
                        /\ out.after = PoolAfter(AfterRedeem(Accrued, t, value, Redeemed(t, value)))
                   ELSE ~RedeemAccepts(u, t, value)
    <3>1. value \in U64
      BY DeskAssumption
    <3>2. RedeemAccepts(u, t, value) => AccrualFits
      BY DEF RedeemAccepts
    <3> QED
      BY <2>1, <3>1, <3>2, RedeemPreviewed
  <2>4. ASSUME NEW bps \in LossRates
        PROVE  LET loss == lossPreview(p, bps)
               IN  IF loss.kind = "ok" /\ AccrualFits
                   THEN /\ LossAccepts(Founder, bps)
                        /\ loss.juniorLoss = LossSplit(bps)["Junior"]
                        /\ loss.seniorLoss = LossSplit(bps)["Senior"]
                        /\ loss.after = PoolAfter(AfterLoss(Accrued, LossSplit(bps)))
                   ELSE ~LossAccepts(Founder, bps)
    <3>1. LossAccepts(Founder, bps) => AccrualFits
      BY DEF LossAccepts
    <3> QED
      BY <2>1, <3>1, LossPreviewed
  <2> QED
    BY <2>2, <2>3, <2>4 DEF PreviewExact, p
<1> QED
  BY <1>1, DeskKeepsTheBooks, PTL

-----------------------------------------------------------------------------
(* The protection desk.                                                    *)

LEMMA MarketNumbers ==
  ASSUME ChainInv
  PROVE  /\ CoverInv /\ SumsInv /\ PoolInv /\ Conserved /\ cover # NoCover /\ pool # NoPool
         /\ collateral \in Nat /\ collateral \in U64 /\ reserved \in Nat /\ reserved <= collateral
         /\ Free \in Nat /\ Free <= collateral
         /\ shareSupply \in Nat /\ shareSupply \in U64 /\ bought \in Nat /\ bought \in U64
         /\ base["pvault"] = collateral
         /\ cover.premium_rate_bps \in Nat /\ cover.trigger_bps \in 0 .. BPS
         /\ cover.premium_fee_bps \in 0 .. BPS
         /\ \A u \in Users : /\ base[u] \in Nat /\ positions[u] \in Nat
                             /\ positions[u] <= shareSupply
<1>1. /\ CoverInv /\ SumsInv /\ PoolInv /\ Conserved /\ cover # NoCover /\ pool # NoPool
      /\ CoverTypeOK /\ PoolTypeOK
  BY ChainFacts DEF Founded
<1>2. collateral \in U64 /\ shareSupply \in U64 /\ bought \in U64 /\ bought \in Nat
  BY <1>1, ScaleAssumption DEF CoverTypeOK, U64
<1>3. \A u \in Users : base[u] \in Nat
  BY <1>1, AccountsApart, TokensAreNatural DEF PoolTypeOK
<1> QED
  BY <1>1, <1>2, <1>3, CoverNumbers, PositionIsPart

(* What the market's view says.                                            *)
LEMMA MarketDrawn ==
  /\ MarketNow.params.premiumRateBps = cover.premium_rate_bps
  /\ MarketNow.params.premiumFeeBps = cover.premium_fee_bps
  /\ MarketNow.params.triggerBps = cover.trigger_bps
  /\ MarketNow.collateral = collateral /\ MarketNow.reserved = reserved
  /\ MarketNow.free = Free /\ MarketNow.shareSupply = shareSupply
  /\ MarketNow.contracts = bought
BY DEF MarketNow, protectionView, Free

LEMMA WalletDrawn ==
  ASSUME NEW u
  PROVE  /\ WalletNow(u).base = base[u] /\ WalletNow(u).sellerShares = positions[u]
         /\ WalletNow(u).seniorShares = held["Senior"][u]
         /\ WalletNow(u).juniorShares = held["Junior"][u]
         /\ WalletNow(u).contracts = ContractsNow({key \in DOMAIN contracts : key[1] = u})
BY DEF WalletNow, walletView

LEMMA ProvidePreviewed ==
  ASSUME ChainInv, NEW u \in Users, NEW value \in U64
  PROVE  LET into == sellPreview(MarketNow, "provide", value, {WalletNow(u)})
         IN  /\ ProvideAccepts(u, value) <=>
                  into.kind = "ok" /\ shareSupply + ProvidedShares(value) \in U64
             /\ into.kind = "ok" =>
                  /\ into.receive = ProvidedShares(value)
                  /\ into.after = [collateral |-> collateral + value, reserved |-> reserved]
<1> DEFINE into == sellPreview(MarketNow, "provide", value, {WalletNow(u)})
           k == sharesForCollateral(value, collateral, shareSupply)
           s == ProvidedShares(value)
           shown == [kind |-> "ok", give |-> value, receive |-> k,
                     after |-> [collateral |-> collateral + value, reserved |-> reserved]]
<1>1. /\ cover # NoCover /\ collateral \in Nat /\ shareSupply \in Nat /\ value \in Nat
      /\ base["pvault"] = collateral /\ base[u] \in Nat /\ positions[u] \in Nat
      /\ positions[u] <= shareSupply /\ CoverInv
  BY MarketNumbers DEF U64
<1>2. into = IF value <= 0 THEN Refused("zero")
             ELSE IF value > base[u] THEN Refused("wallet")
             ELSE IF Throws(k) THEN Refused("waterfall")
             ELSE IF k = 0 THEN Refused("rounds to zero") ELSE shown
  <2>1. (\E wallet \in {WalletNow(u)} : value > wallet.base) <=> value > base[u]
    BY WalletDrawn
  <2> QED
    BY <2>1, MarketDrawn DEF sellPreview, providePreview
<1>3. \A r : Refused(r).kind # "ok"
  BY DEF Refused
<1>4. /\ ~Throws(k) /\ k # 0 <=> s # 0 /\ s \in U64
      /\ s # 0 /\ s \in U64 => k = s
  BY <1>1, CollateralMirrored DEF ProvidedShares
<1>5. PaidToMarket(u, value) \in TokenAccounts <=> value <= base[u]
  <2>1. /\ base \in [Accounts -> Nat] /\ Total(base, Accounts) \in U64
        /\ u \in Accounts /\ "pvault" \in Accounts /\ u # "pvault"
    BY ChainFacts, AccountsApart, TokensAreNatural DEF PoolTypeOK, TokenAccounts, Conserved
  <2>2. value <= base[u] => PaidToMarket(u, value) \in TokenAccounts
    BY <1>1, <2>1, TransferFits DEF PaidToMarket
  <2>3. PaidToMarket(u, value)[u] = base[u] - value
    BY <2>1 DEF PaidToMarket
  <2>4. PaidToMarket(u, value) \in TokenAccounts => PaidToMarket(u, value)[u] \in Nat
    BY <2>1, TokensAreNatural
  <2> QED
    BY <1>1, <2>2, <2>3, <2>4
<1>6. PaidToMarket(u, value) \in TokenAccounts => collateral + value \in U64
  <2>1. base \in [Accounts -> U64] /\ "pvault" \in Accounts /\ u # "pvault"
    BY ChainFacts, AccountsApart DEF PoolTypeOK, TokenAccounts
  <2>2. PaidToMarket(u, value)["pvault"] = collateral + value
    BY <1>1, <2>1 DEF PaidToMarket
  <2> QED
    BY <2>1, <2>2 DEF TokenAccounts
<1>7. s \in Nat
  <2>1. shareSupply = 0 => collateral = 0
    BY <1>1 DEF CoverInv, NoSharesNoCollateral
  <2> QED
    BY <1>1, <2>1, DepositKeepsPrice DEF ProvidedShares, SharesForCollateral
<1>8. shareSupply + s \in U64 => ProvidedPositions(u, value) \in SellerPositions /\ s \in U64
  <2> SUFFICES ASSUME shareSupply + s \in U64
               PROVE  ProvidedPositions(u, value) \in SellerPositions /\ s \in U64
    OBVIOUS
  <2> HIDE DEF s
  <2>1. positions[u] + s \in U64 /\ s \in U64
    BY <1>1, <1>7, ScaleAssumption DEF U64
  <2>2. positions \in [Users -> U64]
    BY <1>1 DEF CoverInv, CoverTypeOK, SellerPositions
  <2> QED
    BY <2>1, <2>2 DEF ProvidedPositions, SellerPositions, s
<1>9. /\ value <= 0 <=> ~(value > 0)
      /\ value > base[u] <=> ~(value <= base[u])
      /\ s > 0 <=> s # 0
  BY <1>1, <1>7
<1>10. ProvideAccepts(u, value) <=>
         /\ value > 0 /\ s > 0 /\ shareSupply + s \in U64
         /\ ProvidedPositions(u, value) \in SellerPositions
         /\ PaidToMarket(u, value) \in TokenAccounts /\ collateral + value \in U64
  BY <1>1 DEF ProvideAccepts
<1>11. /\ shown.kind = "ok" /\ shown.receive = k
       /\ shown.after = [collateral |-> collateral + value, reserved |-> reserved]
  OBVIOUS
<1> HIDE DEF into, k, s, shown
<1>12. /\ into.kind = "ok" <=> value > 0 /\ value <= base[u] /\ ~Throws(k) /\ k # 0
       /\ into.kind = "ok" => into = shown
  BY <1>2, <1>3, <1>9, <1>11, Zenon
<1>13. ProvideAccepts(u, value) <=> into.kind = "ok" /\ shareSupply + s \in U64
  BY <1>4, <1>5, <1>6, <1>8, <1>9, <1>10, <1>12, Zenon
<1>14. into.kind = "ok" =>
         /\ into.receive = s
         /\ into.after = [collateral |-> collateral + value, reserved |-> reserved]
  BY <1>4, <1>11, <1>12
<1> QED
  BY <1>13, <1>14 DEF into, s

LEMMA WithdrawPreviewed ==
  ASSUME ChainInv, NEW u \in Users, NEW value \in U64
  PROVE  LET out == sellPreview(MarketNow, "withdraw", value, {WalletNow(u)})
         IN  /\ WithdrawAccepts(u, value) <=> out.kind = "ok"
             /\ out.kind = "ok" =>
                  /\ out.receive = Withdrawn(value)
                  /\ out.after = [collateral |-> collateral - Withdrawn(value), reserved |-> reserved]
             /\ value <= positions[u] /\ (value <= shareSupply => Withdrawn(value) <= Free) =>
                  out.kind = "ok" \/ out.reason \in {"zero", "rounds to zero", "waterfall"}
<1> DEFINE out == sellPreview(MarketNow, "withdraw", value, {WalletNow(u)})
           k == collateralForShares(value, collateral, shareSupply)
           a == Withdrawn(value)
           shown == [kind |-> "ok", give |-> value, receive |-> k,
                     after |-> [collateral |-> collateral - k, reserved |-> reserved]]
<1>1. /\ cover # NoCover /\ collateral \in Nat /\ collateral \in U64 /\ shareSupply \in Nat
      /\ value \in Nat
      /\ Free \in Nat /\ Free <= collateral
      /\ positions[u] \in Nat /\ positions[u] <= shareSupply /\ CoverInv /\ Conserved
  BY MarketNumbers DEF U64
<1>2. out = IF value <= 0 THEN Refused("zero")
            ELSE IF value > positions[u] THEN Refused("wallet")
            ELSE IF Throws(k) THEN Refused("waterfall")
            ELSE IF k = 0 THEN Refused("rounds to zero")
            ELSE IF k > Free THEN Refused("reserved") ELSE shown
  <2>1. (\E wallet \in {WalletNow(u)} : value > wallet.sellerShares) <=> value > positions[u]
    BY WalletDrawn
  <2> QED
    BY <2>1, MarketDrawn DEF sellPreview, withdrawPreview
<1>3. \A r : Refused(r).kind # "ok" /\ Refused(r).reason = r
  BY DEF Refused
<1>4. /\ ~Throws(k) /\ k # 0 <=> value <= shareSupply /\ a # 0 /\ a \in U64
      /\ value <= shareSupply /\ a # 0 /\ a \in U64 => k = a
  BY <1>1, CollateralMirrored DEF Withdrawn
<1>5. value <= shareSupply => a \in Nat /\ a <= collateral /\ a \in U64
  <2> SUFFICES ASSUME value <= shareSupply PROVE a \in Nat /\ a <= collateral /\ a \in U64
    OBVIOUS
  <2>1. a \in 0 .. collateral
    BY <1>1, RedeemKeepsPrice DEF Withdrawn, CollateralForShares
  <2> HIDE DEF a
  <2> QED
    BY <1>1, <2>1, ScaleAssumption DEF U64
<1>6. value <= shareSupply => PaidFromMarket(u, a) \in TokenAccounts
  BY <1>1, <1>5, MarketCanPay
<1>7. /\ value <= 0 <=> ~(value > 0)
      /\ value > positions[u] <=> ~(value <= positions[u])
      /\ value <= positions[u] => value <= shareSupply
      /\ value <= shareSupply => (a > 0 <=> a # 0)
      /\ value <= shareSupply => (a > Free <=> ~(a <= Free))
  BY <1>1, <1>5
<1>8. WithdrawAccepts(u, value) <=>
         /\ value > 0 /\ value <= positions[u] /\ value <= shareSupply /\ a > 0 /\ a <= Free
         /\ PaidFromMarket(u, a) \in TokenAccounts
  BY <1>1 DEF WithdrawAccepts
<1>9. /\ shown.kind = "ok" /\ shown.receive = k
      /\ shown.after = [collateral |-> collateral - k, reserved |-> reserved]
  OBVIOUS
<1> HIDE DEF out, k, a, shown
<1>10. /\ out.kind = "ok" <=> value > 0 /\ value <= positions[u] /\ ~Throws(k) /\ k # 0 /\ ~(k > Free)
       /\ out.kind = "ok" => out = shown
  BY <1>2, <1>3, <1>7, <1>9, Zenon
<1>11. WithdrawAccepts(u, value) <=> out.kind = "ok"
  BY <1>4, <1>5, <1>6, <1>7, <1>8, <1>10, Zenon
<1>12. out.kind = "ok" =>
         /\ out.receive = a
         /\ out.after = [collateral |-> collateral - a, reserved |-> reserved]
  BY <1>4, <1>9, <1>10
<1>13. ASSUME value <= positions[u], value <= shareSupply => a <= Free
       PROVE  out.kind = "ok" \/ out.reason \in {"zero", "rounds to zero", "waterfall"}
  <2>1. ~(a > Free) /\ value <= shareSupply
    BY <1>7, <1>13
  <2>2. CASE Throws(k) \/ k = 0 \/ value <= 0
    BY <1>2, <1>3, <1>7, <1>13, <2>2
  <2>3. CASE ~Throws(k) /\ k # 0 /\ ~(value <= 0)
    BY <1>4, <1>7, <1>10, <1>13, <2>1, <2>3
  <2> QED
    BY <2>2, <2>3
<1> QED
  BY <1>11, <1>12, <1>13 DEF out, a

(* The model time a page projects is the one an instruction finds.         *)
LEMMA ProjectedNow ==
  ASSUME ChainInv
  PROVE  /\ projectedModelTime(PoolNow, clock) = modelTime + DtModel
         /\ modelTime \in Nat /\ DtModel \in Nat /\ modelTime + DtModel \in Nat
<1>1. /\ PoolNow.modelTime = modelTime /\ PoolNow.lastAccruedTs = lastAccrued
      /\ PoolNow.params.timeScale = pool.params.time_scale
  BY DrawnFields DEF PoolNow
<1>2. /\ clock \in Nat /\ lastAccrued \in Nat /\ modelTime \in Nat /\ pool # NoPool
      /\ pool.params.time_scale \in Nat
  BY ChainFacts, PoolIsRecord DEF PoolTypeOK, U64, Founded
<1>3. Timestamp - lastAccrued = IF clock > lastAccrued THEN clock - lastAccrued ELSE 0
  BY <1>2 DEF Timestamp
<1>4. DtModel \in Nat
  <2>1. Timestamp - lastAccrued \in Nat
    BY <1>2, <1>3
  <2> QED
    BY <1>2, <2>1 DEF DtModel
<1>5. projectedModelTime(PoolNow, clock) = modelTime + DtModel
  BY <1>1, <1>3 DEF projectedModelTime, DtModel
<1> QED
  BY <1>2, <1>4, <1>5

LEMMA PriceIs ==
  ASSUME ChainInv, NEW notional \in U64, NEW term \in Nat
  PROVE  /\ Price(notional, term) \in Nat
         /\ PriceFee(notional, term) \in 0 .. Price(notional, term)
         /\ PriceNet(notional, term) \in 0 .. Price(notional, term)
<1>1. cover.premium_rate_bps \in Nat /\ cover.premium_fee_bps \in 0 .. BPS /\ notional \in Nat
  BY MarketNumbers DEF U64
<1>2. Price(notional, term) \in Nat
  BY <1>1, ProRataNatural DEF Price, Premium
<1>3. PriceFee(notional, term) \in 0 .. Price(notional, term)
  BY <1>1, <1>2, MulBpsIsPart DEF PriceFee, PremiumFee
<1> QED
  BY <1>2, <1>3 DEF PriceNet

(* The premium leaves the buyer; the fee of it goes on to the treasury.    *)
LEMMA BuyerPays ==
  ASSUME ChainInv, AccrualFits, NEW u \in Users, NEW notional \in U64, NEW term \in Nat
  PROVE  /\ BoughtBase(u, notional, term) \in TokenAccounts <=> Price(notional, term) <= base[u]
         /\ BoughtBase(u, notional, term) \in TokenAccounts =>
              collateral + PriceNet(notional, term) \in U64
<1> DEFINE P == Price(notional, term)
           F == PriceFee(notional, term)
           b1 == [AccruedBase EXCEPT ![u] = @ - P, !["pvault"] = @ + P]
           b2 == [b1 EXCEPT !["pvault"] = @ - F, !["treasury"] = @ + F]
           bb == BoughtBase(u, notional, term)
<1>1. P \in Nat /\ F \in 0 .. P /\ PriceNet(notional, term) = P - F
  BY PriceIs DEF PriceNet
<1>2. /\ AccruedBase \in [Accounts -> Nat] /\ Total(AccruedBase, Accounts) \in U64
      /\ AccruedBase[u] = base[u] /\ base[u] \in Nat
      /\ AccruedBase["pvault"] = collateral /\ AccruedBase["pvault"] \in Nat
      /\ AccruedBase["treasury"] \in Nat
      /\ {u, "pvault", "treasury"} \subseteq Accounts
      /\ u # "pvault" /\ u # "treasury"
  <2>1. /\ {u, "pvault", "treasury"} \subseteq Accounts
        /\ u # "pvault" /\ u # "treasury"
    BY AccountsApart
  <2>2. AccruedBase["pvault"] = collateral
    BY MarketNumbers, AccrualSparesOthers
  <2> QED
    BY AccruedTokens, <2>1, <2>2
<1>3. b1 \in TokenAccounts <=> P <= base[u]
  BY <1>1, WalletPays
<1>4. /\ bb[u] = base[u] - P
      /\ bb["pvault"] = collateral + PriceNet(notional, term)
      /\ bb["treasury"] = AccruedBase["treasury"] + F
      /\ DOMAIN bb = Accounts /\ bb = [a \in Accounts |-> bb[a]]
      /\ \A a \in Accounts \ {u, "pvault", "treasury"} : bb[a] = AccruedBase[a]
  BY <1>2 DEF BoughtBase
<1>5. /\ b1[u] = base[u] - P /\ b1["pvault"] = collateral + P
      /\ b1["treasury"] = AccruedBase["treasury"]
      /\ DOMAIN b1 = Accounts
      /\ \A a \in Accounts \ {u, "pvault", "treasury"} : b1[a] = AccruedBase[a]
  BY <1>2
<1>6. /\ b2[u] = b1[u] /\ b2["pvault"] = b1["pvault"] - F
      /\ b2["treasury"] = b1["treasury"] + F
      /\ DOMAIN b2 = Accounts /\ b2 = [a \in Accounts |-> b2[a]]
      /\ \A a \in Accounts \ {u, "pvault", "treasury"} : b2[a] = b1[a]
  BY <1>2, <1>5
<1> HIDE DEF P, F, bb, b1, b2
<1>7. collateral + P - F = collateral + (P - F)
  BY <1>1, <1>2
<1>8. bb = b2
  <2>1. \A a \in Accounts : bb[a] = b2[a]
    BY <1>1, <1>2, <1>4, <1>5, <1>6, <1>7
  <2> QED
    BY <1>4, <1>6, <2>1
<1>9. P <= base[u] => bb \in TokenAccounts
  <2> SUFFICES ASSUME P <= base[u] PROVE b2 \in TokenAccounts
    BY <1>8
  <2>1. b1 \in TokenAccounts /\ b1 \in [Accounts -> Nat]
    BY <1>3, TokensAreNatural DEF TokenAccounts
  <2>2. Total(b1, Accounts) = Total(AccruedBase, Accounts)
    <3>1. DOMAIN AccruedBase = Accounts /\ \A a \in Accounts : AccruedBase[a] \in Nat
      BY <1>2
    <3>2. /\ b1[u] = AccruedBase[u] - P /\ b1["pvault"] = AccruedBase["pvault"] + P
          /\ \A a \in Accounts : a # u /\ a # "pvault" => b1[a] = AccruedBase[a]
      BY <1>2, <1>5
    <3>3. u \in Accounts /\ "pvault" \in Accounts /\ u # "pvault" /\ P \in Int
      BY <1>1, <1>2
    <3> QED
      BY <2>1, <3>1, <3>2, <3>3, MoveConserves
  <2>3. F \in Nat /\ F <= b1["pvault"]
    BY <1>1, <1>2, <1>5
  <2>4. [b1 EXCEPT !["pvault"] = @ - F, !["treasury"] = @ + F] \in TokenAccounts
    BY <1>2, <2>1, <2>2, <2>3, TransferFits
  <2> QED
    BY <2>4 DEF b2
<1>10. bb \in TokenAccounts => P <= base[u] /\ bb["pvault"] \in U64
  <2> SUFFICES ASSUME bb \in TokenAccounts PROVE P <= base[u] /\ bb["pvault"] \in U64
    OBVIOUS
  <2>1. bb[u] \in U64 /\ bb["pvault"] \in U64
    BY <1>2 DEF TokenAccounts
  <2> QED
    BY <1>1, <1>2, <1>4, <2>1 DEF U64
<1> QED
  BY <1>4, <1>9, <1>10 DEF P, bb

(* What the program asks of a purchase at a free number.                   *)
LEMMA BuyIsAccepted ==
  ASSUME ChainInv, AccrualFits, NEW u \in Users, NEW notional \in U64 \ {0},
         NEW term \in Nat \ {0}, term <= MaxTerm, CanBeNumbered(notional, term),
         NEW n, <<u, n>> \notin DOMAIN contracts
  PROVE  BuyAccepts(u, notional, term, n)
           <=> /\ notional <= Free
               /\ Price(notional, term) > 0 \/ cover.premium_rate_bps = 0
               /\ Price(notional, term) \in U64
               /\ Price(notional, term) <= base[u]
<1>1. /\ cover # NoCover /\ pool # NoPool /\ Free \in Nat /\ Free <= collateral
      /\ collateral \in U64 /\ reserved \in Nat /\ notional \in Nat /\ notional > 0
      /\ collateral \in Nat
  BY MarketNumbers DEF U64
<1>2. notional <= Free => reserved + notional \in U64
  BY <1>1, ScaleAssumption DEF Free, U64
<1>3. Bought(notional, term).expiry_model_time \in U64 /\ bought + 1 \in U64
  BY DEF CanBeNumbered
<1>4. /\ BoughtBase(u, notional, term) \in TokenAccounts <=> Price(notional, term) <= base[u]
      /\ BoughtBase(u, notional, term) \in TokenAccounts =>
           collateral + PriceNet(notional, term) \in U64
  BY BuyerPays
<1>5. Free >= 0 /\ term > 0 /\ term <= MaxTerm
  BY <1>1
<1> QED
  BY <1>1, <1>2, <1>3, <1>4, <1>5 DEF BuyAccepts

(* What the desk asks of it, from views of any moment with these rates.    *)
LEMMA QuoteIs ==
  ASSUME ChainInv, NEW m, NEW w, NEW mt, NEW notional \in U64, NEW days \in Nat,
         m.params.premiumRateBps = cover.premium_rate_bps,
         m.params.premiumFeeBps = cover.premium_fee_bps,
         m.free \in Int, w.base \in Nat
  PROVE  LET term == days * DAY_SECONDS
             buy == premiumPreview(m, mt, notional, days, {w})
         IN  /\ buy.kind = "ok" <=>
                  /\ notional <= m.free
                  /\ Price(notional, term) > 0 \/ cover.premium_rate_bps = 0
                  /\ Price(notional, term) \in U64
                  /\ Price(notional, term) <= w.base
             /\ buy.kind = "ok" =>
                  /\ buy.premium = Price(notional, term)
                  /\ buy.expiryModelTime = mt + term
                  /\ m.collateral \in Int =>
                       buy.after = [collateral |-> m.collateral + PriceNet(notional, term),
                                    reserved |-> m.reserved + notional]
<1> DEFINE term == days * DAY_SECONDS
           P == Price(notional, term)
           paid == premium(notional, m.params.premiumRateBps, term)
           fee == premiumFee(paid, m.params.premiumFeeBps)
           buy == premiumPreview(m, mt, notional, days, {w})
           shown == [kind |-> "ok", premium |-> paid, fee |-> fee, net |-> paid - fee,
                     term |-> term, expiryModelTime |-> mt + term,
                     after |-> [collateral |-> m.collateral + paid - fee,
                                reserved |-> m.reserved + notional]]
<1>1. term \in Nat
  BY DayAssumption
<1> HIDE DEF term
<1>2. /\ P \in Nat /\ PriceFee(notional, term) \in 0 .. P
      /\ PriceNet(notional, term) = P - PriceFee(notional, term)
  BY <1>1, PriceIs DEF PriceNet
<1>3. paid = toU64(P)
  BY PartsMirrored DEF Price
<1>4. (\E wallet \in {w} : paid > wallet.base) <=> paid > w.base
  OBVIOUS
<1>5. buy = IF notional > m.free THEN Refused("free collateral")
            ELSE IF Throws(paid) THEN Refused("too large")
            ELSE IF paid = 0 /\ cover.premium_rate_bps > 0 THEN Refused("rounds to zero")
            ELSE IF paid > w.base THEN Refused("wallet") ELSE shown
  BY <1>4 DEF premiumPreview, term
<1>6. \A r : Refused(r).kind # "ok"
  BY DEF Refused
<1>7. /\ ~Throws(paid) <=> P \in U64
      /\ P \in U64 => paid = P
  BY <1>3, ToU64
<1>8. /\ shown.kind = "ok" /\ shown.premium = paid /\ shown.expiryModelTime = mt + term
      /\ shown.after = [collateral |-> m.collateral + paid - fee, reserved |-> m.reserved + notional]
  OBVIOUS
<1>9. notional \in Nat /\ cover.premium_rate_bps \in Nat
  BY MarketNumbers DEF U64
<1>10. P \in U64 => fee = PriceFee(notional, term)
  <2> SUFFICES ASSUME P \in U64 PROVE fee = PriceFee(notional, term)
    OBVIOUS
  <2>1. fee = toU64(PriceFee(notional, term))
    BY <1>7, PartsMirrored DEF PriceFee
  <2>2. PriceFee(notional, term) \in U64
    <3> HIDE DEF P
    <3> QED
      BY <1>2, ScaleAssumption DEF U64
  <2> QED
    BY <2>1, <2>2, ToU64
<1> HIDE DEF P, paid, fee, buy, shown
<1>11. /\ notional > m.free <=> ~(notional <= m.free)
       /\ P \in U64 => (paid = 0 /\ cover.premium_rate_bps > 0 <=> ~(P > 0 \/ cover.premium_rate_bps = 0))
       /\ P \in U64 => (paid > w.base <=> ~(P <= w.base))
  BY <1>2, <1>7, <1>9
<1>12. /\ buy.kind = "ok" <=> /\ notional <= m.free /\ P \in U64
                              /\ P > 0 \/ cover.premium_rate_bps = 0
                              /\ P <= w.base
       /\ buy.kind = "ok" => buy = shown
  BY <1>5, <1>6, <1>7, <1>8, <1>11, Zenon
<1>13. buy.kind = "ok" => /\ buy.premium = P /\ buy.expiryModelTime = mt + term
  BY <1>7, <1>8, <1>12
<1>14. buy.kind = "ok" /\ m.collateral \in Int =>
         buy.after = [collateral |-> m.collateral + PriceNet(notional, term),
                      reserved |-> m.reserved + notional]
  <2> SUFFICES ASSUME buy.kind = "ok", m.collateral \in Int
               PROVE  m.collateral + paid - fee = m.collateral + PriceNet(notional, term)
    BY <1>8, <1>12
  <2> QED
    BY <1>2, <1>7, <1>10, <1>12
<1> QED
  BY <1>12, <1>13, <1>14 DEF term, P, buy

LEMMA TermsOffered ==
  ASSUME NEW days \in TermDays
  PROVE  /\ days \in Nat \ {0} /\ days * DAY_SECONDS \in Nat \ {0}
         /\ days * DAY_SECONDS <= MaxTerm
<1>1. days \in Nat \ {0} /\ days * DAY_SECONDS \in 0 .. MaxTerm
  BY DeskAssumption
<1> QED
  BY <1>1, DayAssumption

LEMMA BuyPreviewed ==
  ASSUME ChainInv, NEW u \in Users, NEW notional \in U64 \ {0}, NEW days \in TermDays
  PROVE  LET term == days * DAY_SECONDS
             buy == premiumPreview(MarketNow, modelTime + DtModel, notional, days, {WalletNow(u)})
         IN  /\ BuyAccepts(u, notional, term, bought)
                  <=> buy.kind = "ok" /\ AccrualFits /\ CanBeNumbered(notional, term)
             /\ buy.kind = "ok" =>
                  /\ buy.premium = Price(notional, term)
                  /\ buy.expiryModelTime = Bought(notional, term).expiry_model_time
                  /\ buy.after = [collateral |-> collateral + PriceNet(notional, term),
                                  reserved |-> reserved + notional]
<1> DEFINE term == days * DAY_SECONDS
           buy == premiumPreview(MarketNow, modelTime + DtModel, notional, days, {WalletNow(u)})
<1>1. term \in Nat \ {0} /\ term <= MaxTerm /\ days \in Nat
  BY TermsOffered
<1>2. /\ MarketNow.free \in Int /\ WalletNow(u).base \in Nat /\ MarketNow.collateral \in Int
      /\ WalletNow(u).base = base[u] /\ MarketNow.free = Free
      /\ MarketNow.collateral = collateral /\ MarketNow.reserved = reserved
      /\ MarketNow.params.premiumRateBps = cover.premium_rate_bps
      /\ MarketNow.params.premiumFeeBps = cover.premium_fee_bps
  <2>1. Free \in Int /\ collateral \in Int /\ base[u] \in Nat
    BY MarketNumbers
  <2>2. WalletNow(u).base = base[u]
    BY WalletDrawn
  <2> QED
    BY <2>1, <2>2, MarketDrawn
<1>3. notional \in U64
  OBVIOUS
<1>4. /\ buy.kind = "ok" <=>
           /\ notional <= Free
           /\ Price(notional, term) > 0 \/ cover.premium_rate_bps = 0
           /\ Price(notional, term) \in U64
           /\ Price(notional, term) <= base[u]
      /\ buy.kind = "ok" =>
           /\ buy.premium = Price(notional, term)
           /\ buy.expiryModelTime = modelTime + DtModel + term
           /\ buy.after = [collateral |-> collateral + PriceNet(notional, term),
                           reserved |-> reserved + notional]
  BY <1>1, <1>2, <1>3, QuoteIs
<1>5. <<u, bought>> \notin DOMAIN contracts
  <2> SUFFICES ASSUME <<u, bought>> \in DOMAIN contracts PROVE FALSE
    OBVIOUS
  <2>1. bought < bought /\ bought \in Nat
    BY MarketNumbers, ChainFacts DEF Numbered
  <2> QED
    BY <2>1
<1>6. BuyAccepts(u, notional, term, bought) => AccrualFits /\ CanBeNumbered(notional, term)
  BY DEF BuyAccepts, CanBeNumbered
<1>7. Bought(notional, term).expiry_model_time = modelTime + DtModel + term
  BY DEF Bought, NewContract
<1> HIDE DEF term, buy
<1>8. AccrualFits /\ CanBeNumbered(notional, term) =>
        (BuyAccepts(u, notional, term, bought) <=> buy.kind = "ok")
  BY <1>1, <1>4, <1>5, BuyIsAccepted
<1> QED
  BY <1>4, <1>6, <1>7, <1>8 DEF term, buy

(* What "max" fills in: as many shares as the wallet has and the free      *)
(* collateral pays for.                                                    *)
LEMMA MaxLeaves ==
  ASSUME ChainInv, NEW u \in Users
  PROVE  LET max == maxWithdrawShares(MarketNow, positions[u])
             out == sellPreview(MarketNow, "withdraw", max, {WalletNow(u)})
         IN  out.kind = "ok" \/ out.reason \in {"zero", "rounds to zero", "waterfall"}
<1> DEFINE max == maxWithdrawShares(MarketNow, positions[u])
           q == (Free * shareSupply) \div collateral
<1>1. /\ collateral \in Nat /\ shareSupply \in Nat /\ shareSupply \in U64
      /\ Free \in Nat /\ positions[u] \in Nat /\ positions[u] <= shareSupply
  BY MarketNumbers
<1>2. max = IF collateral = 0 \/ shareSupply = 0 THEN 0 ELSE min(positions[u], q)
  BY MarketDrawn DEF maxWithdrawShares
<1>3. Free * shareSupply \in Nat
  BY <1>1
<1>4. collateral # 0 => q \in Nat /\ q * collateral <= Free * shareSupply
  BY <1>1, <1>3, QuotientBounds
<1> HIDE DEF q, max
<1>5. /\ max \in Nat /\ max <= positions[u]
      /\ collateral # 0 /\ max # 0 => max <= q
  BY <1>1, <1>2, <1>4 DEF min
<1>6. max \in U64
  BY <1>1, <1>5, ScaleAssumption DEF U64
<1>7. Withdrawn(max) <= Free
  <2>1. CASE shareSupply = 0
    BY <1>1, <2>1 DEF Withdrawn, CollateralForShares, AmountForRedeem
  <2>2. CASE shareSupply # 0
    <3>1. max * collateral \in Nat
      BY <1>1, <1>5
    <3>2. max * collateral <= Free * shareSupply
      <4>1. CASE collateral = 0 \/ max = 0
        <5>1. max * collateral = 0
          BY <1>1, <1>5, <4>1
        <5> QED
          BY <1>3, <5>1
      <4>2. CASE collateral # 0 /\ max # 0
        <5>1. max * collateral <= q * collateral
          BY <1>1, <1>4, <1>5, <4>2, ProductBelow
        <5>2. q * collateral \in Nat
          BY <1>1, <1>4, <4>2
        <5> QED
          BY <1>3, <1>4, <3>1, <4>2, <5>1, <5>2
      <4> QED
        BY <4>1, <4>2
    <3>3. (max * collateral) \div shareSupply <= Free
      BY <1>1, <2>2, <3>1, <3>2, QuotientBelow
    <3> QED
      BY <2>2, <3>3 DEF Withdrawn, CollateralForShares, AmountForRedeem
  <2> QED
    BY <2>1, <2>2
<1> QED
  BY <1>5, <1>6, <1>7, WithdrawPreviewed DEF max

-----------------------------------------------------------------------------
(* The forecast of the position sheet.                                     *)

LEMMA GreatestOf ==
  ASSUME NEW S, NEW n \in Nat, S \subseteq 0 .. n, 0 \in S
  PROVE  LET m == CHOOSE p \in S : \A q \in S : q <= p
         IN  m \in S /\ \A q \in S : q <= m
<1> DEFINE left == {n - p : p \in S}
           below == OpToRel(<, Nat)
<1>1. left \subseteq Nat /\ n \in left
  OBVIOUS
<1>0. IsWellFoundedOn(below, Nat)
  BY NatLessThanWellFounded
<1>2. \A x, y \in Nat : <<y, x>> \in below <=> y < x
  BY DEF OpToRel
<1> HIDE DEF below
<1>3. PICK l \in left : \A k \in left : l <= k
  <2> HIDE DEF left
  <2>1. PICK l \in left : \A k \in left : <<k, l>> \notin below
    BY <1>1, <1>0, WFMin
  <2>2. ASSUME NEW k \in left PROVE l <= k
    <3>1. k \in Nat /\ l \in Nat /\ ~(k < l)
      BY <1>1, <1>2, <2>1
    <3> QED
      BY <3>1
  <2> QED
    BY <2>2
<1>4. PICK p \in S : l = n - p
  BY <1>3
<1>5. \A q \in S : q <= p
  BY <1>3, <1>4
<1> QED
  BY <1>4, <1>5

(* The best claim of a contract on any list of losses: at most the         *)
(* notional, and no claim without the contract being open.                 *)
LEMMA BestClaimIs ==
  ASSUME NEW c, c.notional \in U64, NEW list,
         \A i \in DOMAIN list : list[i].lossBps \in Nat
  PROVE  bestClaim(c, list) \in 0 .. c.notional
<1> DEFINE paid == {settleContract(terms(c), list[i]) : i \in DOMAIN list}
           most == {0} \cup {p \in paid : ~Throws(p)}
<1>1. ASSUME NEW i \in DOMAIN list
      PROVE  LET p == settleContract(terms(c), list[i])
             IN  ~Throws(p) => p \in 0 .. c.notional
  <2> DEFINE p == settleContract(terms(c), list[i])
             a == payout(c.notional, list[i].lossBps)
  <2>1. p \in {ContractNotActive, LossOutsideTerm, LossBelowTrigger, ZeroAmount, a}
    BY DEF settleContract, terms
  <2>2. ~Throws(a) => a \in 0 .. c.notional
    <3>1. CASE list[i].lossBps > BPS
      BY <3>1 DEF payout, Throws, ParameterOutOfRange
    <3>2. CASE ~(list[i].lossBps > BPS)
      <4>1. list[i].lossBps \in 0 .. BPS /\ c.notional \in Nat
        BY <3>2, ScaleAssumption DEF U64
      <4>2. Payout(c.notional, list[i].lossBps) \in 0 .. c.notional
        BY <4>1, MulBpsIsPart DEF Payout
      <4>3. Payout(c.notional, list[i].lossBps) \in U64
        BY <4>1, <4>2, ScaleAssumption DEF U64
      <4> QED
        BY <3>2, <4>2, <4>3, ToU64, PartsMirrored
    <3> QED
      BY <3>1, <3>2
  <2>3. /\ Throws(ContractNotActive) /\ Throws(LossOutsideTerm) /\ Throws(LossBelowTrigger)
        /\ Throws(ZeroAmount)
    BY DEF Throws, ContractNotActive, LossOutsideTerm, LossBelowTrigger, ZeroAmount
  <2> HIDE DEF p, a
  <2>4. ~Throws(p) => p \in 0 .. c.notional
    BY <2>1, <2>2, <2>3
  <2> QED
    BY <2>4 DEF p
<1>2. c.notional \in Nat
  BY DEF U64
<1>3. most \subseteq 0 .. c.notional /\ 0 \in most
  BY <1>1, <1>2
<1>4. bestClaim(c, list) = CHOOSE p \in most : \A q \in most : q <= p
  BY DEF bestClaim
<1> HIDE DEF most
<1> QED
  BY <1>2, <1>3, <1>4, GreatestOf

(* The settlements of the list, one after the other, as a function of how  *)
(* many have been made.                                                    *)
SettleOne(state, c, withLoss) ==
  LET paid == bestClaim(c, withLoss)
  IN  IF c.status # "Active" \/ paid = 0 \/ \E f \in DOMAIN state : Throws(state[f])
      THEN state ELSE afterSettle(state, c.notional, paid)

Settling(m, list, withLoss, n, f) ==
  f = [i \in 0 .. n |-> IF i = 0 THEN [collateral |-> m.collateral, reserved |-> m.reserved]
                       ELSE SettleOne(f[i - 1], list[i], withLoss)]

LEMMA SettlingExists ==
  ASSUME NEW m, NEW list, NEW withLoss, NEW n \in Nat
  PROVE  \E f : Settling(m, list, withLoss, n, f)
<1> DEFINE S == {k \in Nat : \E f : Settling(m, list, withLoss, k, f)}
           first == [collateral |-> m.collateral, reserved |-> m.reserved]
<1>1. 0 \in S
  <2>1. Settling(m, list, withLoss, 0, [i \in 0 .. 0 |-> first])
    BY DEF Settling
  <2> QED
    BY <2>1
<1>2. ASSUME NEW k \in Nat, k \in S PROVE k + 1 \in S
  <2>1. PICK f : Settling(m, list, withLoss, k, f)
    BY <1>2
  <2> DEFINE g == [i \in 0 .. k + 1 |-> IF i = k + 1 THEN SettleOne(f[k], list[k + 1], withLoss)
                                        ELSE f[i]]
             h == [i \in 0 .. k + 1 |-> IF i = 0 THEN first
                                        ELSE SettleOne(g[i - 1], list[i], withLoss)]
  <2>2. ASSUME NEW i \in 0 .. k PROVE f[i] = IF i = 0 THEN first
                                            ELSE SettleOne(f[i - 1], list[i], withLoss)
    BY <2>1 DEF Settling
  <2>3. ASSUME NEW i \in 0 .. k + 1 PROVE g[i] = h[i]
    <3>1. CASE i = k + 1
      <4>1. g[k] = f[k] /\ i # 0 /\ i - 1 = k
        BY <3>1
      <4> QED
        BY <3>1, <4>1
    <3>2. CASE i # k + 1 /\ i # 0
      <4>1. i \in 0 .. k /\ i - 1 \in 0 .. k /\ i - 1 # k + 1
        BY <3>2
      <4>2. g[i - 1] = f[i - 1] /\ g[i] = f[i]
        BY <3>2, <4>1
      <4> QED
        BY <2>2, <3>2, <4>1, <4>2
    <3>3. CASE i = 0
      <4>1. g[0] = f[0] /\ f[0] = first
        BY <2>2
      <4> QED
        BY <3>3, <4>1
    <3> QED
      BY <3>1, <3>2, <3>3
  <2>4. g = h
    BY <2>3
  <2>5. Settling(m, list, withLoss, k + 1, g)
    BY <2>4 DEF Settling
  <2> QED
    BY <2>5
<1> HIDE DEF S
<1>3. Nat \subseteq S
  BY <1>1, <1>2, SetInduction
<1> QED
  BY <1>3 DEF S

LEMMA SellerRowIs ==
  ASSUME NEW m, NEW list, NEW withLoss, NEW shares, Len(list) \in Nat
  PROVE  \E f : /\ Settling(m, list, withLoss, Len(list), f)
                /\ LET last == f[Len(list)]
                   IN  sellerRow(shares, m, list, withLoss)
                       = Row(<<"seller">>, amountForShares(shares, m.collateral, m.shareSupply),
                             IF \E field \in DOMAIN last : Throws(last[field]) THEN Overflow
                             ELSE amountForShares(shares, last.collateral, m.shareSupply))
<1> DEFINE f == CHOOSE g : Settling(m, list, withLoss, Len(list), g)
<1>1. Settling(m, list, withLoss, Len(list), f)
  BY SettlingExists
<1>2. LET last == f[Len(list)]
      IN  sellerRow(shares, m, list, withLoss)
          = Row(<<"seller">>, amountForShares(shares, m.collateral, m.shareSupply),
                IF \E field \in DOMAIN last : Throws(last[field]) THEN Overflow
                ELSE amountForShares(shares, last.collateral, m.shareSupply))
  BY DEF sellerRow, Settling, SettleOne
<1> QED
  BY <1>1, <1>2

(* The list a page reads: every contract once.                             *)
LEMMA ContractDrawn ==
  ASSUME NEW key
  PROVE  LET v == ContractNow(key)
             c == contracts[key]
         IN  /\ v.address = key /\ v.buyer = key[1] /\ v.nonce = key[2]
             /\ v.notional = c.notional /\ v.premium = c.premium /\ v.status = c.status
             /\ v.expiryModelTime = c.expiry_model_time /\ v.triggerBps = c.trigger_bps
             /\ v.lossIndexFrom = c.loss_index_from
BY DEF ContractNow, contractView

LEMMA ContractsListed ==
  ASSUME ChainInv, NEW keys, keys \subseteq DOMAIN contracts
  PROVE  LET list == ContractsNow(keys)
         IN  /\ DOMAIN list = 1 .. Len(list) /\ Len(list) \in Nat
             /\ \A i \in DOMAIN list : \E key \in keys : list[i] = ContractNow(key)
             /\ \A key \in keys : \E i \in DOMAIN list : list[i] = ContractNow(key)
             /\ \A i, j \in DOMAIN list : i # j => list[i] # list[j]
<1> DEFINE V == {ContractNow(key) : key \in keys}
           list == InOrder(V)
<1>1. IsFiniteSet(DOMAIN contracts) /\ Numbered
  BY ChainFacts DEF SumsInv, ContractsAreFinite
<1>2. IsFiniteSet(V)
  <2> DEFINE views == [key \in keys |-> ContractNow(key)]
  <2>1. IsFiniteSet(keys)
    BY <1>1, FS_Subset
  <2>2. views \in Surjection(keys, V)
    <3>1. views \in [keys -> V] /\ \A v \in V : \E key \in keys : views[key] = v
      OBVIOUS
    <3> HIDE DEF views, V
    <3> QED
      BY <3>1 DEF Surjection
  <2> QED
    BY <2>1, <2>2, FS_Surjection
<1>3. ASSUME NEW v \in V PROVE v.nonce \in Nat
  <2>1. PICK key \in keys : v = ContractNow(key)
    OBVIOUS
  <2>2. key[2] \in Nat
    BY <1>1 DEF Numbered
  <2> QED
    BY <2>1, <2>2, ContractDrawn
<1>4. ASSUME NEW u \in V, NEW v \in V, u.nonce = v.nonce PROVE u = v
  <2>1. PICK j \in keys : u = ContractNow(j)
    OBVIOUS
  <2>2. PICK k \in keys : v = ContractNow(k)
    OBVIOUS
  <2>3. j[2] = k[2]
    BY <1>4, <2>1, <2>2, ContractDrawn
  <2>4. j = k
    BY <1>1, <2>3 DEF Numbered
  <2> QED
    BY <2>1, <2>2, <2>4
<1>5. /\ DOMAIN list = 1 .. Cardinality(V) /\ V = {list[i] : i \in DOMAIN list}
      /\ list \in [1 .. Cardinality(V) -> V]
      /\ \A i, j \in DOMAIN list : i < j => list[i].nonce < list[j].nonce
  <2> HIDE DEF V
  <2> QED
    BY <1>2, <1>3, <1>4, InOrderIs
<1>6. Cardinality(V) \in Nat
  BY <1>2, FS_CardinalityType
<1>7. Len(list) = Cardinality(V)
  <2> HIDE DEF V, list
  <2>1. list \in Seq(V)
    BY <1>5, <1>6
  <2> QED
    BY <1>5, <1>6, <2>1
<1>8. ContractsNow(keys) = list
  BY DEF ContractsNow
<1>9. \A i, j \in DOMAIN list : i # j => list[i] # list[j]
  <2> HIDE DEF list
  <2>1. ASSUME NEW i \in DOMAIN list, NEW j \in DOMAIN list, i < j PROVE list[i] # list[j]
    <3>1. list[i].nonce < list[j].nonce /\ list[i] \in V /\ list[j] \in V
      BY <1>5, <2>1
    <3>2. list[i].nonce \in Nat
      BY <1>3, <3>1
    <3>3. ASSUME list[i] = list[j] PROVE FALSE
      BY <3>1, <3>2, <3>3
    <3> QED
      BY <3>3
  <2>2. ASSUME NEW i \in DOMAIN list, NEW j \in DOMAIN list, i # j PROVE list[i] # list[j]
    <3>1. i < j \/ j < i
      BY <1>5, <1>6, <2>2
    <3> QED
      BY <2>1, <3>1
  <2> QED
    BY <2>2
<1>10. \A i \in DOMAIN list : \E key \in keys : list[i] = ContractNow(key)
  <2> HIDE DEF list
  <2>1. \A i \in DOMAIN list : list[i] \in V
    BY <1>5
  <2> QED
    BY <2>1
<1>11. \A key \in keys : \E i \in DOMAIN list : list[i] = ContractNow(key)
  <2> HIDE DEF list
  <2>1. \A v \in V : \E i \in DOMAIN list : list[i] = v
    BY <1>5
  <2> QED
    BY <2>1
<1> HIDE DEF list
<1> QED
  BY <1>5, <1>6, <1>7, <1>8, <1>9, <1>10, <1>11

(* Settling every claim takes no more than is reserved for the contracts   *)
(* not settled yet, and so no more than there is.                          *)
LEMMA SettlementsFit ==
  ASSUME ChainInv, NEW withLoss, \A i \in DOMAIN withLoss : withLoss[i].lossBps \in Nat,
         NEW f,
         Settling(MarketNow, ContractsNow(DOMAIN contracts), withLoss,
                  Len(ContractsNow(DOMAIN contracts)), f)
  PROVE  LET last == f[Len(ContractsNow(DOMAIN contracts))]
         IN  /\ ~\E field \in DOMAIN last : Throws(last[field])
             /\ last.collateral \in Nat
<1> DEFINE list == ContractsNow(DOMAIN contracts)
           n == Len(list)
           Left(i) == {key \in ActiveContracts : \E j \in DOMAIN list : j > i /\ list[j] = ContractNow(key)}
           Good(s) == /\ s = [collateral |-> s.collateral, reserved |-> s.reserved]
                      /\ s.collateral \in U64 /\ s.reserved \in U64
                      /\ s.reserved <= s.collateral
           S == {i \in Nat : i <= n => Good(f[i]) /\ f[i].reserved >= Total(Notionals, Left(i))}
<1>1. /\ DOMAIN list = 1 .. n /\ n \in Nat
      /\ \A i \in DOMAIN list : \E key \in DOMAIN contracts : list[i] = ContractNow(key)
      /\ \A key \in DOMAIN contracts : \E i \in DOMAIN list : list[i] = ContractNow(key)
      /\ \A i, j \in DOMAIN list : i # j => list[i] # list[j]
  BY ContractsListed
<1> HIDE DEF list
<1>2. /\ IsFiniteSet(ActiveContracts) /\ ActiveContracts \subseteq DOMAIN contracts
      /\ \A k \in DOMAIN contracts : Notionals[k] = contracts[k].notional /\ Notionals[k] \in Nat
      /\ reserved = Total(Notionals, ActiveContracts)
  BY ChainFacts, OpenContracts DEF SumsInv, ReservedIsActive
<1>3. /\ collateral \in U64 /\ collateral \in Nat /\ reserved \in Nat /\ reserved <= collateral
      /\ reserved \in U64
  BY MarketNumbers, ScaleAssumption DEF U64
<1> HIDE DEF n
<1>4. \A i \in 0 .. n : f[i] = IF i = 0 THEN [collateral |-> collateral, reserved |-> reserved]
                              ELSE SettleOne(f[i - 1], list[i], withLoss)
  BY MarketDrawn DEF Settling, n, list
<1>5. 0 \in S
  <2>1. f[0] = [collateral |-> collateral, reserved |-> reserved]
    BY <1>1, <1>4
  <2>2. Left(0) = ActiveContracts
    <3>1. ASSUME NEW key \in ActiveContracts PROVE key \in Left(0)
      <4>1. PICK j \in DOMAIN list : list[j] = ContractNow(key)
        BY <1>1, <1>2
      <4>2. j > 0
        BY <1>1
      <4> QED
        BY <4>1, <4>2
    <3> QED
      BY <3>1
  <2>3. Good(f[0])
    BY <1>3, <2>1
  <2>4. f[0].reserved >= Total(Notionals, Left(0))
    <3> HIDE DEF Left
    <3> QED
      BY <1>2, <1>3, <2>1, <2>2
  <2> QED
    BY <2>3, <2>4
<1>6. \A s : Good(s) => ~\E field \in DOMAIN s : Throws(s[field])
  <2> SUFFICES ASSUME NEW s, Good(s) PROVE ~\E field \in DOMAIN s : Throws(s[field])
    OBVIOUS
  <2>1. DOMAIN s = {"collateral", "reserved"}
    OBVIOUS
  <2>2. ~Throws(s.collateral) /\ ~Throws(s.reserved)
    BY ToU64, FitsThrowsNot
  <2> QED
    BY <2>1, <2>2
<1> HIDE DEF Good
<1>7. ASSUME NEW i \in Nat, i \in S PROVE i + 1 \in S
  <2> SUFFICES ASSUME i + 1 <= n
               PROVE  Good(f[i + 1]) /\ f[i + 1].reserved >= Total(Notionals, Left(i + 1))
    OBVIOUS
  <2>1. /\ Good(f[i]) /\ f[i].reserved >= Total(Notionals, Left(i))
        /\ i + 1 \in DOMAIN list /\ i + 1 \in 0 .. n /\ i + 1 # 0 /\ (i + 1) - 1 = i
    BY <1>1, <1>7
  <2>2. f[i + 1] = SettleOne(f[i], list[i + 1], withLoss)
    BY <1>4, <2>1
  <2>3. PICK key \in DOMAIN contracts : list[i + 1] = ContractNow(key)
    BY <1>1, <2>1
  <2>4. /\ IsFiniteSet(Left(i)) /\ IsFiniteSet(Left(i + 1))
        /\ \A k \in Left(i) : Notionals[k] \in Nat
        /\ \A k \in Left(i + 1) : Notionals[k] \in Nat
    <3>1. Left(i) \in SUBSET ActiveContracts /\ Left(i + 1) \in SUBSET ActiveContracts
      OBVIOUS
    <3> QED
      BY <1>2, <3>1, FS_Subset
  <2>5. CASE contracts[key].status # "Active"
    <3>1. f[i + 1] = f[i]
      BY <2>2, <2>3, <2>5, ContractDrawn DEF SettleOne
    <3>2. Left(i + 1) = Left(i)
      <4>1. ASSUME NEW k \in Left(i) PROVE k \in Left(i + 1)
        <5>1. PICK j \in DOMAIN list : j > i /\ list[j] = ContractNow(k)
          OBVIOUS
        <5>2. k \in ActiveContracts /\ k # key
          BY <2>5 DEF ActiveContracts
        <5>3. j # i + 1
          BY <2>3, <5>1, <5>2, ContractDrawn
        <5>4. j > i + 1
          BY <1>1, <5>1, <5>3
        <5> QED
          BY <5>1, <5>2, <5>4
      <4>2. ASSUME NEW k \in Left(i + 1) PROVE k \in Left(i)
        <5>1. PICK j \in DOMAIN list : j > i + 1 /\ list[j] = ContractNow(k)
          OBVIOUS
        <5>2. j > i
          BY <1>1, <5>1
        <5> QED
          BY <5>1, <5>2
      <4> QED
        BY <4>1, <4>2
    <3> QED
      BY <2>1, <3>1, <3>2
  <2>6. CASE contracts[key].status = "Active"
    <3>1. key \in Left(i) /\ key \in ActiveContracts
      BY <1>1, <2>1, <2>3, <2>6 DEF ActiveContracts
    <3>2. Left(i + 1) = Left(i) \ {key}
      <4>1. ASSUME NEW k \in Left(i), k # key PROVE k \in Left(i + 1)
        <5>1. PICK j \in DOMAIN list : j > i /\ list[j] = ContractNow(k)
          OBVIOUS
        <5>3. j # i + 1
          BY <2>3, <4>1, <5>1, ContractDrawn
        <5>4. j > i + 1
          BY <1>1, <5>1, <5>3
        <5> QED
          BY <5>1, <5>4
      <4>2. ASSUME NEW k \in Left(i + 1) PROVE k \in Left(i) /\ k # key
        <5>1. PICK j \in DOMAIN list : j > i + 1 /\ list[j] = ContractNow(k)
          OBVIOUS
        <5>2. j > i /\ j # i + 1
          BY <1>1, <5>1
        <5>3. list[j] # list[i + 1]
          BY <1>1, <2>1, <5>2
        <5> QED
          BY <2>3, <5>1, <5>2, <5>3
      <4> QED
        BY <4>1, <4>2
    <3> HIDE DEF Left
    <3>3. /\ Total(Notionals, Left(i)) = Total(Notionals, Left(i + 1)) + contracts[key].notional
          /\ Total(Notionals, Left(i + 1)) \in Nat /\ contracts[key].notional \in Nat
      <4>1. Total(Notionals, Left(i)) = Total(Notionals, Left(i) \ {key}) + Notionals[key]
        BY <2>4, <3>1, TotalSplits
      <4>2. Total(Notionals, Left(i + 1)) \in Nat
        BY <2>4, TotalIsNatural
      <4>3. Notionals[key] = contracts[key].notional /\ contracts[key].notional \in Nat
        BY <1>2
      <4> QED
        BY <3>2, <4>1, <4>2, <4>3
    <3> DEFINE paid == bestClaim(list[i + 1], withLoss)
    <3>4. contracts[key].notional \in U64
      BY ChainFacts, ContractFields DEF Contract
    <3>5. paid \in 0 .. contracts[key].notional /\ list[i + 1].notional = contracts[key].notional
      BY <2>3, <3>4, BestClaimIs, ContractDrawn
    <3>6. f[i + 1] = IF paid = 0 THEN f[i] ELSE afterSettle(f[i], contracts[key].notional, paid)
      BY <1>6, <2>1, <2>2, <2>3, <2>6, <3>5, ContractDrawn DEF SettleOne
    <3> HIDE DEF paid
    <3>7. CASE paid = 0
      <4>1. f[i + 1] = f[i] /\ f[i].reserved \in Nat
        BY <2>1, <3>6, <3>7 DEF Good, U64
      <4> QED
        BY <2>1, <3>3, <4>1
    <3>8. CASE paid # 0
      <4> DEFINE c == f[i].collateral - paid
                 r == f[i].reserved - contracts[key].notional
      <4>1. /\ f[i].collateral \in Nat /\ f[i].reserved \in Nat
            /\ f[i].collateral \in U64 /\ f[i].reserved \in U64
            /\ f[i].reserved <= f[i].collateral
        BY <2>1 DEF Good, U64
      <4>2. c \in U64 /\ r \in U64 /\ r <= c /\ r >= Total(Notionals, Left(i + 1))
        <5>1. /\ f[i].reserved >= Total(Notionals, Left(i)) /\ paid \in Nat
              /\ paid <= contracts[key].notional
          BY <2>1, <3>3, <3>5
        <5> QED
          BY <3>3, <4>1, <5>1, ScaleAssumption DEF U64
      <4>3. f[i + 1] = [collateral |-> c, reserved |-> r]
        BY <3>6, <3>8, <4>2, FitsThrowsNot DEF afterSettle
      <4> HIDE DEF c, r
      <4> QED
        BY <4>2, <4>3 DEF Good
    <3> QED
      BY <3>7, <3>8
  <2> QED
    BY <2>5, <2>6
<1> HIDE DEF S
<1>8. n \in S
  BY <1>1, <1>5, <1>7, SetInduction
<1>9. Good(f[n])
  BY <1>1, <1>8 DEF S
<1> QED
  BY <1>6, <1>9 DEF n, list, Good, U64

LEMMA ShareOfAssets ==
  ASSUME NEW shares \in Nat, NEW assets \in Nat, NEW supply \in Nat
  PROVE  amountForShares(shares, assets, supply) \in Nat
<1>1. shares * assets \in Nat
  OBVIOUS
<1>2. supply # 0 => (shares * assets) \div supply \in Nat
  BY <1>1, QuotientBounds
<1> QED
  BY <1>2 DEF amountForShares

(* The list of losses a page reads: one for every record of the program.   *)
LEMMA LossesDrawn ==
  ASSUME ChainInv
  PROVE  /\ lossCount \in Nat /\ DOMAIN events = 0 .. lossCount - 1
         /\ DOMAIN Losses = 1 .. lossCount /\ Len(Losses) = lossCount
         /\ Losses = [i \in 1 .. lossCount |-> Losses[i]]
         /\ \A i \in DOMAIN Losses :
              /\ i - 1 \in DOMAIN events
              /\ Losses[i].index = i - 1
              /\ Losses[i].modelTime = events[i - 1].model_time
              /\ Losses[i].lossBps = events[i - 1].loss_bps
              /\ Losses[i].lossBps \in 0 .. BPS
<1>1. /\ lossCount \in Nat /\ DOMAIN events = 0 .. lossCount - 1 /\ PoolInv
  BY ChainFacts, PoolAssumption DEF PoolTypeOK
<1>2. DOMAIN Losses = 1 .. lossCount /\ Losses = [i \in 1 .. lossCount |-> Losses[i]]
  BY DEF Losses
<1>3. Len(Losses) = lossCount
  <2>1. Losses \in Seq({Losses[i] : i \in 1 .. lossCount})
    BY <1>1, <1>2
  <2> QED
    BY <1>1, <1>2, <2>1
<1>4. ASSUME NEW i \in 1 .. lossCount
      PROVE  /\ i - 1 \in DOMAIN events
             /\ Losses[i].index = i - 1
             /\ Losses[i].modelTime = events[i - 1].model_time
             /\ Losses[i].lossBps = events[i - 1].loss_bps
             /\ Losses[i].lossBps \in 0 .. BPS
  <2>1. i - 1 \in DOMAIN events
    BY <1>1
  <2>2. /\ Losses[i].index = i - 1
        /\ Losses[i].modelTime = events[i - 1].model_time
        /\ Losses[i].lossBps = events[i - 1].loss_bps
    BY DEF Losses, lossEventView
  <2> QED
    BY <1>1, <2>1, <2>2, EventFields
<1> QED
  BY <1>1, <1>2, <1>3, <1>4

LEMMA ForecastFits ==
  ASSUME ChainInv, AccrualFits, NEW u \in Users, NEW bps \in LossRates, bps <= BPS,
         NEW row \in positionForecast(PoolNow, clock, WalletNow(u), {MarketNow},
                                     ContractsNow(DOMAIN contracts), bps)
  PROVE  /\ ~Throws(row.now) /\ ~Throws(row.after)
         /\ row.key = <<"senior">> => row.now = Redeemed("Senior", held["Senior"][u])
<1> DEFINE p == PoolAfter(Accrued)
           k == lossAmount(Accrued.assets, bps)
           after == Mirrored(AfterLoss(Accrued, LossSplit(bps)))
           recorded == [i \in DOMAIN Losses |-> eventTerms(Losses[i])]
           hypothetical == [index |-> p.lossCount, modelTime |-> p.modelTime, lossBps |-> bps]
           withLoss == Append(recorded, hypothetical)
           wallet == WalletNow(u)
           mine == wallet.contracts
           list == ContractsNow(DOMAIN contracts)
<1>1. /\ Accrued \in PoolBalances /\ bps \in Nat /\ AfterLoss(Accrued, LossSplit(bps)) \in PoolBalances
      /\ afterLoss(Mirrored(Accrued), applyLoss(k, Accrued.nav["Senior"], Accrued.nav["Junior"])) = after
  <2>1. Accrued \in PoolBalances
    BY ChainFacts, AccrualKeepsBooks DEF Founded
  <2>2. bps \in Nat
    BY PoolAssumption
  <2> QED
    BY <2>1, <2>2, LossForeseen
<1>2. /\ accruedView(PoolNow, clock) = p
      /\ poolBalances(p) = Mirrored(Accrued)
      /\ Mirrored(Accrued).assets = Accrued.assets
      /\ Mirrored(Accrued).seniorAssets = Accrued.nav["Senior"]
      /\ Mirrored(Accrued).juniorAssets = Accrued.nav["Junior"]
  BY AccruedIsDrawn, ReadBack DEF PoolAfter, Mirrored
<1>3. PoolNow.lossEvents = Losses
  BY DrawnFields DEF PoolNow
<1>4. row \in trancheRows(wallet, p, after)
              \cup {contractRow(mine[i], recorded, withLoss) :
                      i \in {j \in DOMAIN mine : mine[j].status = "Active"}}
              \cup {sellerRow(wallet.sellerShares, protection, list, withLoss) :
                      protection \in {m \in {MarketNow} : wallet.sellerShares > 0}}
  <2> HIDE DEF p, k, after, list, wallet
  <2>1. k = lossAmount(poolBalances(p).assets, bps)
    BY <1>2 DEF k
  <2>2. after = afterLoss(poolBalances(p),
                          applyLoss(k, poolBalances(p).seniorAssets, poolBalances(p).juniorAssets))
    BY <1>1, <1>2
  <2> QED
    BY <1>2, <1>3, <2>1, <2>2 DEF positionForecast, wallet, list
<1>5. /\ held["Senior"][u] \in Nat /\ held["Junior"][u] \in Nat /\ positions[u] \in Nat
      /\ wallet.seniorShares = held["Senior"][u] /\ wallet.juniorShares = held["Junior"][u]
      /\ wallet.sellerShares = positions[u]
      /\ mine = ContractsNow({key \in DOMAIN contracts : key[1] = u})
  <2>1. held["Senior"][u] \in Nat /\ held["Junior"][u] \in Nat
    BY ChainFacts, HeldIsPart DEF Tranches
  <2> QED
    BY <2>1, MarketNumbers, WalletDrawn
<1>6. /\ \A i \in DOMAIN recorded : recorded[i].lossBps \in Nat
      /\ \A i \in DOMAIN withLoss : withLoss[i].lossBps \in Nat
  <2>1. /\ DOMAIN recorded = 1 .. lossCount /\ lossCount \in Nat
        /\ \A i \in DOMAIN recorded : recorded[i].lossBps = Losses[i].lossBps
        /\ \A i \in DOMAIN recorded : recorded[i].lossBps \in Nat
        /\ recorded = [i \in 1 .. lossCount |-> recorded[i]]
    BY LossesDrawn, ScaleAssumption DEF eventTerms
  <2>2. hypothetical.lossBps \in Nat
    BY <1>1
  <2> DEFINE R == {recorded[i] : i \in 1 .. lossCount} \cup {hypothetical}
  <2> HIDE DEF recorded, hypothetical
  <2>3. recorded \in Seq(R) /\ hypothetical \in R
    BY <2>1
  <2>4. \A r \in R : r.lossBps \in Nat
    BY <2>1, <2>2
  <2> HIDE DEF R
  <2>5. withLoss \in Seq(R)
    BY <2>3
  <2> HIDE DEF withLoss
  <2>6. \A i \in DOMAIN withLoss : withLoss[i] \in R
    BY <2>5
  <2> QED
    BY <2>1, <2>4, <2>6
<1>7. \A n : n \in Nat => ~Throws(n)
  BY DEF Throws
<1> HIDE DEF recorded, hypothetical, withLoss
<1>8. ASSUME row \in trancheRows(wallet, p, after)
      PROVE  /\ ~Throws(row.now) /\ ~Throws(row.after)
             /\ row.key = <<"senior">> => row.now = Redeemed("Senior", held["Senior"][u])
  <2>1. /\ p.senior.assets = Accrued.nav["Senior"] /\ p.senior.supply = Accrued.supply["Senior"]
        /\ p.junior.assets = Accrued.nav["Junior"] /\ p.junior.supply = Accrued.supply["Junior"]
    <3>1. /\ p.senior = trancheView("Senior", Accrued.nav["Senior"], Accrued.supply["Senior"])
          /\ p.junior = trancheView("Junior", Accrued.nav["Junior"], Accrued.supply["Junior"])
      BY DrawnFields DEF PoolAfter
    <3> HIDE DEF p
    <3> QED
      BY <3>1 DEF trancheView
  <2>2. /\ Accrued.nav["Senior"] \in Nat /\ Accrued.supply["Senior"] \in Nat
        /\ Accrued.nav["Junior"] \in Nat /\ Accrued.supply["Junior"] \in Nat
    BY <1>1, BalancesInU64
  <2>3. /\ after.seniorAssets \in Nat /\ after.seniorSupply \in Nat
        /\ after.juniorAssets \in Nat /\ after.juniorSupply \in Nat
    BY <1>1, BalancesInU64 DEF Mirrored
  <2> HIDE DEF p, after, wallet
  <2>4. PICK n \in Nat :
          \/ /\ n = held["Senior"][u]
             /\ row = Row(<<"senior">>, amountForShares(n, p.senior.assets, p.senior.supply),
                          amountForShares(n, after.seniorAssets, after.seniorSupply))
          \/ row = Row(<<"junior">>, amountForShares(n, p.junior.assets, p.junior.supply),
                       amountForShares(n, after.juniorAssets, after.juniorSupply))
    BY <1>5, <1>8 DEF trancheRows
  <2>5. /\ amountForShares(n, p.senior.assets, p.senior.supply) \in Nat
        /\ amountForShares(n, after.seniorAssets, after.seniorSupply) \in Nat
        /\ amountForShares(n, p.junior.assets, p.junior.supply) \in Nat
        /\ amountForShares(n, after.juniorAssets, after.juniorSupply) \in Nat
    BY <2>1, <2>2, <2>3, ShareOfAssets
  <2>6. amountForShares(n, p.senior.assets, p.senior.supply) = Redeemed("Senior", n)
    BY <2>1 DEF amountForShares, Redeemed, AmountForRedeem
  <2>7. <<"senior">> # <<"junior">>
    OBVIOUS
  <2> QED
    BY <1>7, <2>4, <2>5, <2>6, <2>7 DEF Row
<1>9. ASSUME NEW i \in DOMAIN mine, row = contractRow(mine[i], recorded, withLoss)
      PROVE  ~Throws(row.now) /\ ~Throws(row.after) /\ row.key # <<"senior">>
  <2>1. PICK key \in DOMAIN contracts : mine[i] = ContractNow(key)
    <3> DEFINE keys == {key \in DOMAIN contracts : key[1] = u}
    <3>1. keys \subseteq DOMAIN contracts /\ mine = ContractsNow(keys)
      BY <1>5
    <3> HIDE DEF keys
    <3>2. \A j \in DOMAIN ContractsNow(keys) :
            \E key \in keys : ContractsNow(keys)[j] = ContractNow(key)
      BY <3>1, ContractsListed
    <3> QED
      BY <1>9, <3>1, <3>2
  <2>2. mine[i].notional \in U64
    BY <2>1, ChainFacts, ContractFields, ContractDrawn DEF Contract
  <2> HIDE DEF wallet
  <2>3. bestClaim(mine[i], recorded) \in Nat /\ bestClaim(mine[i], withLoss) \in Nat
    BY <1>6, <2>2, BestClaimIs
  <2>4. <<"contract", mine[i].nonce>> # <<"senior">>
    OBVIOUS
  <2> QED
    BY <1>7, <1>9, <2>3, <2>4 DEF contractRow, Row
<1>10. ASSUME row = sellerRow(wallet.sellerShares, MarketNow, list, withLoss)
       PROVE  ~Throws(row.now) /\ ~Throws(row.after) /\ row.key # <<"senior">>
  <2>1. Len(list) \in Nat
    BY ContractsListed
  <2>2. /\ collateral \in Nat /\ shareSupply \in Nat
        /\ MarketNow.collateral = collateral /\ MarketNow.shareSupply = shareSupply
    BY MarketNumbers, MarketDrawn
  <2>3. PICK f : /\ Settling(MarketNow, list, withLoss, Len(list), f)
                 /\ LET last == f[Len(list)]
                    IN  row = Row(<<"seller">>, amountForShares(positions[u], collateral, shareSupply),
                                  IF \E field \in DOMAIN last : Throws(last[field]) THEN Overflow
                                  ELSE amountForShares(positions[u], last.collateral, shareSupply))
    <3> HIDE DEF list
    <3> QED
      BY <1>5, <1>10, <2>1, <2>2, SellerRowIs
  <2>4. LET last == f[Len(list)]
        IN  ~(\E field \in DOMAIN last : Throws(last[field])) /\ last.collateral \in Nat
    BY <1>6, <2>3, SettlementsFit
  <2> DEFINE last == f[Len(list)]
  <2>5. /\ row = Row(<<"seller">>, amountForShares(positions[u], collateral, shareSupply),
                     amountForShares(positions[u], last.collateral, shareSupply))
    BY <2>3, <2>4
  <2> HIDE DEF last, list, wallet
  <2>6. /\ amountForShares(positions[u], collateral, shareSupply) \in Nat
        /\ amountForShares(positions[u], last.collateral, shareSupply) \in Nat
    BY <1>5, <2>2, <2>4, ShareOfAssets DEF last
  <2>7. <<"seller">> # <<"senior">>
    OBVIOUS
  <2> QED
    BY <1>7, <2>5, <2>6, <2>7 DEF Row
<1> QED
  BY <1>4, <1>8, <1>9, <1>10

(* The protection desk of a fresh read offers exactly what the program     *)
(* accepts, its "max" is never more than may leave, and the position sheet *)
(* can always be drawn.                                                    *)
THEOREM DeskIsExact == DeskSpec => []DeskExact
<1>1. ChainInv => DeskExact
  <2> SUFFICES ASSUME ChainInv PROVE DeskExact
    OBVIOUS
  <2>1. projectedModelTime(PoolNow, clock) = modelTime + DtModel
    BY ProjectedNow
  <2>2. ASSUME NEW u \in Users, NEW value \in Tried
        PROVE  LET into == sellPreview(MarketNow, "provide", value, {WalletNow(u)})
               IN  IF into.kind = "ok" /\ shareSupply + ProvidedShares(value) \in U64
                   THEN /\ ProvideAccepts(u, value)
                        /\ into.receive = ProvidedShares(value)
                        /\ into.after = [collateral |-> collateral + value, reserved |-> reserved]
                   ELSE ~ProvideAccepts(u, value)
    <3>1. value \in U64
      BY DeskAssumption
    <3> QED
      BY <3>1, ProvidePreviewed
  <2>3. ASSUME NEW u \in Users, NEW value \in Tried
        PROVE  LET out == sellPreview(MarketNow, "withdraw", value, {WalletNow(u)})
               IN  IF out.kind = "ok"
                   THEN /\ WithdrawAccepts(u, value)
                        /\ out.receive = Withdrawn(value)
                        /\ out.after = [collateral |-> collateral - Withdrawn(value),
                                        reserved |-> reserved]
                   ELSE ~WithdrawAccepts(u, value)
    <3>1. value \in U64
      BY DeskAssumption
    <3> QED
      BY <3>1, WithdrawPreviewed
  <2>4. ASSUME NEW u \in Users, NEW notional \in Tried \ {0}, NEW days \in TermDays
        PROVE  LET term == days * DAY_SECONDS
                   buy == premiumPreview(MarketNow, modelTime + DtModel, notional, days, {WalletNow(u)})
               IN  IF buy.kind = "ok" /\ AccrualFits /\ CanBeNumbered(notional, term)
                   THEN /\ BuyAccepts(u, notional, term, bought)
                        /\ buy.premium = Price(notional, term)
                        /\ buy.expiryModelTime = Bought(notional, term).expiry_model_time
                        /\ buy.after = [collateral |-> collateral + PriceNet(notional, term),
                                        reserved |-> reserved + notional]
                   ELSE ~BuyAccepts(u, notional, term, bought)
    <3>1. notional \in U64 \ {0}
      BY DeskAssumption
    <3> QED
      BY <3>1, BuyPreviewed
  <2>5. LET max == maxWithdrawShares(MarketNow, positions[Founder])
            out == sellPreview(MarketNow, "withdraw", max, {WalletNow(Founder)})
        IN  out.kind = "ok" \/ out.reason \in {"zero", "rounds to zero", "waterfall"}
    BY DeskAssumption, MaxLeaves
  <2>6. ASSUME AccrualFits, NEW u \in Users, NEW bps \in {b \in LossRates : b <= BPS},
               NEW row \in positionForecast(PoolNow, clock, WalletNow(u), {MarketNow},
                                           ContractsNow(DOMAIN contracts), bps)
        PROVE  /\ ~Throws(row.now) /\ ~Throws(row.after)
               /\ row.key = <<"senior">> => row.now = Redeemed("Senior", held["Senior"][u])
    BY <2>6, ForecastFits
  <2>7. SalesExact
    BY <2>2, <2>3 DEF SalesExact
  <2>8. PurchasesExact
    BY <2>1, <2>4 DEF PurchasesExact
  <2>9. MaxMayLeave
    BY <2>5 DEF MaxMayLeave
  <2>10. ForecastDrawn
    BY <2>6 DEF ForecastDrawn
  <2> QED
    BY <2>7, <2>8, <2>9, <2>10 DEF DeskExact
<1> QED
  BY <1>1, DeskKeepsTheBooks, PTL

-----------------------------------------------------------------------------
(* What a page has read stays true of the chain in part: the parameters,   *)
(* the losses up to then, the terms of a contract that is still open.      *)
PoolStillHolds(p) ==
  /\ p.params = PoolNow.params
  /\ p.lastAccruedTs \in Nat /\ p.lastAccruedTs <= lastAccrued
  /\ p.modelTime = pool.params.time_scale * (p.lastAccruedTs - pool.created_at)
  /\ Len(p.lossEvents) \in 0 .. lossCount /\ DOMAIN p.lossEvents = 1 .. Len(p.lossEvents)
  /\ \A i \in DOMAIN p.lossEvents : p.lossEvents[i] = Losses[i]

MarketStillHolds(m) ==
  /\ m.params = MarketNow.params
  /\ m.free \in Int

WalletStillHolds(w) ==
  /\ w.wallet.base \in Nat
  /\ \A i \in DOMAIN w.contracts :
       \E key \in DOMAIN contracts :
         /\ w.contracts[i].address = key
         /\ contracts[key].status = "Active" => w.contracts[i] = ContractNow(key)

SeenHolds ==
  /\ seen = [query \in {"pool", "market", "wallet"} |-> seen[query]]
  /\ \A p \in seen.pool : PoolStillHolds(p)
  /\ \A m \in seen.market : MarketStillHolds(m)
  /\ \A w \in seen.wallet : WalletStillHolds(w)

SeenInv == ChainInv /\ SeenHolds

LEMMA LossesAreKept ==
  ASSUME ChainInv, [Next]_vars
  PROVE  /\ lossCount' \in Nat /\ lossCount \in Nat /\ lossCount' >= lossCount
         /\ \A i \in 1 .. lossCount : Losses'[i] = Losses[i]
<1>1. HistoryGrows
  BY NothingIsTakenBack
<1>2. lossCount \in Nat /\ DOMAIN events = 0 .. lossCount - 1
  BY LossesDrawn
<1>3. lossCount' \in Nat
  BY ChainFacts, CoverInvNext, PoolAssumption DEF CoverInv, PoolInv, PoolTypeOK
<1>4. ASSUME NEW i \in 1 .. lossCount PROVE Losses'[i] = Losses[i]
  <2>1. i - 1 \in DOMAIN events
    BY <1>2
  <2>2. events'[i - 1] = events[i - 1]
    BY <1>1, <2>1 DEF HistoryGrows
  <2>3. i \in 1 .. lossCount'
    BY <1>1, <1>2, <1>3 DEF HistoryGrows
  <2> QED
    BY <2>2, <2>3 DEF Losses
<1> QED
  BY <1>1, <1>2, <1>3, <1>4 DEF HistoryGrows

LEMMA PoolKeepsHolding ==
  ASSUME ChainInv, [Next]_vars, NEW p, PoolStillHolds(p)
  PROVE  PoolStillHolds(p)'
<1>1. /\ pool' = pool /\ lastAccrued' >= lastAccrued
      /\ lastAccrued \in Nat /\ lastAccrued' \in Nat
  BY NothingIsTakenBack, ChainFacts, CoverInvNext, PoolAssumption DEF CoverInv, PoolInv, PoolTypeOK
<1>2. PoolNow'.params = PoolNow.params
  BY <1>1 DEF PoolNow, PoolWith, poolView
<1>3. p.lastAccruedTs \in Nat /\ p.lastAccruedTs <= lastAccrued'
  BY <1>1 DEF PoolStillHolds
<1>4. /\ Len(p.lossEvents) \in 0 .. lossCount'
      /\ \A i \in DOMAIN p.lossEvents : p.lossEvents[i] = Losses'[i]
  <2>1. /\ lossCount \in Nat /\ lossCount' \in Nat /\ lossCount' >= lossCount
        /\ \A i \in 1 .. lossCount : Losses'[i] = Losses[i]
    BY LossesAreKept
  <2> QED
    BY <2>1 DEF PoolStillHolds
<1> QED
  BY <1>1, <1>2, <1>3, <1>4 DEF PoolStillHolds

LEMMA WalletKeepsHolding ==
  ASSUME ChainInv, [Next]_vars, NEW w, WalletStillHolds(w)
  PROVE  WalletStillHolds(w)'
<1>1. ASSUME NEW i \in DOMAIN w.contracts
      PROVE  \E key \in DOMAIN contracts' :
               /\ w.contracts[i].address = key
               /\ contracts'[key].status = "Active" => w.contracts[i] = ContractNow(key)'
  <2>1. PICK key \in DOMAIN contracts :
          /\ w.contracts[i].address = key
          /\ contracts[key].status = "Active" => w.contracts[i] = ContractNow(key)
    BY DEF WalletStillHolds
  <2>2. key \in DOMAIN contracts' /\ (contracts'[key] = contracts[key] \/ Closes(key))
    BY ChainFacts, ContractStep
  <2>3. Closes(key) => contracts'[key].status # "Active"
    BY DEF Closes, Closed
  <2>4. contracts'[key] = contracts[key] => ContractNow(key)' = ContractNow(key)
    BY DEF ContractNow
  <2> QED
    BY <2>1, <2>2, <2>3, <2>4
<1> QED
  BY <1>1 DEF WalletStillHolds

(* What is read holds when it is read.                                     *)
LEMMA NowHolds ==
  ASSUME ChainInv
  PROVE  /\ PoolStillHolds(PoolNow)
         /\ MarketStillHolds(MarketNow)
         /\ WalletStillHolds([wallet |-> WalletNow(Viewer),
                              contracts |-> ContractsNow(DOMAIN contracts)])
<1>1. PoolStillHolds(PoolNow)
  <2>1. /\ lastAccrued \in Nat /\ pool # NoPool
        /\ modelTime = pool.params.time_scale * (lastAccrued - pool.created_at)
    BY ChainFacts DEF Founded, PoolInv, PoolTypeOK, ModelClockExact
  <2>2. /\ PoolNow.lastAccruedTs = lastAccrued /\ PoolNow.modelTime = modelTime
        /\ PoolNow.lossEvents = Losses
    BY DrawnFields DEF PoolNow
  <2> QED
    BY <2>1, <2>2, LossesDrawn DEF PoolStillHolds
<1>2. MarketStillHolds(MarketNow)
  BY MarketNumbers, MarketDrawn DEF MarketStillHolds
<1>3. WalletStillHolds([wallet |-> WalletNow(Viewer),
                        contracts |-> ContractsNow(DOMAIN contracts)])
  <2>1. WalletNow(Viewer).base \in Nat
    BY DeskAssumption, MarketNumbers, WalletDrawn
  <2>2. \A i \in DOMAIN ContractsNow(DOMAIN contracts) :
          \E key \in DOMAIN contracts :
            /\ ContractsNow(DOMAIN contracts)[i].address = key
            /\ ContractsNow(DOMAIN contracts)[i] = ContractNow(key)
    <3>1. \A i \in DOMAIN ContractsNow(DOMAIN contracts) :
            \E key \in DOMAIN contracts : ContractsNow(DOMAIN contracts)[i] = ContractNow(key)
      BY ContractsListed
    <3> QED
      BY <3>1, ContractDrawn
  <2> QED
    BY <2>1, <2>2 DEF WalletStillHolds
<1> QED
  BY <1>1, <1>2, <1>3

LEMMA MarketKeepsHolding ==
  ASSUME ChainInv, [Next]_vars, NEW m, MarketStillHolds(m)
  PROVE  MarketStillHolds(m)'
BY NothingIsTakenBack DEF MarketStillHolds, MarketNow, protectionView

LEMMA SeenInvInit == DeskInit => SeenInv
<1> SUFFICES ASSUME DeskInit PROVE SeenInv
  OBVIOUS
<1>1. seen = [pool |-> {}, market |-> {}, wallet |-> {}]
  BY DEF DeskInit
<1> QED
  BY <1>1, ChainInvInit DEF SeenInv, SeenHolds

LEMMA SeenInvNext == SeenInv /\ [DeskNext]_deskVars => SeenInv'
<1> SUFFICES ASSUME SeenInv, [DeskNext]_deskVars PROVE SeenInv'
  OBVIOUS
<1>1. ChainInv /\ SeenHolds /\ [Next]_vars /\ ChainInv'
  BY ChainInvNext, DeskStepIsStep DEF SeenInv
<1>2. /\ \A p \in seen.pool : PoolStillHolds(p)'
      /\ \A m \in seen.market : MarketStillHolds(m)'
      /\ \A w \in seen.wallet : WalletStillHolds(w)'
  BY <1>1, PoolKeepsHolding, MarketKeepsHolding, WalletKeepsHolding DEF SeenHolds
<1>3. PICK p : p = PoolNow
  OBVIOUS
<1>4. PICK m : m = MarketNow
  OBVIOUS
<1>5. PICK w : w = [wallet |-> WalletNow(Viewer), contracts |-> ContractsNow(DOMAIN contracts)]
  OBVIOUS
<1>6. PoolStillHolds(p)' /\ MarketStillHolds(m)' /\ WalletStillHolds(w)'
  <2>1. PoolStillHolds(p) /\ MarketStillHolds(m) /\ WalletStillHolds(w)
    BY <1>1, <1>3, <1>4, <1>5, NowHolds
  <2> QED
    BY <1>1, <2>1, PoolKeepsHolding, MarketKeepsHolding, WalletKeepsHolding
<1>7. /\ seen'.pool \in {seen.pool, {p}} /\ seen'.market \in {seen.market, {m}}
      /\ seen'.wallet \in {seen.wallet, {w}}
      /\ seen' = [query \in {"pool", "market", "wallet"} |-> seen'[query]]
  <2>1. seen' = seen => seen'.pool = seen.pool /\ seen'.market = seen.market /\ seen'.wallet = seen.wallet
    OBVIOUS
  <2>3. seen = [query \in {"pool", "market", "wallet"} |-> seen[query]]
    BY <1>1 DEF SeenHolds
  <2>2. CASE Send \/ TimePasses \/ UNCHANGED deskVars
    BY <2>1, <2>2, <2>3 DEF Send, TimePasses, deskVars
  <2>4. CASE PollPool
    BY <1>3, <2>3, <2>4 DEF PollPool
  <2>5. CASE PollMarket
    BY <1>4, <2>3, <2>5 DEF PollMarket
  <2>6. CASE PollWallet
    BY <1>5, <2>3, <2>6 DEF PollWallet
  <2> QED
    BY <2>2, <2>4, <2>5, <2>6 DEF DeskNext
<1>8. SeenHolds'
  BY <1>2, <1>6, <1>7 DEF SeenHolds
<1> QED
  BY <1>1, <1>8 DEF SeenInv

(* What pages have read, however long ago, holds in the parts that cannot  *)
(* change any more.                                                        *)
THEOREM WhatWasSeenHolds == DeskSpec => []SeenInv
BY SeenInvInit, SeenInvNext, PTL DEF DeskSpec

(* A page that polled earlier draws the pool's time behind the chain's, or *)
(* ahead of it by no more than its browser's clock is.                     *)
LEMMA ProjectedBefore ==
  ASSUME ChainInv, NEW p, PoolStillHolds(p), NEW now \in UnixNow
  PROVE  /\ projectedModelTime(p, now) \in Int /\ Early(now) \in Nat
         /\ projectedModelTime(p, now) <= modelTime + DtModel + Early(now)
<1> DEFINE scale == pool.params.time_scale
           elapsed == IF now > p.lastAccruedTs THEN now - p.lastAccruedTs ELSE 0
           early == IF now > Timestamp THEN now - Timestamp ELSE 0
           then == p.lastAccruedTs
           born == pool.created_at
<1>1. /\ clock \in Nat /\ lastAccrued \in Nat /\ pool # NoPool /\ scale \in Nat /\ born \in Nat
      /\ modelTime = scale * (lastAccrued - born) /\ then \in Nat /\ then <= lastAccrued
      /\ p.modelTime = scale * (then - born) /\ now \in Nat
  <2>1. pool # NoPool /\ PoolInv
    BY ChainFacts DEF Founded
  <2>2. /\ clock \in Nat /\ lastAccrued \in Nat /\ scale \in Nat /\ born \in Nat
    BY <2>1, PoolIsRecord, PoolAssumption DEF PoolInv, PoolTypeOK
  <2>3. now \in Nat
    BY DEF UnixNow
  <2> QED
    BY <2>1, <2>2, <2>3 DEF PoolStillHolds, PoolInv, ModelClockExact
<1>2. p.params.timeScale = scale
  BY DrawnFields DEF PoolStillHolds, PoolNow
<1>3. projectedModelTime(p, now) = p.modelTime + elapsed * scale
  BY <1>2 DEF projectedModelTime
<1>4. DtModel = (Timestamp - lastAccrued) * scale
  BY DEF DtModel
<1>5. /\ elapsed \in Nat /\ early \in Nat /\ Timestamp \in Nat
      /\ then + elapsed <= Timestamp + early /\ lastAccrued <= Timestamp
  BY <1>1 DEF Timestamp
<1>6. Early(now) = early * scale
  BY <1>1, <1>5 DEF Early
<1> HIDE DEF scale, elapsed, early, then, born
<1>7. p.modelTime + elapsed * scale = scale * (then + elapsed) - scale * born
  BY <1>1, <1>5
<1>8. modelTime + DtModel + early * scale = scale * (Timestamp + early) - scale * born
  BY <1>1, <1>4, <1>5
<1>9. (then + elapsed) * scale <= (Timestamp + early) * scale
  <2>1. then + elapsed \in Nat /\ Timestamp + early \in Nat
    BY <1>1, <1>5
  <2> QED
    BY <1>1, <1>5, <2>1, ProductBelow
<1>10. scale * (then + elapsed) <= scale * (Timestamp + early)
  BY <1>1, <1>5, <1>9
<1> QED
  BY <1>1, <1>3, <1>5, <1>6, <1>7, <1>8, <1>10

(* What a quote that is shown says.                                        *)
LEMMA QuoteShows ==
  ASSUME ChainInv, NEW m, NEW w, NEW mt, NEW notional \in U64, NEW days \in Nat,
         m.params.premiumRateBps = cover.premium_rate_bps,
         m.params.premiumFeeBps = cover.premium_fee_bps,
         m.free \in Int, w.base \in Nat,
         premiumPreview(m, mt, notional, days, {w}).kind = "ok"
  PROVE  LET term == days * DAY_SECONDS
             buy == premiumPreview(m, mt, notional, days, {w})
         IN  /\ Price(notional, term) > 0 \/ cover.premium_rate_bps = 0
             /\ Price(notional, term) \in U64
             /\ buy.premium = Price(notional, term)
             /\ buy.expiryModelTime = mt + term
<1> DEFINE term == days * DAY_SECONDS
           buy == premiumPreview(m, mt, notional, days, {w})
<1>1. /\ buy.kind = "ok" <=>
           /\ notional <= m.free
           /\ Price(notional, term) > 0 \/ cover.premium_rate_bps = 0
           /\ Price(notional, term) \in U64
           /\ Price(notional, term) <= w.base
      /\ buy.kind = "ok" =>
           /\ buy.premium = Price(notional, term)
           /\ buy.expiryModelTime = mt + term
           /\ m.collateral \in Int =>
                buy.after = [collateral |-> m.collateral + PriceNet(notional, term),
                             reserved |-> m.reserved + notional]
  BY QuoteIs
<1>2. buy.kind = "ok"
  OBVIOUS
<1> HIDE DEF buy, term
<1>3. /\ Price(notional, term) > 0 \/ cover.premium_rate_bps = 0
      /\ Price(notional, term) \in U64
      /\ buy.premium = Price(notional, term)
      /\ buy.expiryModelTime = mt + term
  BY <1>1, <1>2
<1> QED
  BY <1>3 DEF buy, term

LEMMA QuoteStands ==
  ASSUME ChainInv, NEW p, PoolStillHolds(p), NEW m, MarketStillHolds(m),
         NEW w, WalletStillHolds(w), NEW notional \in U64 \ {0}, NEW days \in TermDays,
         NEW now \in UnixNow
  PROVE  LET buy == premiumPreview(m, projectedModelTime(p, now), notional, days, {w.wallet})
             key == <<Viewer, m.contracts>>
             term == days * DAY_SECONDS
             contract == Bought(notional, term)
         IN  buy.kind = "ok" /\ AccrualFits /\ CanBeNumbered(notional, term) =>
             IF notional <= Free /\ buy.premium <= base[Viewer] /\ key \notin DOMAIN contracts
             THEN /\ BuyAccepts(Viewer, notional, term, m.contracts)
                  /\ contract.premium = buy.premium
                  /\ contract.expiry_model_time + Early(now) >= buy.expiryModelTime
                  /\ contract.loss_index_from >= Len(p.lossEvents)
                  /\ contract.trigger_bps = m.params.triggerBps
             ELSE ~BuyAccepts(Viewer, notional, term, m.contracts)
<1> DEFINE drawn == projectedModelTime(p, now)
           buy == premiumPreview(m, drawn, notional, days, {w.wallet})
           term == days * DAY_SECONDS
           contract == Bought(notional, term)
           P == Price(notional, term)
<1> SUFFICES ASSUME buy.kind = "ok", AccrualFits, CanBeNumbered(notional, term)
             PROVE  IF notional <= Free /\ buy.premium <= base[Viewer]
                         /\ <<Viewer, m.contracts>> \notin DOMAIN contracts
                    THEN /\ BuyAccepts(Viewer, notional, term, m.contracts)
                         /\ contract.premium = buy.premium
                         /\ contract.expiry_model_time + Early(now) >= buy.expiryModelTime
                         /\ contract.loss_index_from >= Len(p.lossEvents)
                         /\ contract.trigger_bps = m.params.triggerBps
                    ELSE ~BuyAccepts(Viewer, notional, term, m.contracts)
  OBVIOUS
<1>1. /\ m.params.premiumRateBps = cover.premium_rate_bps
      /\ m.params.premiumFeeBps = cover.premium_fee_bps
      /\ m.params.triggerBps = cover.trigger_bps
      /\ m.free \in Int
  BY MarketDrawn DEF MarketStillHolds
<1>2. term \in Nat \ {0} /\ term <= MaxTerm /\ days \in Nat
  BY TermsOffered
<1>3. w.wallet.base \in Nat /\ notional \in U64
  BY DEF WalletStillHolds
<1>4. /\ P > 0 \/ cover.premium_rate_bps = 0
      /\ P \in U64
      /\ buy.premium = P /\ buy.expiryModelTime = drawn + term
  <2> DEFINE wallet == w.wallet
             quote == premiumPreview(m, drawn, notional, days, {wallet})
  <2>1. wallet.base \in Nat /\ quote.kind = "ok"
    BY <1>3
  <2> HIDE DEF wallet
  <2>2. /\ P > 0 \/ cover.premium_rate_bps = 0
        /\ P \in U64
        /\ quote.premium = P /\ quote.expiryModelTime = drawn + term
    <3> HIDE DEF drawn
    <3> QED
      BY <1>1, <1>2, <1>3, <2>1, QuoteShows
  <2> QED
    BY <2>2 DEF wallet
<1>5. /\ contract.premium = P
      /\ contract.expiry_model_time = modelTime + DtModel + term
      /\ contract.loss_index_from = lossCount
      /\ contract.trigger_bps = cover.trigger_bps
  BY DEF Bought, NewContract
<1> HIDE DEF buy, contract, P, drawn, term
<1>6. Viewer \in Users
  BY DeskAssumption
<1>7. <<Viewer, m.contracts>> \notin DOMAIN contracts =>
        (BuyAccepts(Viewer, notional, term, m.contracts) <=> notional <= Free /\ P <= base[Viewer])
  BY <1>2, <1>4, <1>6, BuyIsAccepted DEF P
<1>8. BuyAccepts(Viewer, notional, term, m.contracts) =>
        <<Viewer, m.contracts>> \notin DOMAIN contracts
  BY DEF BuyAccepts
<1>9. contract.expiry_model_time + Early(now) >= buy.expiryModelTime
  <2>1. /\ drawn \in Int /\ drawn <= modelTime + DtModel + Early(now)
        /\ modelTime + DtModel \in Nat /\ Early(now) \in Nat
    BY ProjectedBefore, ProjectedNow DEF drawn
  <2> QED
    BY <1>2, <1>4, <1>5, <2>1
<1>10. contract.loss_index_from >= Len(p.lossEvents)
  BY <1>5, LossesDrawn DEF PoolStillHolds
<1>11. contract.trigger_bps = m.params.triggerBps
  BY <1>1, <1>5
<1> QED
  BY <1>4, <1>5, <1>7, <1>8, <1>9, <1>10, <1>11

(* A quote holds, whatever moments it was read at, unless somebody took    *)
(* the collateral, the money or the number.                                *)
THEOREM QuotesHold == DeskSpec => []QuoteHolds
<1>1. SeenInv => QuoteHolds
  <2> SUFFICES ASSUME SeenInv PROVE QuoteHolds
    OBVIOUS
  <2>1. \A notional \in Tried \ {0} : notional \in U64 \ {0}
    BY DeskAssumption
  <2> QED
    BY <2>1, QuoteStands DEF QuoteHolds, SeenInv, SeenHolds
<1> QED
  BY <1>1, WhatWasSeenHolds, PTL

(* What a row of an open contract shows, from losses read earlier.         *)
LEMMA RowStands ==
  ASSUME ChainInv, NEW p, PoolStillHolds(p), NEW key \in DOMAIN contracts,
         contracts[key].status = "Active", NEW now \in UnixNow
  PROVE  LET c == ContractNow(key)
             row == contractState(c, p.lossEvents, projectedModelTime(p, now))
             rest == c.expiryModelTime - (modelTime + DtModel)
         IN  /\ row.kind = "claim" => /\ SettleAccepts(key, row.event.index)
                                      /\ Claim(key, row.event.index) = row.payout
             /\ row.kind = "expirable" /\ AccrualFits =>
                  IF rest <= 0 THEN ExpireAccepts(c.buyer, key) ELSE rest <= Early(now)
             /\ row.kind = "covered" => row.daysLeft > 0
<1> DEFINE c == ContractNow(key)
           drawn == projectedModelTime(p, now)
           left == c.expiryModelTime - drawn
           rest == c.expiryModelTime - (modelTime + DtModel)
           claims == settleable(c, p.lossEvents)
           claim == CHOOSE d \in claims : TRUE
           row == contractState(c, p.lossEvents, drawn)
<1>1. /\ SumsInv /\ CoverInv /\ PoolInv /\ Conserved /\ pool # NoPool
      /\ key \in ActiveContracts
      /\ contracts[key].notional \in Nat /\ contracts[key].expiry_model_time \in Nat
      /\ contracts[key].notional \in U64
      /\ key[1] \in Users
  <2>1. /\ SumsInv /\ CoverInv /\ PoolInv /\ Conserved /\ pool # NoPool
    BY ChainFacts DEF Founded
  <2> QED
    BY <2>1, ContractFields DEF ActiveContracts, Contract
<1>2. /\ c.buyer = key[1] /\ c.notional = contracts[key].notional /\ c.status = "Active"
      /\ c.expiryModelTime = contracts[key].expiry_model_time
      /\ c.triggerBps = contracts[key].trigger_bps
      /\ c.lossIndexFrom = contracts[key].loss_index_from
  BY ContractDrawn
<1>3. row = IF claims # {} THEN [kind |-> "claim", event |-> claim.event, payout |-> claim.payout]
            ELSE IF left <= 0 THEN [kind |-> "expirable"]
            ELSE [kind |-> "covered", daysLeft |-> (left + DAY_SECONDS - 1) \div DAY_SECONDS]
  BY <1>2 DEF contractState
<1>4. /\ drawn \in Int /\ drawn <= modelTime + DtModel + Early(now)
      /\ modelTime + DtModel \in Nat /\ Early(now) \in Nat
  BY ProjectedBefore, ProjectedNow
<1>5. left \in Int
  BY <1>1, <1>2, <1>4
<1>6. ASSUME NEW d \in claims
      PROVE  /\ d = [event |-> d.event, payout |-> d.payout]
             /\ d.event.index \in DOMAIN events
             /\ CoveredBy(contracts[key], d.event.index)
             /\ Claim(key, d.event.index) = d.payout /\ d.payout > 0
  <2>1. PICK e \in ToSet(p.lossEvents) :
          /\ d = [event |-> e, payout |-> payout(c.notional, e.lossBps)]
          /\ e.index >= c.lossIndexFrom
          /\ e.modelTime <= c.expiryModelTime
          /\ e.lossBps >= c.triggerBps
          /\ d.payout > 0
    BY <1>6 DEF settleable, Biggest
  <2>2. PICK i \in DOMAIN p.lossEvents : e = p.lossEvents[i]
    BY DEF ToSet
  <2>3. e = Losses[i] /\ i \in DOMAIN Losses
    BY <2>2, LossesDrawn DEF PoolStillHolds
  <2>4. /\ i - 1 \in DOMAIN events /\ e.index = i - 1
        /\ e.modelTime = events[i - 1].model_time
        /\ e.lossBps = events[i - 1].loss_bps /\ e.lossBps \in 0 .. BPS
    BY <2>3, LossesDrawn
  <2>5. CoveredBy(contracts[key], i - 1)
    BY <1>2, <2>1, <2>4 DEF CoveredBy
  <2>6. payout(c.notional, e.lossBps) = Claim(key, i - 1)
    <3>1. Payout(c.notional, e.lossBps) \in 0 .. c.notional
      BY <1>1, <1>2, <2>4, MulBpsIsPart DEF Payout
    <3>2. Payout(c.notional, e.lossBps) \in U64
      BY <1>1, <1>2, <3>1, ScaleAssumption DEF U64
    <3>3. payout(c.notional, e.lossBps) = toU64(Payout(c.notional, e.lossBps))
      BY <2>4, ScaleAssumption, PartsMirrored
    <3> QED
      BY <1>2, <2>4, <3>2, <3>3, ToU64 DEF Claim
  <2> QED
    BY <2>1, <2>4, <2>5, <2>6
<1> HIDE DEF c, drawn, left, rest, claims, row
<1>7. CASE claims # {}
  <2>1. claim \in claims
    BY <1>7
  <2> HIDE DEF claim
  <2>3. row.kind = "claim" /\ row.event = claim.event /\ row.payout = claim.payout
    BY <1>3, <1>7
  <2>4. SettleAccepts(key, claim.event.index)
    BY <1>1, <1>6, <2>1, ClaimAccepted DEF ClaimsPayable
  <2> QED
    BY <1>6, <2>1, <2>3, <2>4 DEF row, drawn, c
<1>8. CASE claims = {} /\ left <= 0
  <2>1. row.kind = "expirable"
    BY <1>3, <1>8
  <2>2. /\ rest <= Early(now)
        /\ rest <= 0 => modelTime + DtModel >= contracts[key].expiry_model_time
    BY <1>1, <1>2, <1>4, <1>8 DEF left, rest
  <2>3. reserved - contracts[key].notional \in U64
    <3>1. /\ IsFiniteSet(ActiveContracts) /\ reserved = Total(Notionals, ActiveContracts)
          /\ \A k \in ActiveContracts : Notionals[k] \in Nat
          /\ Notionals[key] = contracts[key].notional
      BY <1>1, OpenContracts DEF SumsInv, ReservedIsActive
    <3>2. contracts[key].notional <= reserved
      BY <1>1, <3>1, TotalAbove
    <3>3. reserved \in U64
      BY <1>1 DEF CoverInv, CoverTypeOK
    <3> QED
      BY <1>1, <3>2, <3>3, ScaleAssumption DEF U64
  <2>4. rest <= 0 /\ AccrualFits => ExpireAccepts(c.buyer, key)
    BY <1>1, <1>2, <2>2, <2>3, AccruedTokens DEF ExpireAccepts, IsActive
  <2>5. AccrualFits => IF rest <= 0 THEN ExpireAccepts(c.buyer, key) ELSE rest <= Early(now)
    BY <2>2, <2>4
  <2> QED
    BY <2>1, <2>5 DEF row, drawn, rest, c
<1>9. CASE claims = {} /\ ~(left <= 0)
  <2>1. row.kind = "covered" /\ row.daysLeft = (left + DAY_SECONDS - 1) \div DAY_SECONDS
    BY <1>3, <1>9
  <2>2. left + DAY_SECONDS - 1 \in Nat /\ left + DAY_SECONDS - 1 >= DAY_SECONDS
        /\ DAY_SECONDS \in Nat \ {0}
    BY <1>5, <1>9, DayAssumption
  <2>3. (left + DAY_SECONDS - 1) \div DAY_SECONDS > 0
    <3> DEFINE x == left + DAY_SECONDS - 1
               q == x \div DAY_SECONDS
    <3>1. q \in Nat /\ x < q * DAY_SECONDS + DAY_SECONDS
      <4> HIDE DEF x
      <4> QED
        BY <2>2, QuotientBounds DEF x
    <3>2. x \in Nat /\ x >= DAY_SECONDS
      BY <2>2
    <3> HIDE DEF x, q
    <3>3. q # 0
      BY <2>2, <3>1, <3>2
    <3> QED
      BY <3>1, <3>3 DEF q, x
  <2> QED
    BY <2>1, <2>3 DEF row, drawn, c
<1> QED
  BY <1>7, <1>8, <1>9

(* A claim or a finished term once shown stays good until the contract is  *)
(* closed.                                                                 *)
THEOREM ShownClaimsArePayable == DeskSpec => []ClaimShownIsPayable
<1>1. SeenInv => ClaimShownIsPayable
  <2> SUFFICES ASSUME SeenInv, NEW p \in seen.pool, NEW w \in seen.wallet,
                      NEW now \in UnixNow, NEW i \in DOMAIN w.contracts,
                      contracts[w.contracts[i].address].status = "Active"
               PROVE  LET c == w.contracts[i]
                          key == c.address
                          row == contractState(c, p.lossEvents, projectedModelTime(p, now))
                          left == c.expiryModelTime - (modelTime + DtModel)
                      IN  /\ row.kind = "claim" => /\ SettleAccepts(key, row.event.index)
                                                   /\ Claim(key, row.event.index) = row.payout
                          /\ row.kind = "expirable" /\ AccrualFits =>
                               IF left <= 0 THEN ExpireAccepts(c.buyer, key)
                               ELSE left <= Early(now)
                          /\ row.kind = "covered" => row.daysLeft > 0
    BY DEF ClaimShownIsPayable
  <2>1. ChainInv /\ PoolStillHolds(p) /\ WalletStillHolds(w)
    BY DEF SeenInv, SeenHolds
  <2>2. PICK key \in DOMAIN contracts :
          w.contracts[i].address = key /\ w.contracts[i] = ContractNow(key)
    BY <2>1 DEF WalletStillHolds
  <2>3. contracts[key].status = "Active"
    BY <2>2
  <2> QED
    BY <2>1, <2>2, <2>3, RowStands
<1> QED
  BY <1>1, WhatWasSeenHolds, PTL

-----------------------------------------------------------------------------
(* What the demo tool measures over one step.                              *)

(* The view of a page that polls at the time the chain accrues at.         *)
LEMMA AccruedAtStep ==
  ASSUME ChainInv, AccrualFits
  PROVE  accruedView(PoolNow, Timestamp) = PoolAfter(Accrued)
<1>1. clock \in Nat /\ lastAccrued \in Nat
  BY ChainFacts, PoolAssumption, ScaleAssumption DEF Founded, PoolTypeOK, U64
<1>2. PoolNow.lastAccruedTs = lastAccrued
  BY DrawnFields DEF PoolNow
<1> DEFINE Elapsed(t) == IF t > lastAccrued THEN t - lastAccrued ELSE 0
<1>3. Elapsed(Timestamp) = Elapsed(clock)
  BY <1>1 DEF Timestamp
<1> HIDE DEF Elapsed
<1>4. \A t : accruedView(PoolNow, t) =
        [withBalances(PoolNow, afterAccrual(poolBalances(PoolNow),
                                            accrue(poolBalances(PoolNow), poolRates(PoolNow),
                                                   Elapsed(t) * PoolNow.params.timeScale)))
           EXCEPT !.modelTime = @ + Elapsed(t) * PoolNow.params.timeScale,
                  !.lastAccruedTs = @ + Elapsed(t)]
  BY <1>2 DEF accruedView, Elapsed
<1>5. accruedView(PoolNow, Timestamp) = accruedView(PoolNow, clock)
  BY <1>3, <1>4
<1> QED
  BY <1>5, AccruedIsDrawn

LEMMA NothingMismatches ==
  ASSUME NEW pairs, \A p \in pairs : p[2] = p[3]
  PROVE  mismatches(pairs) = {}
BY DEF mismatches

(* checkWaterfall: a loss, on top of the yield since the last accrual.     *)
LEMMA LossMeasured ==
  ASSUME ChainInv, NEW bps \in LossRates, RecordLoss(Founder, bps)
  PROVE  checkWaterfall(PoolNow, PoolNow', Losses'[lossCount + 1]) = {}
<1> DEFINE n == LossNow(bps)
           parts == LossSplit(bps)
           books == AfterLoss(Accrued, parts)
           event == Losses'[lossCount + 1]
           after == PoolNow'
           atEvent == accruedView(PoolNow, event.ts)
           expected == applyLoss(event.amount, atEvent.senior.assets, atEvent.junior.assets)
           senior == Accrued.nav["Senior"]
           junior == Accrued.nav["Junior"]
<1>1. AccrualFits /\ bps <= BPS
  BY DEF RecordLoss, LossAccepts
<1>2. /\ n \in Nat /\ n <= Accrued.assets /\ lossAmount(Accrued.assets, bps) = n
      /\ applyLoss(n, senior, junior).juniorLoss = parts["Junior"]
      /\ applyLoss(n, senior, junior).seniorLoss = parts["Senior"]
  BY <1>1, LossForeseen
<1>3. /\ Accrued.assets \in Nat /\ senior \in Nat /\ junior \in Nat /\ lossCount \in Nat
  <2>1. PoolInv /\ pool # NoPool /\ lossCount \in Nat
    BY ChainFacts, LossesDrawn DEF Founded
  <2>2. Accrued \in PoolBalances
    BY <1>1, <2>1, AccrualKeepsBooks
  <2> QED
    BY <2>1, <2>2, BalancesInU64
<1>4. /\ parts["Junior"] = Lesser(n, junior)
      /\ parts["Senior"] = n - parts["Junior"]
      /\ parts["Junior"] \in Nat
  <2>1. parts["Junior"] = Lesser(n, junior) /\ parts["Senior"] = n - Lesser(n, junior)
    BY DEF LossSplit, ApplyLoss, Tranches
  <2> QED
    BY <1>2, <1>3, <2>1 DEF Lesser
<1>5. /\ event.ts = Timestamp /\ event.amount = n
      /\ event.juniorLoss = parts["Junior"] /\ event.seniorLoss = parts["Senior"]
      /\ event.assetsBefore = Accrued.assets /\ event.assetsAfter = Accrued.assets - n
  <2>1. /\ lossCount' = lossCount + 1
        /\ events'[lossCount] = LossRecord(n, bps, parts)
    BY DEF RecordLoss
  <2>2. event = lossEventView(<<"loss", lossCount>>,
          [index |-> lossCount, ts |-> events'[lossCount].ts,
           modelTime |-> events'[lossCount].model_time,
           lossBps |-> events'[lossCount].loss_bps, amount |-> events'[lossCount].amount,
           juniorLoss |-> events'[lossCount].junior_loss,
           seniorLoss |-> events'[lossCount].senior_loss,
           assetsBefore |-> events'[lossCount].assets_before])
    BY <1>3, <2>1 DEF Losses
  <2> HIDE DEF n, parts, event
  <2> QED
    BY <2>1, <2>2 DEF LossRecord, lossEventView
<1>6. /\ after.assets = Accrued.assets - (parts["Senior"] + parts["Junior"])
      /\ after.senior.assets = senior - parts["Senior"]
      /\ after.junior.assets = junior - parts["Junior"]
  <2>1. balances' = books
    BY DEF RecordLoss
  <2>2. /\ books.assets = Accrued.assets - (parts["Senior"] + parts["Junior"])
        /\ books.nav["Senior"] = senior - parts["Senior"]
        /\ books.nav["Junior"] = junior - parts["Junior"]
    BY DEF AfterLoss, Tranches
  <2> HIDE DEF books
  <2>3. /\ after.assets = balances'.assets
        /\ after.senior.assets = balances'.nav["Senior"]
        /\ after.junior.assets = balances'.nav["Junior"]
    BY DEF PoolNow, PoolWith, poolView, trancheView
  <2> QED
    BY <2>1, <2>2, <2>3
<1>7. /\ atEvent.assets = Accrued.assets
      /\ atEvent.senior.assets = senior /\ atEvent.junior.assets = junior
  <2>1. atEvent = PoolAfter(Accrued)
    BY <1>1, <1>5, AccruedAtStep
  <2>2. /\ PoolAfter(Accrued).assets = Accrued.assets
        /\ PoolAfter(Accrued).senior.assets = senior
        /\ PoolAfter(Accrued).junior.assets = junior
    <3> DEFINE p == PoolWith(Accrued, modelTime + DtModel, Timestamp)
    <3>1. /\ p.assets = Accrued.assets
          /\ p.senior = trancheView("Senior", Accrued.nav["Senior"], Accrued.supply["Senior"])
          /\ p.junior = trancheView("Junior", Accrued.nav["Junior"], Accrued.supply["Junior"])
      BY DrawnFields
    <3> HIDE DEF p
    <3>2. p.senior.assets = senior /\ p.junior.assets = junior
      BY <3>1 DEF trancheView
    <3> QED
      BY <3>1, <3>2 DEF PoolAfter, p
  <2> QED
    BY <2>1, <2>2
<1> HIDE DEF n, parts, books, event, after, atEvent, senior, junior
<1>8. /\ event.assetsBefore = atEvent.assets
      /\ event.juniorLoss = expected.juniorLoss
      /\ event.seniorLoss = expected.seniorLoss
      /\ after.senior.assets = atEvent.senior.assets - event.seniorLoss
      /\ after.junior.assets = atEvent.junior.assets - event.juniorLoss
      /\ after.assets = event.assetsAfter
      /\ IF event.amount <= atEvent.junior.assets
         THEN after.senior.assets = atEvent.senior.assets
         ELSE event.seniorLoss = event.amount - atEvent.junior.assets
  BY <1>2, <1>3, <1>4, <1>5, <1>6, <1>7 DEF Lesser
<1>9. checkWaterfall(PoolNow, after, event) = {}
  <2> DEFINE shape ==
               IF event.amount <= atEvent.junior.assets
               THEN <<"senior untouched", after.senior.assets, atEvent.senior.assets>>
               ELSE <<"senior_loss = L - junior", event.seniorLoss,
                      event.amount - atEvent.junior.assets>>
             pairs ==
               {<<"assets_before", event.assetsBefore, atEvent.assets>>,
                <<"junior_loss", event.juniorLoss, expected.juniorLoss>>,
                <<"senior_loss", event.seniorLoss, expected.seniorLoss>>,
                <<"senior after", after.senior.assets, atEvent.senior.assets - event.seniorLoss>>,
                <<"junior after", after.junior.assets, atEvent.junior.assets - event.juniorLoss>>,
                <<"assets after", after.assets, event.assetsAfter>>,
                shape}
  <2>1. checkWaterfall(PoolNow, after, event) = mismatches(pairs)
    BY DEF checkWaterfall, atEvent
  <2>2. shape[2] = shape[3]
    BY <1>8
  <2> HIDE DEF shape, expected
  <2>3. ASSUME NEW p \in pairs PROVE p[2] = p[3]
    <3>1. CASE p = <<"assets_before", event.assetsBefore, atEvent.assets>>
      BY <1>8, <3>1
    <3>2. CASE p = <<"junior_loss", event.juniorLoss, expected.juniorLoss>>
      BY <1>8, <3>2
    <3>3. CASE p = <<"senior_loss", event.seniorLoss, expected.seniorLoss>>
      BY <1>8, <3>3
    <3>4. CASE p = <<"senior after", after.senior.assets, atEvent.senior.assets - event.seniorLoss>>
      BY <1>8, <3>4
    <3>5. CASE p = <<"junior after", after.junior.assets, atEvent.junior.assets - event.juniorLoss>>
      BY <1>8, <3>5
    <3>6. CASE p = <<"assets after", after.assets, event.assetsAfter>>
      BY <1>8, <3>6
    <3>7. CASE p = shape
      BY <2>2, <3>7
    <3> QED
      BY <3>1, <3>2, <3>3, <3>4, <3>5, <3>6, <3>7
  <2> QED
    BY <2>1, <2>3, NothingMismatches
<1> QED
  BY <1>9 DEF after, event

(* checkPurchase: what the buyer pays arrives, less the fee.               *)
LEMMA PurchaseMeasured ==
  ASSUME ChainInv, NEW u \in Users, NEW notional \in CoverAmounts, NEW days \in TermDays,
         BuyProtection(u, notional, days * DAY_SECONDS, bought), NEW key, key = <<u, bought>>
  PROVE  checkPurchase(ContractNow(key)', days * DAY_SECONDS, base[u], base'[u],
                       MarketNow, MarketNow') = {}
<1> DEFINE term == days * DAY_SECONDS
           contract == ContractNow(key)'
           before == MarketNow
           after == MarketNow'
           P == Price(notional, term)
           F == PriceFee(notional, term)
           want == premium(contract.notional, before.params.premiumRateBps, term)
           fee == premiumFee(want, before.params.premiumFeeBps)
<1>1. /\ BuyAccepts(u, notional, term, bought)
      /\ base' = BoughtBase(u, notional, term)
      /\ collateral' = collateral + PriceNet(notional, term)
      /\ contracts'[key] = Bought(notional, term)
      /\ reserved' = reserved + notional /\ shareSupply' = shareSupply
  BY DEF BuyProtection
<1>2. /\ term \in Nat /\ notional \in U64 /\ notional \in Nat /\ key[1] = u
  BY TermsOffered, ProtectionAssumption, ScaleAssumption DEF U64
<1>3. /\ AccrualFits /\ P \in U64
  BY <1>1 DEF BuyAccepts
<1>4. /\ P \in Nat /\ F \in 0 .. P /\ F \in U64 /\ PriceNet(notional, term) = P - F
  BY <1>2, <1>3, PriceIs, ScaleAssumption DEF PriceNet, U64
<1>5. /\ contract.notional = notional /\ contract.premium = P /\ contract.status = "Active"
      /\ contract.startModelTime = modelTime + DtModel
      /\ contract.expiryModelTime = modelTime + DtModel + term
  BY <1>1 DEF ContractNow, contractView, Bought, NewContract
<1>6. /\ before.params.premiumRateBps = cover.premium_rate_bps
      /\ before.params.premiumFeeBps = cover.premium_fee_bps
      /\ before.collateral = collateral /\ before.reserved = reserved
      /\ before.shareSupply = shareSupply
  BY MarketDrawn
<1>7. /\ after.collateral = collateral' /\ after.reserved = reserved'
      /\ after.shareSupply = shareSupply'
  BY DEF MarketNow, protectionView
<1>8. want = P /\ fee = F
  <2>1. want = toU64(P)
    <3>1. want = premium(notional, cover.premium_rate_bps, term)
      BY <1>5, <1>6
    <3>2. premium(notional, cover.premium_rate_bps, term) = toU64(P)
      BY PartsMirrored DEF Price
    <3> QED
      BY <3>1, <3>2
  <2>2. want = P
    BY <1>3, <2>1, ToU64
  <2>3. fee = toU64(F)
    BY <1>6, <2>2, PartsMirrored DEF PriceFee
  <2> QED
    BY <1>4, <2>2, <2>3, ToU64
<1>9. base[u] \in Nat /\ base'[u] = base[u] - P
  <2>1. AccruedBase \in [Accounts -> Nat] /\ AccruedBase[u] = base[u] /\ base[u] \in Nat
    BY <1>3, AccruedTokens
  <2> QED
    BY <1>1, <2>1, AccountsApart DEF BoughtBase
<1>10. modelTime + DtModel \in Int /\ collateral \in Int
  BY ProjectedNow, MarketNumbers
<1> HIDE DEF contract, before, after, P, F, want, fee, term
<1>11. /\ contract.premium = want
       /\ contract.expiryModelTime - contract.startModelTime = term
       /\ contract.status = "Active"
       /\ base[u] - base'[u] = want
       /\ after.collateral = before.collateral + want - fee
       /\ after.reserved = before.reserved + contract.notional
       /\ after.shareSupply = before.shareSupply
  BY <1>1, <1>2, <1>4, <1>5, <1>6, <1>7, <1>8, <1>9, <1>10
<1> DEFINE pairs == {<<"premium", contract.premium, want>>,
                     <<"term", contract.expiryModelTime - contract.startModelTime, term>>,
                     <<"status", contract.status, "Active">>,
                     <<"buyer paid", base[u] - base'[u], want>>,
                     <<"collateral", after.collateral, before.collateral + want - fee>>,
                     <<"reserved", after.reserved, before.reserved + contract.notional>>,
                     <<"share supply", after.shareSupply, before.shareSupply>>}
<1>12. ASSUME NEW p \in pairs PROVE p[2] = p[3]
  <2>1. CASE p = <<"premium", contract.premium, want>>
    BY <1>11, <2>1
  <2>2. CASE p = <<"term", contract.expiryModelTime - contract.startModelTime, term>>
    BY <1>11, <2>2
  <2>3. CASE p = <<"status", contract.status, "Active">>
    BY <1>11, <2>3
  <2>4. CASE p = <<"buyer paid", base[u] - base'[u], want>>
    BY <1>11, <2>4
  <2>5. CASE p = <<"collateral", after.collateral, before.collateral + want - fee>>
    BY <1>11, <2>5
  <2>6. CASE p = <<"reserved", after.reserved, before.reserved + contract.notional>>
    BY <1>11, <2>6
  <2>7. CASE p = <<"share supply", after.shareSupply, before.shareSupply>>
    BY <1>11, <2>7
  <2> QED
    BY <2>1, <2>2, <2>3, <2>4, <2>5, <2>6, <2>7
<1>13. checkPurchase(contract, term, base[u], base'[u], before, after) = mismatches(pairs)
  BY DEF checkPurchase, want, fee
<1> QED
  BY <1>12, <1>13, NothingMismatches DEF contract, term, before, after

(* checkSettle: the claim leaves the collateral and arrives.               *)
LEMMA ClaimMeasured ==
  ASSUME ChainInv, NEW key \in DOMAIN contracts, NEW i \in DOMAIN events,
         SettleProtection(key, i)
  PROVE  /\ i + 1 \in DOMAIN Losses
         /\ checkSettle(ContractNow(key)', Losses[i + 1], base[key[1]], base'[key[1]],
                        MarketNow, MarketNow') = {}
<1> DEFINE contract == ContractNow(key)'
           event == Losses[i + 1]
           before == MarketNow
           after == MarketNow'
           u == key[1]
           paid == Claim(key, i)
           want == payout(contract.notional, event.lossBps)
<1>1. /\ SettleAccepts(key, i)
      /\ base' = PaidFromMarket(u, paid)
      /\ collateral' = collateral - paid /\ reserved' = reserved - contracts[key].notional
      /\ contracts'[key] = Closed(contracts[key], "Settled", i, paid)
  BY DEF SettleProtection, AfterSettle
<1>2. /\ CoverInv /\ SumsInv /\ PoolInv /\ contracts[key].notional \in Nat
      /\ contracts[key].notional \in U64 /\ u \in Users
      /\ collateral \in Nat /\ reserved \in Nat /\ base \in TokenAccounts
  BY MarketNumbers, ChainFacts, ContractFields DEF Contract, PoolTypeOK
<1>3. /\ i + 1 \in DOMAIN Losses
      /\ event.index = i /\ event.lossBps = events[i].loss_bps /\ event.lossBps \in 0 .. BPS
  <2>1. lossCount \in Nat /\ DOMAIN events = 0 .. lossCount - 1 /\ DOMAIN Losses = 1 .. lossCount
    BY LossesDrawn
  <2>2. i + 1 \in DOMAIN Losses /\ i + 1 - 1 = i
    BY <2>1
  <2> QED
    BY <2>2, LossesDrawn
<1>4. paid \in U64 /\ paid \in Nat
  <2>1. paid \in 0 .. contracts[key].notional
    BY <1>2, <1>3, ScaleAssumption, MulBpsIsPart DEF Claim, Payout
  <2> QED
    BY <1>2, <2>1, ScaleAssumption DEF U64
<1>5. /\ contract.notional = contracts[key].notional /\ contract.payout = paid
      /\ contract.status = "Settled" /\ contract.settledLossIndex = i
  BY <1>1 DEF ContractNow, contractView, Closed
<1>6. want = paid
  <2>1. ~(event.lossBps > BPS)
    BY <1>3, ScaleAssumption
  <2>2. want = toU64(paid)
    BY <1>3, <1>5, <2>1, PartsMirrored DEF Claim
  <2> QED
    BY <1>4, <2>2, ToU64
<1>7. base[u] \in Nat /\ base'[u] = base[u] + paid
  <2>1. DOMAIN base = Accounts /\ base[u] \in Nat
    BY <1>2, AccountsApart, TokensAreNatural
  <2> QED
    BY <1>1, <1>2, <2>1, AccountsApart DEF PaidFromMarket
<1>8. /\ before.collateral = collateral /\ before.reserved = reserved
      /\ after.collateral = collateral' /\ after.reserved = reserved'
  BY DEF MarketNow, protectionView
<1> HIDE DEF contract, event, before, after, u, paid, want
<1>9. /\ base'[u] - base[u] = want /\ contract.payout = want
      /\ contract.status = "Settled" /\ contract.settledLossIndex = event.index
      /\ after.collateral = before.collateral - want
      /\ after.reserved = before.reserved - contract.notional
  BY <1>1, <1>2, <1>3, <1>4, <1>5, <1>6, <1>7, <1>8
<1> DEFINE pairs == {<<"buyer received", base'[u] - base[u], want>>,
                     <<"contract payout", contract.payout, want>>,
                     <<"status", contract.status, "Settled">>,
                     <<"settled loss index", contract.settledLossIndex, event.index>>,
                     <<"collateral", after.collateral, before.collateral - want>>,
                     <<"reserved", after.reserved, before.reserved - contract.notional>>}
<1>10. ASSUME NEW p \in pairs PROVE p[2] = p[3]
  <2>1. CASE p = <<"buyer received", base'[u] - base[u], want>>
    BY <1>9, <2>1
  <2>2. CASE p = <<"contract payout", contract.payout, want>>
    BY <1>9, <2>2
  <2>3. CASE p = <<"status", contract.status, "Settled">>
    BY <1>9, <2>3
  <2>4. CASE p = <<"settled loss index", contract.settledLossIndex, event.index>>
    BY <1>9, <2>4
  <2>5. CASE p = <<"collateral", after.collateral, before.collateral - want>>
    BY <1>9, <2>5
  <2>6. CASE p = <<"reserved", after.reserved, before.reserved - contract.notional>>
    BY <1>9, <2>6
  <2> QED
    BY <2>1, <2>2, <2>3, <2>4, <2>5, <2>6
<1>11. checkSettle(contract, event, base[u], base'[u], before, after) = mismatches(pairs)
  BY DEF checkSettle, want
<1> QED
  BY <1>3, <1>10, <1>11, NothingMismatches DEF contract, event, before, after, u

(* checkExpire: only the reserve is released.                              *)
LEMMA ExpiryMeasured ==
  ASSUME ChainInv, NEW signer, NEW key \in DOMAIN contracts, ExpireProtection(signer, key)
  PROVE  checkExpire(ContractNow(key)', MarketNow, MarketNow') = {}
<1> DEFINE contract == ContractNow(key)'
           before == MarketNow
           after == MarketNow'
<1>1. /\ contracts[key].status = "Active" /\ reserved' = reserved - contracts[key].notional
      /\ collateral' = collateral
      /\ contracts'[key] = Closed(contracts[key], "Expired", contracts[key].settled_loss_index,
                                  contracts[key].payout)
  BY DEF ExpireProtection, ExpireAccepts, IsActive
<1>2. contracts[key].payout = 0
  BY <1>1, ChainFacts DEF CoverInv, ContractsOK, ContractOK
<1>3. /\ contract.notional = contracts[key].notional
      /\ contract.status = "Expired" /\ contract.payout = 0
  BY <1>1, <1>2 DEF ContractNow, contractView, Closed
<1>4. /\ before.collateral = collateral /\ before.reserved = reserved
      /\ after.collateral = collateral' /\ after.reserved = reserved'
  BY DEF MarketNow, protectionView
<1> HIDE DEF contract, before, after
<1> DEFINE pairs == {<<"status", contract.status, "Expired">>,
                     <<"payout", contract.payout, 0>>,
                     <<"reserved", after.reserved, before.reserved - contract.notional>>,
                     <<"collateral", after.collateral, before.collateral>>}
<1>5. ASSUME NEW p \in pairs PROVE p[2] = p[3]
  <2>1. CASE p = <<"status", contract.status, "Expired">>
    BY <1>3, <2>1
  <2>2. CASE p = <<"payout", contract.payout, 0>>
    BY <1>3, <2>2
  <2>3. CASE p = <<"reserved", after.reserved, before.reserved - contract.notional>>
    BY <1>1, <1>3, <1>4, <2>3
  <2>4. CASE p = <<"collateral", after.collateral, before.collateral>>
    BY <1>1, <1>4, <2>4
  <2> QED
    BY <2>1, <2>2, <2>3, <2>4
<1>6. checkExpire(contract, before, after) = mismatches(pairs)
  BY DEF checkExpire
<1> QED
  BY <1>5, <1>6, NothingMismatches DEF contract, before, after

(* A market with one seller: as long as the founder has withdrawn nothing, *)
(* the collateral is what was provided, with all premiums, without the     *)
(* fees and the payouts.                                                   *)
AloneInv ==
  /\ shareSupply = positions[Founder] /\ positions[Founder] <= Provided
  /\ positions[Founder] = Provided =>
       collateral + Total(Fees, DOMAIN contracts) + Total(Of("payout"), DOMAIN contracts)
         = Provided + Total(Of("premium"), DOMAIN contracts)

LEMMA TotalOfMore ==
  ASSUME NEW S, IsFiniteSet(S), NEW f, \A x \in S : f[x] \in Nat,
         NEW k, k \notin S, NEW g, \A x \in S : g[x] = f[x], g[k] \in Nat
  PROVE  Total(g, S \cup {k}) = Total(f, S) + g[k]
<1> DEFINE T == S \cup {k}
<1>1. IsFiniteSet(T) /\ k \in T /\ T \ {k} = S
  BY FS_AddElement
<1>2. \A x \in T : g[x] \in Nat
  OBVIOUS
<1> HIDE DEF T
<1>3. Total(g, T) = Total(g, T \ {k}) + g[k]
  BY <1>1, <1>2, TotalSplits
<1>4. Total(g, S) = Total(f, S)
  BY TotalOfSame
<1> QED
  BY <1>1, <1>3, <1>4 DEF T

(* The fee of a premium, as the tool computes it.                          *)
LEMMA FeeMeasured ==
  ASSUME ChainInv, NEW P \in U64
  PROVE  /\ premiumFee(P, cover.premium_fee_bps) = PremiumFee(P, cover.premium_fee_bps)
         /\ premiumFee(P, cover.premium_fee_bps) \in 0 .. P
<1> DEFINE F == PremiumFee(P, cover.premium_fee_bps)
<1>1. cover.premium_fee_bps \in 0 .. BPS /\ P \in Nat
  BY MarketNumbers, ScaleAssumption DEF U64
<1>2. F \in 0 .. P
  BY <1>1, MulBpsIsPart DEF PremiumFee
<1>3. F \in U64
  <2> HIDE DEF F
  <2> QED
    BY <1>1, <1>2, ScaleAssumption DEF U64
<1>4. premiumFee(P, cover.premium_fee_bps) = toU64(F)
  BY PartsMirrored
<1> QED
  BY <1>2, <1>3, <1>4, ToU64

LEMMA MeasuredParts ==
  ASSUME ChainInv
  PROVE  /\ IsFiniteSet(DOMAIN contracts)
         /\ \A key \in DOMAIN contracts : /\ Of("premium")[key] \in Nat
                                          /\ Of("payout")[key] \in Nat
                                          /\ Fees[key] \in Nat
         /\ Total(Of("premium"), DOMAIN contracts) \in Nat
         /\ Total(Of("payout"), DOMAIN contracts) \in Nat
         /\ Total(Fees, DOMAIN contracts) \in Nat
<1>1. CoverInv /\ IsFiniteSet(DOMAIN contracts)
  BY ChainFacts DEF SumsInv, ContractsAreFinite
<1>2. ASSUME NEW key \in DOMAIN contracts
      PROVE  /\ Of("premium")[key] \in Nat /\ Of("payout")[key] \in Nat /\ Fees[key] \in Nat
  <2>1. contracts[key].premium \in U64 /\ contracts[key].payout \in U64
    BY <1>1, ContractFields DEF Contract
  <2>2. premiumFee(contracts[key].premium, cover.premium_fee_bps) \in Nat
    BY <2>1, FeeMeasured, ScaleAssumption DEF U64
  <2> QED
    BY <2>1, <2>2, ScaleAssumption DEF Of, Fees, U64
<1> QED
  BY <1>1, <1>2, TotalIsNatural

LEMMA AloneInit ==
  ASSUME DeskInit
  PROVE  AloneInv
<1> DEFINE key == <<Saver, 0>>
<1>1. /\ contracts = [k \in {key} |-> FirstContract]
      /\ DOMAIN contracts = {key} /\ contracts[key] = FirstContract
  <2>1. contracts = [k \in {key} |-> FirstContract]
    BY DEF DeskInit, FirstContract, FirstPremium, FirstTerm
  <2> QED
    BY <2>1
<1>2. /\ FirstContract.premium = FirstPremium /\ FirstContract.payout = 0
  BY DEF FirstContract
<1>3. /\ FirstPremium \in Nat /\ FirstPremium \in U64 /\ FirstFee \in Nat /\ Provided \in Nat
      /\ Founder \in Users
  <2>1. Purse \in U64
    BY DeskAssumption
  <2> QED
    BY <2>1, FirstNumbers, ScaleAssumption DEF U64
<1>4. premiumFee(FirstPremium, cover.premium_fee_bps) = FirstFee
  BY <1>3, ChainInvInit, FeeMeasured DEF FirstFee
<1>5. /\ Of("premium")[key] = FirstPremium /\ Of("payout")[key] = 0 /\ Fees[key] = FirstFee
  BY <1>1, <1>2, <1>4 DEF Of, Fees
<1>6. /\ shareSupply = Provided /\ positions[Founder] = Provided
      /\ collateral = Provided + FirstPremium - FirstFee
  BY <1>3 DEF DeskInit, FirstPremium, FirstFee, FirstTerm
<1>7. /\ IsFiniteSet({key}) /\ Cardinality({key}) = 1
  BY FS_Singleton
<1> HIDE DEF key
<1>8. /\ Total(Of("premium"), {key}) = FirstPremium
      /\ Total(Of("payout"), {key}) = 0
      /\ Total(Fees, {key}) = FirstFee
  <2>1. \A f, n : n \in Nat /\ f[key] = n => Total(f, {key}) = n * Cardinality({key})
    BY <1>7, TotalOfConstant
  <2>2. /\ Total(Of("premium"), {key}) = FirstPremium * 1
        /\ Total(Of("payout"), {key}) = 0 * 1
        /\ Total(Fees, {key}) = FirstFee * 1
    BY <1>3, <1>5, <1>7, <2>1
  <2> QED
    BY <1>3, <2>2
<1> QED
  BY <1>1, <1>3, <1>6, <1>8 DEF AloneInv

(* A purchase brings the premium in and takes the fee out.                 *)
LEMMA AloneBuys ==
  ASSUME ChainInv, AloneInv, NEW u \in Users, NEW notional \in CoverAmounts,
         NEW days \in TermDays, BuyProtection(u, notional, days * DAY_SECONDS, bought)
  PROVE  AloneInv'
<1> DEFINE term == days * DAY_SECONDS
           P == Price(notional, term)
           F == PriceFee(notional, term)
           D == DOMAIN contracts
<1>1. PICK key : key = <<u, bought>>
  OBVIOUS
<1>2. /\ BuyAccepts(u, notional, term, bought)
      /\ collateral' = collateral + PriceNet(notional, term)
      /\ contracts' = [k \in DOMAIN contracts \cup {key} |->
                         IF k = key THEN Bought(notional, term) ELSE contracts[k]]
      /\ shareSupply' = shareSupply /\ positions' = positions /\ cover' = cover
  BY <1>1 DEF BuyProtection
<1>3. key \notin D /\ DOMAIN contracts' = D \cup {key} /\ P \in U64
  BY <1>1, <1>2 DEF BuyAccepts
<1>4. notional \in U64 /\ term \in Nat
  BY TermsOffered, ProtectionAssumption
<1>5. /\ P \in Nat /\ F \in Nat /\ PriceNet(notional, term) = P - F
      /\ collateral \in Nat /\ Provided \in Nat
  BY <1>4, PriceIs, MarketNumbers, DeskAssumption DEF PriceNet, U64
<1>6. premiumFee(P, cover.premium_fee_bps) = F
  BY <1>3, FeeMeasured DEF PriceFee
<1>7. /\ contracts'[key].premium = P /\ contracts'[key].payout = 0
      /\ \A k \in D : contracts'[k] = contracts[k]
  <2>1. contracts'[key] = Bought(notional, term)
    BY <1>2
  <2>2. Bought(notional, term).premium = P /\ Bought(notional, term).payout = 0
    BY DEF Bought, NewContract
  <2> QED
    BY <1>2, <1>3, <2>1, <2>2
<1> HIDE DEF P, F, D, term
<1>8. /\ Of("premium")'[key] = P /\ Of("payout")'[key] = 0 /\ Fees'[key] = F
      /\ \A k \in D : /\ Of("premium")'[k] = Of("premium")[k]
                      /\ Of("payout")'[k] = Of("payout")[k]
                      /\ Fees'[k] = Fees[k]
  BY <1>2, <1>3, <1>6, <1>7 DEF Of, Fees, D
<1>9. /\ IsFiniteSet(D)
      /\ \A k \in D : Of("premium")[k] \in Nat /\ Of("payout")[k] \in Nat /\ Fees[k] \in Nat
      /\ Total(Of("premium"), D) \in Nat /\ Total(Of("payout"), D) \in Nat
      /\ Total(Fees, D) \in Nat
  BY MeasuredParts DEF D
<1>10. Total(Of("premium")', D \cup {key}) = Total(Of("premium"), D) + P
  <2>1. PICK f, g : f = Of("premium") /\ g = Of("premium")'
    OBVIOUS
  <2>2. (\A k \in D : f[k] \in Nat /\ g[k] = f[k]) /\ g[key] = P
    BY <1>8, <1>9, <2>1
  <2>3. Total(g, D \cup {key}) = Total(f, D) + P
    BY <1>3, <1>5, <1>9, <2>2, TotalOfMore
  <2> QED
    BY <2>1, <2>3
<1>11. Total(Of("payout")', D \cup {key}) = Total(Of("payout"), D) + 0
  <2>1. PICK f, g : f = Of("payout") /\ g = Of("payout")'
    OBVIOUS
  <2>2. (\A k \in D : f[k] \in Nat /\ g[k] = f[k]) /\ g[key] = 0
    BY <1>8, <1>9, <2>1
  <2>3. g[key] \in Nat /\ \A k \in D : f[k] \in Nat /\ g[k] = f[k]
    BY <2>2
  <2>4. Total(g, D \cup {key}) = Total(f, D) + g[key]
    <3>1. key \notin D /\ IsFiniteSet(D)
      BY <1>3, <1>9
    <3> HIDE DEF D
    <3> QED
      BY <2>3, <3>1, TotalOfMore
  <2> QED
    BY <2>1, <2>2, <2>4
<1>12. Total(Fees', D \cup {key}) = Total(Fees, D) + F
  BY <1>3, <1>5, <1>8, <1>9, TotalOfMore
<1>13. /\ shareSupply' = positions'[Founder] /\ positions'[Founder] <= Provided
       /\ positions'[Founder] = Provided =>
            collateral' + Total(Fees', D \cup {key}) + Total(Of("payout")', D \cup {key})
              = Provided + Total(Of("premium")', D \cup {key})
  <2>1. positions[Founder] = Provided =>
          collateral + Total(Fees, D) + Total(Of("payout"), D)
            = Provided + Total(Of("premium"), D)
    BY DEF AloneInv, D
  <2> QED
    BY <1>2, <1>5, <1>9, <1>10, <1>11, <1>12, <2>1 DEF AloneInv
<1> QED
  BY <1>3, <1>13 DEF AloneInv

(* A claim takes out what it pays.                                         *)
LEMMA AlonePays ==
  ASSUME ChainInv, AloneInv, NEW key \in DOMAIN contracts, NEW i \in DOMAIN events,
         SettleProtection(key, i)
  PROVE  AloneInv'
<1> DEFINE D == DOMAIN contracts
           paid == Claim(key, i)
<1>1. /\ contracts[key].status = "Active"
      /\ collateral' = collateral - paid
      /\ contracts' = [contracts EXCEPT ![key] = Closed(contracts[key], "Settled", i, paid)]
      /\ shareSupply' = shareSupply /\ positions' = positions /\ cover' = cover
  BY DEF SettleProtection, AfterSettle, SettleAccepts, IsActive
<1>2. /\ contracts[key].payout = 0 /\ collateral \in Nat /\ Provided \in Nat
      /\ contracts[key].notional \in Nat /\ events[i].loss_bps \in 0 .. BPS
  <2>1. CoverInv /\ PoolInv /\ contracts[key].payout = 0
    BY <1>1, ChainFacts DEF CoverInv, ContractsOK, ContractOK
  <2>2. events[i].loss_bps \in 0 .. BPS
    BY <2>1, EventFields
  <2> QED
    BY <2>1, <2>2, MarketNumbers, ContractFields, DeskAssumption DEF U64
<1>3. paid \in Nat
  <2>1. paid \in 0 .. contracts[key].notional
    BY <1>2, MulBpsIsPart DEF Claim, Payout
  <2> QED
    BY <1>2, <2>1
<1>4. /\ DOMAIN contracts' = D
      /\ contracts'[key].premium = contracts[key].premium /\ contracts'[key].payout = paid
      /\ \A k \in D \ {key} : contracts'[k] = contracts[k]
  <2>1. contracts'[key] = Closed(contracts[key], "Settled", i, paid)
    BY <1>1
  <2> HIDE DEF paid
  <2> QED
    BY <1>1, <2>1 DEF Closed
<1> HIDE DEF D, paid
<1>5. /\ \A k \in D : Of("premium")'[k] = Of("premium")[k] /\ Fees'[k] = Fees[k]
      /\ Of("payout")'[key] = paid /\ Of("payout")[key] = 0
      /\ \A k \in D \ {key} : Of("payout")'[k] = Of("payout")[k]
  <2>1. ASSUME NEW k \in D
        PROVE  Of("premium")'[k] = Of("premium")[k] /\ Fees'[k] = Fees[k]
    <3>1. contracts'[k].premium = contracts[k].premium
      BY <1>4
    <3> QED
      BY <1>1, <1>4, <3>1 DEF Of, Fees, D
  <2>2. /\ Of("payout")'[key] = paid /\ Of("payout")[key] = 0
        /\ \A k \in D \ {key} : Of("payout")'[k] = Of("payout")[k]
    BY <1>2, <1>4 DEF Of, D
  <2> QED
    BY <2>1, <2>2
<1>6. /\ IsFiniteSet(D) /\ key \in D
      /\ \A k \in D : Of("premium")[k] \in Nat /\ Of("payout")[k] \in Nat /\ Fees[k] \in Nat
      /\ Total(Of("premium"), D) \in Nat /\ Total(Of("payout"), D) \in Nat
      /\ Total(Fees, D) \in Nat
  BY MeasuredParts DEF D
<1>7. /\ Total(Of("premium")', D) = Total(Of("premium"), D)
      /\ Total(Fees', D) = Total(Fees, D)
  BY <1>5, TotalOfSame
<1>8. Total(Of("payout")', D) = Total(Of("payout"), D) + paid
  <2>1. \A k \in D : Of("payout")'[k] \in Nat
    BY <1>3, <1>5, <1>6
  <2>2. Total(Of("payout")', D)
          = Total(Of("payout"), D) + (Of("payout")'[key] - Of("payout")[key])
    BY <1>5, <1>6, <2>1, TotalUpdates
  <2> QED
    BY <1>3, <1>5, <1>6, <2>2
<1>9. /\ shareSupply' = positions'[Founder] /\ positions'[Founder] <= Provided
      /\ positions'[Founder] = Provided =>
           collateral' + Total(Fees', D) + Total(Of("payout")', D)
             = Provided + Total(Of("premium")', D)
  <2>1. positions[Founder] = Provided =>
          collateral + Total(Fees, D) + Total(Of("payout"), D)
            = Provided + Total(Of("premium"), D)
    BY DEF AloneInv, D
  <2> QED
    BY <1>1, <1>2, <1>3, <1>6, <1>7, <1>8, <2>1 DEF AloneInv
<1> QED
  BY <1>4, <1>9 DEF AloneInv

(* What leaves the collateral and what was agreed leaves the sums.         *)
LEMMA AloneStays ==
  ASSUME AloneInv, UNCHANGED <<collateral, shareSupply, positions, cover>>,
         DOMAIN contracts' = DOMAIN contracts,
         \A k \in DOMAIN contracts : /\ contracts'[k].premium = contracts[k].premium
                                     /\ contracts'[k].payout = contracts[k].payout
  PROVE  AloneInv'
<1> DEFINE D == DOMAIN contracts
<1>1. \A k \in D : /\ Of("premium")'[k] = Of("premium")[k]
                   /\ Of("payout")'[k] = Of("payout")[k]
                   /\ Fees'[k] = Fees[k]
  BY DEF Of, Fees
<1> HIDE DEF D
<1>2. /\ Total(Of("premium")', D) = Total(Of("premium"), D)
      /\ Total(Of("payout")', D) = Total(Of("payout"), D)
      /\ Total(Fees', D) = Total(Fees, D)
  BY <1>1, TotalOfSame
<1>3. DOMAIN contracts' = D /\ DOMAIN contracts = D
  BY DEF D
<1> QED
  BY <1>2, <1>3 DEF AloneInv

LEMMA AloneNext ==
  ASSUME ChainInv, AloneInv, [DeskNext]_deskVars
  PROVE  AloneInv'
<1>1. CASE UNCHANGED coverVars
  BY <1>1, AloneStays DEF coverVars
<1>2. ASSUME NEW u \in Users, NEW notional \in CoverAmounts, NEW days \in TermDays,
             BuyProtection(u, notional, days * DAY_SECONDS, bought)
      PROVE  AloneInv'
  BY <1>2, AloneBuys
<1>3. ASSUME NEW shares \in CoverAmounts \cup {positions[Founder]},
             WithdrawProtection(Founder, shares)
      PROVE  AloneInv'
  <2>1. /\ shares > 0 /\ shares <= positions[Founder]
        /\ shareSupply' = shareSupply - shares
        /\ positions' = [positions EXCEPT ![Founder] = @ - shares]
    BY <1>3 DEF WithdrawProtection, WithdrawAccepts
  <2>2. /\ Founder \in Users /\ positions \in [Users -> U64] /\ positions[Founder] \in Nat
        /\ shares \in Nat /\ Provided \in Nat
    BY ChainFacts, MarketNumbers, DeskAssumption, ProtectionAssumption, ScaleAssumption
       DEF CoverTypeOK, SellerPositions, U64
  <2>3. positions'[Founder] = positions[Founder] - shares
    BY <2>1, <2>2
  <2> QED
    BY <2>1, <2>2, <2>3 DEF AloneInv
<1>4. ASSUME NEW key \in DOMAIN contracts, NEW i \in DOMAIN events, SettleProtection(key, i)
      PROVE  AloneInv'
  BY <1>4, AlonePays
<1>5. ASSUME NEW u \in Users, NEW key \in DOMAIN contracts, ExpireProtection(u, key)
      PROVE  AloneInv'
  <2>1. /\ contracts' = [contracts EXCEPT ![key] = Closed(contracts[key], "Expired",
                           contracts[key].settled_loss_index, contracts[key].payout)]
        /\ UNCHANGED <<collateral, shareSupply, positions, cover>>
    BY <1>5 DEF ExpireProtection
  <2>2. DOMAIN contracts' = DOMAIN contracts
    BY <2>1
  <2>3. ASSUME NEW k \in DOMAIN contracts
        PROVE  /\ contracts'[k].premium = contracts[k].premium
               /\ contracts'[k].payout = contracts[k].payout
    BY <2>1 DEF Closed
  <2> QED
    BY <2>1, <2>2, <2>3, AloneStays
<1>6. CASE UNCHANGED deskVars
  BY <1>1, <1>6 DEF deskVars, coverVars
<1>7. CASE DeskNext
  <2>1. CASE UNCHANGED vars
    BY <1>1, <2>1 DEF vars, coverVars
  <2>2. CASE MarketStep
    BY <1>2, <1>3, <1>4, <1>5, <2>2 DEF MarketStep
  <2> QED
    BY <1>1, <1>7, <2>1, <2>2, DeskCases
<1> QED
  BY <1>6, <1>7

(* Only a recorded loss adds to the list of losses.                        *)
LEMMA LossesCounted ==
  ASSUME DeskNext
  PROVE  lossCount' = lossCount \/ \E bps \in LossRates : RecordLoss(Founder, bps)
<1>1. CASE PoolStep
  BY <1>1 DEF PoolStep, Accrue, Deposit, Redeem
<1>2. CASE MarketStep
  BY <1>2 DEF MarketStep, BuyProtection, WithdrawProtection, SettleProtection, ExpireProtection
<1>3. CASE TimePasses
  BY <1>3 DEF TimePasses, ClockMoves
<1>4. CASE UNCHANGED vars
  BY <1>4 DEF vars
<1> QED
  BY <1>1, <1>2, <1>3, <1>4 DEF DeskNext, Send, PollPool, PollMarket, PollWallet

(* A contract whose status stays is not one that closes.                   *)
LEMMA NoneCloses ==
  ASSUME NEW status \in {"Settled", "Expired"},
         NEW K, \A key \in DOMAIN contracts \ K : contracts'[key].status = contracts[key].status
  PROVE  Closing(status) \subseteq K
BY DEF Closing

(* checkSeller: the one seller there is, leaving with everything.          *)
LEMMA SellerMeasured ==
  ASSUME ChainInv, AloneInv, NEW shares \in CoverAmounts \cup {positions[Founder]},
         WithdrawProtection(Founder, shares), positions[Founder] = Provided, positions'[Founder] = 0
  PROVE  checkSeller(Provided, base'[Founder] - base[Founder],
                     Total(Of("premium"), DOMAIN contracts), Total(Fees, DOMAIN contracts),
                     Total(Of("payout"), DOMAIN contracts), TRUE) = {}
<1> DEFINE premiums == Total(Of("premium"), DOMAIN contracts)
           fees == Total(Fees, DOMAIN contracts)
           paid == Total(Of("payout"), DOMAIN contracts)
           amount == Withdrawn(shares)
           got == base'[Founder] - base[Founder]
           want == Provided + premiums - fees - paid
<1>1. /\ Founder \in Users /\ Provided \in Nat \ {0}
      /\ CoverInv /\ PoolInv /\ collateral \in Nat /\ base \in TokenAccounts
      /\ positions \in [Users -> U64] /\ shares \in Nat
  <2>1. Founder \in Users /\ Provided \in Nat \ {0}
    BY DeskAssumption, ScaleAssumption DEF U64
  <2>2. CoverInv /\ PoolInv /\ collateral \in Nat /\ base \in TokenAccounts
    BY ChainFacts, MarketNumbers DEF PoolTypeOK
  <2>3. positions \in [Users -> U64]
    BY ChainFacts DEF CoverTypeOK, SellerPositions
  <2>4. shares \in Nat
    BY <2>1, <2>3, ProtectionAssumption, ScaleAssumption DEF U64
  <2> QED
    BY <2>1, <2>2, <2>3, <2>4
<1>2. /\ shares > 0 /\ shares <= positions[Founder]
      /\ base' = PaidFromMarket(Founder, amount)
      /\ positions' = [positions EXCEPT ![Founder] = @ - shares]
  BY DEF WithdrawProtection, WithdrawAccepts
<1>3. shares = Provided /\ shares = shareSupply
  <2>1. positions'[Founder] = positions[Founder] - shares
    BY <1>1, <1>2
  <2> QED
    BY <1>1, <2>1 DEF AloneInv
<1>4. amount = collateral
  BY <1>1, <1>3, RedeemKeepsPrice DEF Withdrawn, CollateralForShares
<1>5. premiums \in Nat /\ fees \in Nat /\ paid \in Nat
  BY MeasuredParts
<1>6. collateral + fees + paid = Provided + premiums
  BY DEF AloneInv
<1>7. base[Founder] \in Nat /\ base'[Founder] = base[Founder] + amount
  <2>1. DOMAIN base = Accounts /\ base[Founder] \in Nat
    BY <1>1, AccountsApart, TokensAreNatural
  <2> HIDE DEF amount
  <2> QED
    BY <1>1, <1>2, <2>1, AccountsApart DEF PaidFromMarket
<1> HIDE DEF premiums, fees, paid, amount
<1>8. got = want
  BY <1>1, <1>4, <1>5, <1>6, <1>7
<1> HIDE DEF got, want
<1> DEFINE pairs == {<<"seller withdrew", got, want>>}
<1>9. ASSUME NEW p \in pairs PROVE p[2] = p[3]
  <2>1. p = <<"seller withdrew", got, want>>
    OBVIOUS
  <2> QED
    BY <1>8, <2>1
<1>10. mismatches(pairs) = {}
  BY <1>9, NothingMismatches
<1> QED
  BY <1>10 DEF checkSeller, got, want, premiums, fees, paid

(* Every step the demo tool measures, it measures without complaint.       *)
LEMMA MeasureHolds ==
  ASSUME ChainInv, AloneInv, DeskNext
  PROVE  MeasureStep
<1> DEFINE Losing ==
             lossCount' > lossCount =>
               checkWaterfall(PoolNow, PoolNow', Losses'[lossCount + 1]) = {}
           Buying ==
             \A key \in DOMAIN contracts' \ DOMAIN contracts :
               \E days \in TermDays :
                 checkPurchase(ContractNow(key)', days * DAY_SECONDS, base[key[1]],
                               base'[key[1]], MarketNow, MarketNow') = {}
           Claiming ==
             \A key \in Closing("Settled") :
               \E i \in DOMAIN Losses :
                 checkSettle(ContractNow(key)', Losses[i], base[key[1]], base'[key[1]],
                             MarketNow, MarketNow') = {}
           Expiring ==
             \A key \in Closing("Expired") :
               checkExpire(ContractNow(key)', MarketNow, MarketNow') = {}
           Leaving ==
             positions[Founder] = Provided /\ positions'[Founder] = 0 =>
               checkSeller(Provided, base'[Founder] - base[Founder],
                           Total(Of("premium"), DOMAIN contracts),
                           Total(Fees, DOMAIN contracts),
                           Total(Of("payout"), DOMAIN contracts), TRUE) = {}
<1>1. Losing
  <2>1. lossCount \in Nat
    BY LossesDrawn
  <2> QED
    BY <2>1, LossesCounted, LossMeasured
<1>2. positions' = positions => Leaving
  <2>1. Provided > 0
    BY DeskAssumption, ScaleAssumption DEF U64
  <2> QED
    BY <2>1
<1>3. (\A key \in DOMAIN contracts : contracts'[key].status = contracts[key].status)
        => Claiming /\ Expiring
  <2> SUFFICES ASSUME \A key \in DOMAIN contracts :
                        contracts'[key].status = contracts[key].status
               PROVE  Closing("Settled") = {} /\ Closing("Expired") = {}
    OBVIOUS
  <2> QED
    BY DEF Closing
<1>4. DOMAIN contracts' = DOMAIN contracts => Buying
  OBVIOUS
<1>5. CASE UNCHANGED coverVars
  BY <1>1, <1>2, <1>3, <1>4, <1>5 DEF coverVars, MeasureStep
<1>6. ASSUME NEW u \in Users, NEW notional \in CoverAmounts, NEW days \in TermDays,
             BuyProtection(u, notional, days * DAY_SECONDS, bought)
      PROVE  MeasureStep
  <2>1. PICK key : key = <<u, bought>>
    OBVIOUS
  <2>2. /\ contracts' = [k \in DOMAIN contracts \cup {key} |->
                           IF k = key THEN Bought(notional, days * DAY_SECONDS)
                                      ELSE contracts[k]]
        /\ positions' = positions
        /\ key \notin DOMAIN contracts
    BY <1>6, <2>1 DEF BuyProtection, BuyAccepts
  <2>3. DOMAIN contracts' = DOMAIN contracts \cup {key} /\ key[1] = u
    BY <2>1, <2>2
  <2>4. checkPurchase(ContractNow(key)', days * DAY_SECONDS, base[u], base'[u],
                      MarketNow, MarketNow') = {}
    BY <1>6, <2>1, PurchaseMeasured
  <2>5. Buying
    BY <2>2, <2>3, <2>4
  <2>6. Claiming /\ Expiring
    BY <1>3, <2>2
  <2> QED
    BY <1>1, <1>2, <2>2, <2>5, <2>6 DEF MeasureStep
<1>7. ASSUME NEW shares \in CoverAmounts \cup {positions[Founder]},
             WithdrawProtection(Founder, shares)
      PROVE  MeasureStep
  <2>1. contracts' = contracts
    BY <1>7 DEF WithdrawProtection
  <2>2. Leaving
    BY <1>7, SellerMeasured
  <2> QED
    BY <1>1, <1>3, <1>4, <2>1, <2>2 DEF MeasureStep
<1>8. ASSUME NEW key \in DOMAIN contracts, NEW i \in DOMAIN events, SettleProtection(key, i)
      PROVE  MeasureStep
  <2>1. /\ contracts' = [contracts EXCEPT ![key] =
                           Closed(contracts[key], "Settled", i, Claim(key, i))]
        /\ positions' = positions
    BY <1>8 DEF SettleProtection
  <2>2. contracts'[key].status = "Settled" /\ DOMAIN contracts' = DOMAIN contracts
    BY <2>1 DEF Closed
  <2>3. Closing("Settled") \subseteq {key} /\ Closing("Expired") = {}
    <3>1. \A k \in DOMAIN contracts \ {key} : contracts'[k].status = contracts[k].status
      BY <2>1
    <3>2. Closing("Settled") \subseteq {key} /\ Closing("Expired") \subseteq {key}
      BY <3>1, NoneCloses
    <3>3. key \notin Closing("Expired")
      BY <2>2 DEF Closing
    <3> QED
      BY <3>2, <3>3
  <2>4. /\ i + 1 \in DOMAIN Losses
        /\ checkSettle(ContractNow(key)', Losses[i + 1], base[key[1]], base'[key[1]],
                       MarketNow, MarketNow') = {}
    BY <1>8, ClaimMeasured
  <2>5. Claiming /\ Expiring
    BY <2>3, <2>4
  <2> QED
    BY <1>1, <1>2, <1>4, <2>1, <2>2, <2>5 DEF MeasureStep
<1>9. ASSUME NEW u \in Users, NEW key \in DOMAIN contracts, ExpireProtection(u, key)
      PROVE  MeasureStep
  <2>1. /\ contracts' = [contracts EXCEPT ![key] = Closed(contracts[key], "Expired",
                           contracts[key].settled_loss_index, contracts[key].payout)]
        /\ positions' = positions
    BY <1>9 DEF ExpireProtection
  <2>2. contracts'[key].status = "Expired" /\ DOMAIN contracts' = DOMAIN contracts
    BY <2>1 DEF Closed
  <2>3. Closing("Expired") \subseteq {key} /\ Closing("Settled") = {}
    <3>1. \A k \in DOMAIN contracts \ {key} : contracts'[k].status = contracts[k].status
      BY <2>1
    <3>2. Closing("Settled") \subseteq {key} /\ Closing("Expired") \subseteq {key}
      BY <3>1, NoneCloses
    <3>3. key \notin Closing("Settled")
      BY <2>2 DEF Closing
    <3> QED
      BY <3>2, <3>3
  <2>4. checkExpire(ContractNow(key)', MarketNow, MarketNow') = {}
    BY <1>9, ExpiryMeasured
  <2>5. Claiming /\ Expiring
    BY <2>3, <2>4
  <2> QED
    BY <1>1, <1>2, <1>4, <2>1, <2>2, <2>5 DEF MeasureStep
<1>10. UNCHANGED coverVars \/ MarketStep
  <2>1. UNCHANGED vars => UNCHANGED coverVars
    BY DEF vars, coverVars
  <2> QED
    BY <2>1 DEF DeskNext, Send, PoolStep, TimePasses, PollPool, PollMarket, PollWallet
<1> QED
  BY <1>5, <1>6, <1>7, <1>8, <1>9, <1>10 DEF MarketStep

(* The demo tool's checks of a step never complain: a loss, a purchase, a  *)
(* settlement, an expiry, and the one seller's way out.                    *)
THEOREM MeasureNeverComplains == DeskSpec => MeasureAgrees
<1> DEFINE Inv == ChainInv /\ AloneInv
<1>1. DeskInit => Inv
  BY ChainInvInit, AloneInit
<1>2. Inv /\ [DeskNext]_deskVars => Inv'
  BY ChainInvNext, AloneNext
<1>3. Inv /\ [DeskNext]_deskVars => [MeasureStep]_deskVars
  BY MeasureHolds
<1> QED
  BY <1>1, <1>2, <1>3, PTL DEF DeskSpec, MeasureAgrees

=============================================================================
