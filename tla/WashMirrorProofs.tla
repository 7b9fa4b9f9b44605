-------------------------- MODULE WashMirrorProofs --------------------------
(***************************************************************************)
(* The mirror of the arithmetic, packages/shared/src/waterfall.ts, gives   *)
(* what math.rs gives: for each operation of WashMath, on balances as they *)
(* are in the pool, the mirror throws where the program refuses, and where *)
(* it does not throw its result is the program's.  The two are written     *)
(* apart, in two languages; these lemmas say that they agree on every      *)
(* number, where the tests of the source try some.                         *)
(*                                                                         *)
(* Before that, what the proofs about views share: an induction, and the   *)
(* order in which the readers list contracts.                              *)
(***************************************************************************)
EXTENDS WashViews, FiniteSetTheorems, TLAPS

-----------------------------------------------------------------------------
(* Induction on the numbers of a set: a least one that is missing has a    *)
(* predecessor, which is missing too.                                      *)
LEMMA SetInduction ==
  ASSUME NEW S, 0 \in S, \A n \in Nat : n \in S => n + 1 \in S
  PROVE  Nat \subseteq S
<1> DEFINE T == Nat \ S
           below == OpToRel(<, Nat)
<1>1. IsWellFoundedOn(below, Nat)
  BY NatLessThanWellFounded
<1>2. \A x, y \in Nat : <<y, x>> \in below <=> y < x
  BY DEF OpToRel
<1> HIDE DEF below
<1>3. ASSUME T # {} PROVE FALSE
  <2>1. PICK x \in T : \A y \in T : <<y, x>> \notin below
    BY <1>1, <1>3, WFMin
  <2>2. x # 0 /\ x - 1 \in Nat
    OBVIOUS
  <2>3. x - 1 \in T
    BY <2>2
  <2>4. <<x - 1, x>> \in below
    BY <1>2, <2>2
  <2> QED
    BY <2>1, <2>3, <2>4
<1> QED
  BY <1>3

-----------------------------------------------------------------------------
(* Views with numbers of their own come in exactly one order.              *)
LEMMA InOrderIs ==
  ASSUME NEW V, IsFiniteSet(V), \A v \in V : v.nonce \in Nat,
         \A u, v \in V : u.nonce = v.nonce => u = v
  PROVE  LET list == InOrder(V)
         IN  /\ DOMAIN list = 1 .. Cardinality(V) /\ V = {list[i] : i \in DOMAIN list}
             /\ list \in [1 .. Cardinality(V) -> V]
             /\ \A i, j \in DOMAIN list : i < j => list[i].nonce < list[j].nonce
<1> DEFINE n == Cardinality(V)
           upTo(v) == {w \in V : w.nonce <= v.nonce}
           rank == [v \in V |-> Cardinality(upTo(v))]
           Sorted(list) == /\ IsInjective(list)
                           /\ \A i, j \in DOMAIN list : i < j => list[i].nonce <= list[j].nonce
<1>1. n \in Nat /\ IsFiniteSet(1 .. n) /\ Cardinality(1 .. n) = n
  <2>1. n \in Nat
    BY FS_CardinalityType
  <2>2. IsFiniteSet(1 .. n) /\ Cardinality(1 .. n) = IF 1 > n THEN 0 ELSE n - 1 + 1
    BY <2>1, FS_Interval
  <2> QED
    BY <2>1, <2>2
<1>2. ASSUME NEW v \in V
      PROVE  IsFiniteSet(upTo(v)) /\ Cardinality(upTo(v)) \in 1 .. n
  <2>1. upTo(v) \in SUBSET V /\ v \in upTo(v)
    OBVIOUS
  <2> HIDE DEF upTo
  <2>2. IsFiniteSet(upTo(v)) /\ Cardinality(upTo(v)) <= n
    BY <2>1, FS_Subset
  <2>3. Cardinality(upTo(v)) \in Nat
    BY <2>2, FS_CardinalityType
  <2>4. Cardinality(upTo(v)) # 0
    BY <2>1, <2>2, FS_EmptySet
  <2> QED
    BY <1>1, <2>2, <2>3, <2>4
<1>3. ASSUME NEW u \in V, NEW v \in V, u.nonce < v.nonce
      PROVE  Cardinality(upTo(u)) < Cardinality(upTo(v))
  <2>1. upTo(u) \in SUBSET upTo(v) /\ upTo(u) # upTo(v)
    <3>1. v \in upTo(v) /\ v \notin upTo(u)
      BY <1>3
    <3>2. \A w \in upTo(u) : w \in upTo(v)
      BY <1>3
    <3> QED
      BY <3>1, <3>2
  <2>2. /\ IsFiniteSet(upTo(u)) /\ Cardinality(upTo(u)) \in Nat
        /\ IsFiniteSet(upTo(v)) /\ Cardinality(upTo(v)) \in Nat
    BY <1>1, <1>2
  <2> HIDE DEF upTo
  <2>3. Cardinality(upTo(u)) <= Cardinality(upTo(v)) /\ Cardinality(upTo(v)) # Cardinality(upTo(u))
    BY <2>1, <2>2, FS_Subset
  <2> QED
    BY <2>2, <2>3
<1>4. /\ rank \in [V -> 1 .. n]
      /\ \A u, v \in V : u.nonce < v.nonce => rank[u] < rank[v]
  BY <1>2, <1>3
<1> HIDE DEF rank, upTo
<1>5. ASSUME NEW u \in V, NEW v \in V, rank[u] = rank[v]
      PROVE  u = v
  <2>1. u.nonce \in Nat /\ v.nonce \in Nat /\ rank[u] \in Nat /\ rank[v] \in Nat
    BY <1>1, <1>4
  <2>2. ~(rank[u] < rank[v]) /\ ~(rank[v] < rank[u])
    BY <1>5, <2>1
  <2>3. ~(u.nonce < v.nonce) /\ ~(v.nonce < u.nonce)
    BY <1>4, <2>2
  <2> QED
    BY <2>1, <2>3
<1>6. rank \in Injection(V, 1 .. n)
  <2>1. IsInjective(rank)
    BY <1>4, <1>5 DEF IsInjective
  <2> QED
    BY <1>4, <2>1 DEF Injection
<1>7. rank \in Surjection(V, 1 .. n)
  BY <1>1, <1>6, FS_Injection
<1>8. \A i \in 1 .. n : \E v \in V : rank[v] = i
  BY <1>7 DEF Surjection
<1> DEFINE back == [i \in 1 .. n |-> CHOOSE v \in V : rank[v] = i]
<1>9. \A i \in 1 .. n : back[i] \in V /\ rank[back[i]] = i
  BY <1>8
<1>10. back \in [1 .. n -> V]
  BY <1>9
<1> HIDE DEF back
<1>11. Sorted(back)
  <2>1. IsInjective(back)
    BY <1>9, <1>10 DEF IsInjective
  <2>2. ASSUME NEW i \in DOMAIN back, NEW j \in DOMAIN back, i < j
        PROVE  back[i].nonce <= back[j].nonce
    <3>1. i \in 1 .. n /\ j \in 1 .. n /\ i \in Nat /\ j \in Nat
      BY <1>1, <1>10
    <3>2. back[i] \in V /\ back[j] \in V /\ rank[back[i]] = i /\ rank[back[j]] = j
      BY <1>9, <3>1
    <3>3. ~(back[j].nonce < back[i].nonce)
      BY <1>4, <2>2, <3>1, <3>2
    <3>4. back[i].nonce \in Nat /\ back[j].nonce \in Nat
      BY <3>2
    <3> QED
      BY <3>3, <3>4
  <2> QED
    BY <2>1, <2>2
<1> DEFINE list == CHOOSE f \in [1 .. n -> V] : Sorted(f)
<1>12. list \in [1 .. n -> V] /\ Sorted(list)
  BY <1>10, <1>11
<1>13. list = InOrder(V)
  BY DEF InOrder
<1> HIDE DEF list
<1>14. \A i, j \in 1 .. n : i < j => list[i].nonce < list[j].nonce
  <2> TAKE i, j \in 1 .. n
  <2>1. ASSUME i < j PROVE list[i].nonce < list[j].nonce
    <3>1. list[i] \in V /\ list[j] \in V /\ DOMAIN list = 1 .. n
      BY <1>12
    <3>2. list[i].nonce <= list[j].nonce /\ list[i] # list[j]
      <4>1. i # j
        BY <1>1, <2>1
      <4> QED
        BY <1>12, <2>1, <3>1, <4>1 DEF IsInjective
    <3>3. list[i].nonce # list[j].nonce
      BY <3>1, <3>2
    <3>4. list[i].nonce \in Nat /\ list[j].nonce \in Nat
      BY <3>1
    <3> QED
      BY <3>2, <3>3, <3>4
  <2> QED
    BY <2>1
<1>15. V = {list[i] : i \in 1 .. n}
  <2>1. list \in Injection(1 .. n, V)
    BY <1>12 DEF Injection
  <2>2. list \in Surjection(1 .. n, V)
    BY <1>1, <2>1, FS_Injection
  <2> QED
    BY <1>12, <2>2 DEF Surjection
<1>16. DOMAIN list = 1 .. n
  BY <1>12
<1> QED
  BY <1>12, <1>13, <1>14, <1>15, <1>16

-----------------------------------------------------------------------------
(* Results.                                                                *)

(* toU64 keeps what a u64 holds and throws on everything else.             *)
LEMMA ToU64 ==
  ASSUME NEW x
  PROVE  /\ x \in U64 => toU64(x) = x /\ ~Throws(toU64(x))
         /\ x \notin U64 => Throws(toU64(x))
BY ScaleAssumption DEF toU64, Throws, Overflow, U64

(* proRata and mulBps are the program's where those stay in u64.           *)
LEMMA QuotientsMirrored ==
  ASSUME NEW amount, NEW rate, NEW dt
  PROVE  /\ proRata(amount, rate, dt) = toU64(ProRata(amount, rate, dt))
         /\ mulBps(amount, rate) = toU64(MulBps(amount, rate))
BY DEF proRata, ProRata, mulBps, MulBps

(* The balances and the rates of the program under their TypeScript names. *)
Mirrored(b) ==
  [assets |-> b.assets, seniorAssets |-> b.nav["Senior"], juniorAssets |-> b.nav["Junior"],
   seniorSupply |-> b.supply["Senior"], juniorSupply |-> b.supply["Junior"]]

MirroredRates(r) ==
  [yieldBps |-> r.yield_rate_bps, seniorBps |-> r.senior_rate_bps, feeBps |-> r.perf_fee_bps]

LEMMA BalancesInU64 ==
  ASSUME NEW b \in PoolBalances
  PROVE  /\ b.assets \in U64 /\ DOMAIN b = {"assets", "nav", "supply"}
         /\ b.nav \in [Tranches -> U64] /\ b.supply \in [Tranches -> U64]
         /\ b.nav["Senior"] \in U64 /\ b.nav["Junior"] \in U64
         /\ b.supply["Senior"] \in U64 /\ b.supply["Junior"] \in U64
         /\ \A n \in U64 : n \in Nat
BY ScaleAssumption DEF PoolBalances, Tranches, U64

Fields5 == {"assets", "seniorAssets", "juniorAssets", "seniorSupply", "juniorSupply"}

(* A record of balances is what its fields are.                            *)
LEMMA BalancesAre ==
  ASSUME NEW p, p = [f \in Fields5 |-> p[f]],
         NEW a, NEW sa, NEW ja, NEW ss, NEW js,
         p.assets = a, p.seniorAssets = sa, p.juniorAssets = ja,
         p.seniorSupply = ss, p.juniorSupply = js
  PROVE  p = [assets |-> a, seniorAssets |-> sa, juniorAssets |-> ja,
              seniorSupply |-> ss, juniorSupply |-> js]
BY DEF Fields5

(* What the after functions make of mirrored balances, field by field.     *)
LEMMA AfterAccrualFields ==
  ASSUME NEW b, NEW g
  PROVE  afterAccrual(Mirrored(b), g)
         = [assets |-> toU64(b.assets + g.seniorGain + g.juniorGain),
            seniorAssets |-> toU64(b.nav["Senior"] + g.seniorGain),
            juniorAssets |-> toU64(b.nav["Junior"] + g.juniorGain),
            seniorSupply |-> b.supply["Senior"], juniorSupply |-> b.supply["Junior"]]
<1> DEFINE p == afterAccrual(Mirrored(b), g)
<1>1. p = [f \in Fields5 |-> p[f]]
  BY DEF afterAccrual, Mirrored, Fields5
<1>2. /\ p.assets = toU64(b.assets + g.seniorGain + g.juniorGain)
      /\ p.seniorAssets = toU64(b.nav["Senior"] + g.seniorGain)
      /\ p.juniorAssets = toU64(b.nav["Junior"] + g.juniorGain)
      /\ p.seniorSupply = b.supply["Senior"]
      /\ p.juniorSupply = b.supply["Junior"]
  BY DEF afterAccrual, Mirrored
<1> HIDE DEF p
<1> QED
  BY <1>1, <1>2, BalancesAre DEF p

LEMMA AfterLossFields ==
  ASSUME NEW b, NEW g
  PROVE  afterLoss(Mirrored(b), g)
         = [assets |-> toU64(b.assets - (g.seniorLoss + g.juniorLoss)),
            seniorAssets |-> toU64(b.nav["Senior"] - g.seniorLoss),
            juniorAssets |-> toU64(b.nav["Junior"] - g.juniorLoss),
            seniorSupply |-> b.supply["Senior"], juniorSupply |-> b.supply["Junior"]]
<1> DEFINE p == afterLoss(Mirrored(b), g)
<1>1. p = [f \in Fields5 |-> p[f]]
  BY DEF afterLoss, Mirrored, Fields5
<1>2. /\ p.assets = toU64(b.assets - (g.seniorLoss + g.juniorLoss))
      /\ p.seniorAssets = toU64(b.nav["Senior"] - g.seniorLoss)
      /\ p.juniorAssets = toU64(b.nav["Junior"] - g.juniorLoss)
      /\ p.seniorSupply = b.supply["Senior"]
      /\ p.juniorSupply = b.supply["Junior"]
  BY DEF afterLoss, Mirrored
<1> HIDE DEF p
<1> QED
  BY <1>1, <1>2, BalancesAre DEF p

LEMMA AfterSeniorDepositFields ==
  ASSUME NEW b, NEW n, NEW k
  PROVE  afterDeposit(Mirrored(b), "Senior", n, k)
         = [assets |-> toU64(b.assets + n), seniorAssets |-> toU64(b.nav["Senior"] + n),
            juniorAssets |-> b.nav["Junior"], seniorSupply |-> toU64(b.supply["Senior"] + k),
            juniorSupply |-> b.supply["Junior"]]
<1> DEFINE p == afterDeposit(Mirrored(b), "Senior", n, k)
<1>1. p = [f \in Fields5 |-> p[f]]
  BY DEF afterDeposit, Mirrored, Fields5
<1>2. /\ p.assets = toU64(b.assets + n)
      /\ p.seniorAssets = toU64(b.nav["Senior"] + n)
      /\ p.juniorAssets = b.nav["Junior"]
      /\ p.seniorSupply = toU64(b.supply["Senior"] + k)
      /\ p.juniorSupply = b.supply["Junior"]
  BY DEF afterDeposit, Mirrored
<1> HIDE DEF p
<1> QED
  BY <1>1, <1>2, BalancesAre DEF p

LEMMA AfterJuniorDepositFields ==
  ASSUME NEW b, NEW n, NEW k
  PROVE  afterDeposit(Mirrored(b), "Junior", n, k)
         = [assets |-> toU64(b.assets + n), seniorAssets |-> b.nav["Senior"],
            juniorAssets |-> toU64(b.nav["Junior"] + n), seniorSupply |-> b.supply["Senior"],
            juniorSupply |-> toU64(b.supply["Junior"] + k)]
<1> DEFINE p == afterDeposit(Mirrored(b), "Junior", n, k)
<1>1. p = [f \in Fields5 |-> p[f]]
  BY DEF afterDeposit, Mirrored, Fields5
<1>2. /\ p.assets = toU64(b.assets + n)
      /\ p.seniorAssets = b.nav["Senior"]
      /\ p.juniorAssets = toU64(b.nav["Junior"] + n)
      /\ p.seniorSupply = b.supply["Senior"]
      /\ p.juniorSupply = toU64(b.supply["Junior"] + k)
  BY DEF afterDeposit, Mirrored
<1> HIDE DEF p
<1> QED
  BY <1>1, <1>2, BalancesAre DEF p

LEMMA AfterSeniorRedeemFields ==
  ASSUME NEW b, NEW n, NEW k
  PROVE  afterRedeem(Mirrored(b), "Senior", k, n)
         = [assets |-> toU64(b.assets - n), seniorAssets |-> toU64(b.nav["Senior"] - n),
            juniorAssets |-> b.nav["Junior"], seniorSupply |-> toU64(b.supply["Senior"] - k),
            juniorSupply |-> b.supply["Junior"]]
<1> DEFINE p == afterRedeem(Mirrored(b), "Senior", k, n)
<1>1. p = [f \in Fields5 |-> p[f]]
  BY DEF afterRedeem, Mirrored, Fields5
<1>2. /\ p.assets = toU64(b.assets - n)
      /\ p.seniorAssets = toU64(b.nav["Senior"] - n)
      /\ p.juniorAssets = b.nav["Junior"]
      /\ p.seniorSupply = toU64(b.supply["Senior"] - k)
      /\ p.juniorSupply = b.supply["Junior"]
  BY DEF afterRedeem, Mirrored
<1> HIDE DEF p
<1> QED
  BY <1>1, <1>2, BalancesAre DEF p

LEMMA AfterJuniorRedeemFields ==
  ASSUME NEW b, NEW n, NEW k
  PROVE  afterRedeem(Mirrored(b), "Junior", k, n)
         = [assets |-> toU64(b.assets - n), seniorAssets |-> b.nav["Senior"],
            juniorAssets |-> toU64(b.nav["Junior"] - n), seniorSupply |-> b.supply["Senior"],
            juniorSupply |-> toU64(b.supply["Junior"] - k)]
<1> DEFINE p == afterRedeem(Mirrored(b), "Junior", k, n)
<1>1. p = [f \in Fields5 |-> p[f]]
  BY DEF afterRedeem, Mirrored, Fields5
<1>2. /\ p.assets = toU64(b.assets - n)
      /\ p.seniorAssets = b.nav["Senior"]
      /\ p.juniorAssets = toU64(b.nav["Junior"] - n)
      /\ p.seniorSupply = b.supply["Senior"]
      /\ p.juniorSupply = toU64(b.supply["Junior"] - k)
  BY DEF afterRedeem, Mirrored
<1> HIDE DEF p
<1> QED
  BY <1>1, <1>2, BalancesAre DEF p

-----------------------------------------------------------------------------
(* accrue: the yield, the fee and the gains of an accrual that fits.       *)
LEMMA AccrualMirrored ==
  ASSUME NEW b \in PoolBalances, NEW r, NEW dt,
         LET a == Accrual(b, r, dt)
         IN  /\ a.yield \in U64 /\ a.fee \in U64
             /\ a.net \in Nat /\ a.gain["Senior"] \in Nat
             /\ (\A t \in Tranches : b.supply[t] > 0) => SeniorDue(b, r, dt) \in U64
             /\ AfterAccrual(b, a) \in PoolBalances
  PROVE  afterAccrual(Mirrored(b), accrue(Mirrored(b), MirroredRates(r), dt))
         = Mirrored(AfterAccrual(b, Accrual(b, r, dt)))
<1> DEFINE a == Accrual(b, r, dt)
           m == accrue(Mirrored(b), MirroredRates(r), dt)
           empty == \A t \in Tranches : b.supply[t] = 0
           due == SeniorDue(b, r, dt)
           next == AfterAccrual(b, a)
<1>1. /\ b.assets \in Nat /\ b.nav["Senior"] \in Nat /\ b.nav["Junior"] \in Nat
      /\ b.supply["Senior"] \in Nat /\ b.supply["Junior"] \in Nat
      /\ b.supply \in [Tranches -> U64]
  BY BalancesInU64
<1>2. empty <=> b.supply["Senior"] = 0 /\ b.supply["Junior"] = 0
  BY DEF Tranches
<1>3. /\ a.yield = IF empty THEN 0 ELSE ProRata(b.assets, r.yield_rate_bps, dt)
      /\ a.fee = MulBps(a.yield, r.perf_fee_bps)
      /\ a.net = a.yield - a.fee
      /\ a.gain["Senior"] = IF b.supply["Junior"] = 0 THEN a.net
                            ELSE IF b.supply["Senior"] = 0 THEN 0
                            ELSE Lesser(due, a.net)
      /\ a.gain["Junior"] = a.net - a.gain["Senior"]
  BY DEF Accrual, Tranches
<1>4. /\ a.yield \in U64 /\ a.fee \in U64 /\ a.net \in Nat /\ a.gain["Senior"] \in Nat
      /\ b.supply["Senior"] > 0 /\ b.supply["Junior"] > 0 => due \in U64
  BY DEF Tranches
<1>5. /\ next.assets = b.assets + a.net
      /\ next.nav["Senior"] = b.nav["Senior"] + a.gain["Senior"]
      /\ next.nav["Junior"] = b.nav["Junior"] + a.gain["Junior"]
      /\ next.supply = b.supply
  BY DEF AfterAccrual, Tranches
<1>6. /\ next.assets \in U64 /\ next.nav["Senior"] \in U64 /\ next.nav["Junior"] \in U64
  <2>1. next \in PoolBalances
    OBVIOUS
  <2> QED
    BY <2>1, BalancesInU64
<1>7. CASE empty
  <2>1. /\ m.seniorGain = 0 /\ m.juniorGain = 0
    BY <1>2, <1>7 DEF accrue, Mirrored
  <2>2. a.yield = 0 /\ a.gain["Senior"] = a.net
    BY <1>2, <1>3, <1>7
  <2>3. a.net = 0
    <3>1. a.fee \in Nat
      BY <1>4, BalancesInU64
    <3> QED
      BY <1>3, <1>4, <2>2, <3>1
  <2> HIDE DEF a, m, next
  <2>4. /\ m.seniorGain = a.gain["Senior"] /\ m.juniorGain = a.gain["Junior"]
        /\ m.seniorGain + m.juniorGain = a.net
    BY <1>3, <2>1, <2>2, <2>3
  <2>5. /\ b.assets + m.seniorGain + m.juniorGain = next.assets
        /\ b.nav["Senior"] + m.seniorGain = next.nav["Senior"]
        /\ b.nav["Junior"] + m.juniorGain = next.nav["Junior"]
    BY <1>1, <1>3, <1>4, <1>5, <2>3, <2>4
  <2>6. afterAccrual(Mirrored(b), m) = Mirrored(next)
    <3>1. /\ toU64(b.assets + m.seniorGain + m.juniorGain) = next.assets
          /\ toU64(b.nav["Senior"] + m.seniorGain) = next.nav["Senior"]
          /\ toU64(b.nav["Junior"] + m.juniorGain) = next.nav["Junior"]
      BY <1>6, <2>5, ToU64
    <3> QED
      BY <1>5, <3>1, AfterAccrualFields DEF Mirrored
  <2> QED
    BY <2>6 DEF a, m, next
<1>8. CASE ~empty
  <2> DEFINE yieldAmount == proRata(b.assets, r.yield_rate_bps, dt)
             fee == mulBps(yieldAmount, r.perf_fee_bps)
             net == yieldAmount - fee
             seniorGain == IF b.supply["Junior"] = 0 THEN net
                           ELSE IF b.supply["Senior"] = 0 THEN 0
                           ELSE min(proRata(b.nav["Senior"], r.senior_rate_bps, dt), net)
  <2>1. m = [yieldAmount |-> yieldAmount, fee |-> fee, seniorGain |-> seniorGain,
             juniorGain |-> net - seniorGain]
    BY <1>2, <1>8 DEF accrue, Mirrored, MirroredRates
  <2>2. yieldAmount = a.yield
    BY <1>3, <1>4, <1>8, QuotientsMirrored, ToU64
  <2>3. fee = a.fee
    BY <1>3, <1>4, <2>2, QuotientsMirrored, ToU64
  <2>4. net = a.net
    BY <1>3, <2>2, <2>3
  <2>5. seniorGain = a.gain["Senior"]
    <3>1. CASE b.supply["Junior"] = 0 \/ b.supply["Senior"] = 0
      BY <1>3, <2>4, <3>1
    <3>2. CASE b.supply["Junior"] # 0 /\ b.supply["Senior"] # 0
      <4>1. due \in U64
        BY <1>1, <1>4, <3>2
      <4>2. proRata(b.nav["Senior"], r.senior_rate_bps, dt) = due
        BY <4>1, QuotientsMirrored, ToU64 DEF SeniorDue
      <4>3. due \in Nat
        BY <4>1, BalancesInU64
      <4> HIDE DEF due, a
      <4>4. min(due, a.net) = Lesser(due, a.net)
        BY <1>4, <4>3 DEF min, Lesser
      <4> QED
        BY <1>3, <2>4, <3>2, <4>2, <4>4
    <3> QED
      BY <3>1, <3>2
  <2> HIDE DEF a, m, next, yieldAmount, fee, net, seniorGain
  <2>6. /\ m.seniorGain = a.gain["Senior"] /\ m.juniorGain = a.gain["Junior"]
    BY <1>3, <2>1, <2>4, <2>5
  <2>7. /\ b.assets + m.seniorGain + m.juniorGain = next.assets
        /\ b.nav["Senior"] + m.seniorGain = next.nav["Senior"]
        /\ b.nav["Junior"] + m.juniorGain = next.nav["Junior"]
    BY <1>1, <1>3, <1>4, <1>5, <2>6
  <2>8. afterAccrual(Mirrored(b), m) = Mirrored(next)
    <3>1. /\ toU64(b.assets + m.seniorGain + m.juniorGain) = next.assets
          /\ toU64(b.nav["Senior"] + m.seniorGain) = next.nav["Senior"]
          /\ toU64(b.nav["Junior"] + m.juniorGain) = next.nav["Junior"]
      BY <1>6, <2>7, ToU64
    <3> QED
      BY <1>5, <3>1, AfterAccrualFields DEF Mirrored
  <2> QED
    BY <2>8 DEF a, m, next
<1> QED
  BY <1>7, <1>8

-----------------------------------------------------------------------------
(* Balances are good when each number is; a mirrored record throws when    *)
(* one of its numbers does.                                                *)
LEMMA GoodBalances ==
  ASSUME NEW a, NEW v, NEW s, DOMAIN v = Tranches, DOMAIN s = Tranches,
         v = [t \in Tranches |-> v[t]], s = [t \in Tranches |-> s[t]]
  PROVE  [assets |-> a, nav |-> v, supply |-> s] \in PoolBalances
           <=> a \in U64 /\ \A t \in Tranches : v[t] \in U64 /\ s[t] \in U64
BY DEF PoolBalances, Tranches

LEMMA ThrowingFields ==
  ASSUME NEW a, NEW sa, NEW ja, NEW ss, NEW js
  PROVE  LET p == [assets |-> a, seniorAssets |-> sa, juniorAssets |-> ja,
                   seniorSupply |-> ss, juniorSupply |-> js]
         IN  (\E f \in DOMAIN p : Throws(p[f]))
               <=> Throws(a) \/ Throws(sa) \/ Throws(ja) \/ Throws(ss) \/ Throws(js)
<1> DEFINE p == [assets |-> a, seniorAssets |-> sa, juniorAssets |-> ja,
                 seniorSupply |-> ss, juniorSupply |-> js]
<1>1. /\ DOMAIN p = Fields5
      /\ p["assets"] = a /\ p["seniorAssets"] = sa /\ p["juniorAssets"] = ja
      /\ p["seniorSupply"] = ss /\ p["juniorSupply"] = js
  BY DEF Fields5
<1> HIDE DEF p
<1>2. (\E f \in DOMAIN p : Throws(p[f]))
        <=> Throws(a) \/ Throws(sa) \/ Throws(ja) \/ Throws(ss) \/ Throws(js)
  BY <1>1, Zenon DEF Fields5
<1> QED
  BY <1>2 DEF p

(* toU64 throws exactly on what does not fit; what fits does not throw.    *)
LEMMA ThrowsOutside ==
  ASSUME NEW x
  PROVE  Throws(toU64(x)) <=> x \notin U64
BY ToU64

LEMMA FitsThrowsNot ==
  ASSUME NEW x \in U64
  PROVE  ~Throws(x) /\ toU64(x) = x
BY ScaleAssumption DEF Throws, toU64, U64

-----------------------------------------------------------------------------
(* after_deposit.                                                          *)
LEMMA DepositMirrored ==
  ASSUME NEW b \in PoolBalances, NEW t \in Tranches, NEW n \in Int, NEW k \in Int
  PROVE  LET p == afterDeposit(Mirrored(b), t, n, k)
             next == AfterDeposit(b, t, n, k)
         IN  /\ (\E f \in DOMAIN p : Throws(p[f])) <=> next \notin PoolBalances
             /\ next \in PoolBalances => p = Mirrored(next)
<1> DEFINE p == afterDeposit(Mirrored(b), t, n, k)
           next == AfterDeposit(b, t, n, k)
<1>1. /\ b.nav \in [Tranches -> U64] /\ b.supply \in [Tranches -> U64]
      /\ b.nav["Senior"] \in U64 /\ b.nav["Junior"] \in U64
      /\ b.supply["Senior"] \in U64 /\ b.supply["Junior"] \in U64
  BY BalancesInU64
<1>2. next \in PoolBalances <=>
        /\ b.assets + n \in U64
        /\ \A r \in Tranches : next.nav[r] \in U64 /\ next.supply[r] \in U64
  <2> DEFINE v == [b.nav EXCEPT ![t] = @ + n]
             s == [b.supply EXCEPT ![t] = @ + k]
  <2>1. /\ DOMAIN v = Tranches /\ DOMAIN s = Tranches
        /\ v = [r \in Tranches |-> v[r]] /\ s = [r \in Tranches |-> s[r]]
    BY <1>1
  <2>2. next = [assets |-> b.assets + n, nav |-> v, supply |-> s]
    BY DEF AfterDeposit
  <2> HIDE DEF v, s
  <2> QED
    BY <2>1, <2>2, GoodBalances
<1>3. CASE t = "Senior"
  <2>1. /\ next.assets = b.assets + n
        /\ next.nav["Senior"] = b.nav["Senior"] + n /\ next.nav["Junior"] = b.nav["Junior"]
        /\ next.supply["Senior"] = b.supply["Senior"] + k
        /\ next.supply["Junior"] = b.supply["Junior"]
    BY <1>1, <1>3 DEF AfterDeposit, Tranches
  <2>2. p = [assets |-> toU64(b.assets + n), seniorAssets |-> toU64(b.nav["Senior"] + n),
             juniorAssets |-> b.nav["Junior"], seniorSupply |-> toU64(b.supply["Senior"] + k),
             juniorSupply |-> b.supply["Junior"]]
    BY <1>3, AfterSeniorDepositFields
  <2> HIDE DEF p, next
  <2>3. (\E f \in DOMAIN p : Throws(p[f])) <=>
          \/ b.assets + n \notin U64 \/ b.nav["Senior"] + n \notin U64
          \/ b.supply["Senior"] + k \notin U64
    BY <1>1, <2>2, ThrowingFields, ThrowsOutside, FitsThrowsNot
  <2>4. next \in PoolBalances <=>
          /\ b.assets + n \in U64 /\ b.nav["Senior"] + n \in U64
          /\ b.supply["Senior"] + k \in U64
    BY <1>1, <1>2, <2>1 DEF Tranches
  <2>5. next \in PoolBalances => p = Mirrored(next)
    BY <2>1, <2>2, <2>4, ToU64 DEF Mirrored
  <2> QED
    BY <2>3, <2>4, <2>5 DEF p, next
<1>4. CASE t = "Junior"
  <2>1. /\ next.assets = b.assets + n
        /\ next.nav["Junior"] = b.nav["Junior"] + n /\ next.nav["Senior"] = b.nav["Senior"]
        /\ next.supply["Junior"] = b.supply["Junior"] + k
        /\ next.supply["Senior"] = b.supply["Senior"]
    BY <1>1, <1>4 DEF AfterDeposit, Tranches
  <2>2. p = [assets |-> toU64(b.assets + n), seniorAssets |-> b.nav["Senior"],
             juniorAssets |-> toU64(b.nav["Junior"] + n), seniorSupply |-> b.supply["Senior"],
             juniorSupply |-> toU64(b.supply["Junior"] + k)]
    BY <1>4, AfterJuniorDepositFields
  <2> HIDE DEF p, next
  <2>3. (\E f \in DOMAIN p : Throws(p[f])) <=>
          \/ b.assets + n \notin U64 \/ b.nav["Junior"] + n \notin U64
          \/ b.supply["Junior"] + k \notin U64
    BY <1>1, <2>2, ThrowingFields, ThrowsOutside, FitsThrowsNot
  <2>4. next \in PoolBalances <=>
          /\ b.assets + n \in U64 /\ b.nav["Junior"] + n \in U64
          /\ b.supply["Junior"] + k \in U64
    BY <1>1, <1>2, <2>1 DEF Tranches
  <2>5. next \in PoolBalances => p = Mirrored(next)
    BY <2>1, <2>2, <2>4, ToU64 DEF Mirrored
  <2> QED
    BY <2>3, <2>4, <2>5 DEF p, next
<1> QED
  BY <1>3, <1>4 DEF Tranches

(* after_redeem.                                                           *)
LEMMA RedeemMirrored ==
  ASSUME NEW b \in PoolBalances, NEW t \in Tranches, NEW n \in Int, NEW k \in Int
  PROVE  LET p == afterRedeem(Mirrored(b), t, k, n)
             next == AfterRedeem(b, t, k, n)
         IN  /\ (\E f \in DOMAIN p : Throws(p[f])) <=> next \notin PoolBalances
             /\ next \in PoolBalances => p = Mirrored(next)
<1> DEFINE p == afterRedeem(Mirrored(b), t, k, n)
           next == AfterRedeem(b, t, k, n)
<1>1. /\ b.nav \in [Tranches -> U64] /\ b.supply \in [Tranches -> U64]
      /\ b.nav["Senior"] \in U64 /\ b.nav["Junior"] \in U64
      /\ b.supply["Senior"] \in U64 /\ b.supply["Junior"] \in U64
  BY BalancesInU64
<1>2. next \in PoolBalances <=>
        /\ b.assets - n \in U64
        /\ \A r \in Tranches : next.nav[r] \in U64 /\ next.supply[r] \in U64
  <2> DEFINE v == [b.nav EXCEPT ![t] = @ - n]
             s == [b.supply EXCEPT ![t] = @ - k]
  <2>1. /\ DOMAIN v = Tranches /\ DOMAIN s = Tranches
        /\ v = [r \in Tranches |-> v[r]] /\ s = [r \in Tranches |-> s[r]]
    BY <1>1
  <2>2. next = [assets |-> b.assets - n, nav |-> v, supply |-> s]
    BY DEF AfterRedeem
  <2> HIDE DEF v, s
  <2> QED
    BY <2>1, <2>2, GoodBalances
<1>3. CASE t = "Senior"
  <2>1. /\ next.assets = b.assets - n
        /\ next.nav["Senior"] = b.nav["Senior"] - n /\ next.nav["Junior"] = b.nav["Junior"]
        /\ next.supply["Senior"] = b.supply["Senior"] - k
        /\ next.supply["Junior"] = b.supply["Junior"]
    BY <1>1, <1>3 DEF AfterRedeem, Tranches
  <2>2. p = [assets |-> toU64(b.assets - n), seniorAssets |-> toU64(b.nav["Senior"] - n),
             juniorAssets |-> b.nav["Junior"], seniorSupply |-> toU64(b.supply["Senior"] - k),
             juniorSupply |-> b.supply["Junior"]]
    BY <1>3, AfterSeniorRedeemFields
  <2> HIDE DEF p, next
  <2>3. (\E f \in DOMAIN p : Throws(p[f])) <=>
          \/ b.assets - n \notin U64 \/ b.nav["Senior"] - n \notin U64
          \/ b.supply["Senior"] - k \notin U64
    BY <1>1, <2>2, ThrowingFields, ThrowsOutside, FitsThrowsNot
  <2>4. next \in PoolBalances <=>
          /\ b.assets - n \in U64 /\ b.nav["Senior"] - n \in U64
          /\ b.supply["Senior"] - k \in U64
    BY <1>1, <1>2, <2>1 DEF Tranches
  <2>5. next \in PoolBalances => p = Mirrored(next)
    BY <2>1, <2>2, <2>4, ToU64 DEF Mirrored
  <2> QED
    BY <2>3, <2>4, <2>5 DEF p, next
<1>4. CASE t = "Junior"
  <2>1. /\ next.assets = b.assets - n
        /\ next.nav["Junior"] = b.nav["Junior"] - n /\ next.nav["Senior"] = b.nav["Senior"]
        /\ next.supply["Junior"] = b.supply["Junior"] - k
        /\ next.supply["Senior"] = b.supply["Senior"]
    BY <1>1, <1>4 DEF AfterRedeem, Tranches
  <2>2. p = [assets |-> toU64(b.assets - n), seniorAssets |-> b.nav["Senior"],
             juniorAssets |-> toU64(b.nav["Junior"] - n), seniorSupply |-> b.supply["Senior"],
             juniorSupply |-> toU64(b.supply["Junior"] - k)]
    BY <1>4, AfterJuniorRedeemFields
  <2> HIDE DEF p, next
  <2>3. (\E f \in DOMAIN p : Throws(p[f])) <=>
          \/ b.assets - n \notin U64 \/ b.nav["Junior"] - n \notin U64
          \/ b.supply["Junior"] - k \notin U64
    BY <1>1, <2>2, ThrowingFields, ThrowsOutside, FitsThrowsNot
  <2>4. next \in PoolBalances <=>
          /\ b.assets - n \in U64 /\ b.nav["Junior"] - n \in U64
          /\ b.supply["Junior"] - k \in U64
    BY <1>1, <1>2, <2>1 DEF Tranches
  <2>5. next \in PoolBalances => p = Mirrored(next)
    BY <2>1, <2>2, <2>4, ToU64 DEF Mirrored
  <2> QED
    BY <2>3, <2>4, <2>5 DEF p, next
<1> QED
  BY <1>3, <1>4 DEF Tranches

(* apply_loss and after_loss, of no more than there is.                    *)
LEMMA LossMirrored ==
  ASSUME NEW b \in PoolBalances, NEW loss \in Int, loss <= b.nav["Senior"] + b.nav["Junior"]
  PROVE  LET split == applyLoss(loss, b.nav["Senior"], b.nav["Junior"])
             parts == ApplyLoss(loss, b)
             next == AfterLoss(b, parts)
         IN  /\ split.juniorLoss = parts["Junior"] /\ split.seniorLoss = parts["Senior"]
             /\ next \in PoolBalances => afterLoss(Mirrored(b), split) = Mirrored(next)
<1> DEFINE split == applyLoss(loss, b.nav["Senior"], b.nav["Junior"])
           parts == ApplyLoss(loss, b)
           next == AfterLoss(b, parts)
<1>1. /\ b.nav["Senior"] \in Nat /\ b.nav["Junior"] \in Nat /\ b.assets \in Nat
  BY BalancesInU64
<1>2. split.juniorLoss = parts["Junior"] /\ split.seniorLoss = parts["Senior"]
  BY <1>1 DEF applyLoss, ApplyLoss, min, Lesser, Tranches
<1>3. /\ next.assets = b.assets - (parts["Senior"] + parts["Junior"])
      /\ next.nav["Senior"] = b.nav["Senior"] - parts["Senior"]
      /\ next.nav["Junior"] = b.nav["Junior"] - parts["Junior"]
      /\ next.supply = b.supply
  BY DEF AfterLoss, Tranches
<1> HIDE DEF split, parts, next
<1>4. afterLoss(Mirrored(b), split)
        = [assets |-> toU64(next.assets), seniorAssets |-> toU64(next.nav["Senior"]),
           juniorAssets |-> toU64(next.nav["Junior"]),
           seniorSupply |-> b.supply["Senior"], juniorSupply |-> b.supply["Junior"]]
  BY <1>2, <1>3, AfterLossFields
<1>5. next \in PoolBalances => afterLoss(Mirrored(b), split) = Mirrored(next)
  BY <1>3, <1>4, BalancesInU64, ToU64 DEF Mirrored
<1> QED
  BY <1>2, <1>5 DEF split, parts, next

-----------------------------------------------------------------------------
(* What shares cost and bring.  The mirror throws over shares of nothing,  *)
(* where the program aborts, and where the quotient leaves u64.            *)
LEMMA SharesMirrored ==
  ASSUME NEW amount \in U64, NEW assets \in Nat, NEW supply \in Nat
  PROVE  LET k == sharesForDeposit(amount, assets, supply)
             s == SharesForDeposit(amount, assets, supply)
         IN  /\ ~Throws(k) /\ k # 0 <=> s # 0 /\ s \in U64
             /\ s # 0 /\ s \in U64 => k = s
<1>1. CASE supply = 0
  BY <1>1, FitsThrowsNot DEF sharesForDeposit, SharesForDeposit
<1>2. CASE supply # 0 /\ assets = 0
  BY <1>2 DEF sharesForDeposit, SharesForDeposit, Throws, TrancheWipedOut
<1>3. CASE supply # 0 /\ assets # 0
  <2> DEFINE s == (amount * supply) \div assets
  <2>1. /\ sharesForDeposit(amount, assets, supply) = toU64(s)
        /\ SharesForDeposit(amount, assets, supply) = s
    BY <1>3 DEF sharesForDeposit, SharesForDeposit, mulDiv
  <2> HIDE DEF s
  <2> QED
    BY <2>1, ThrowsOutside, FitsThrowsNot
<1> QED
  BY <1>1, <1>2, <1>3

LEMMA AmountsMirrored ==
  ASSUME NEW shares \in Nat, NEW assets \in Nat, NEW supply \in Nat
  PROVE  LET k == amountForRedeem(shares, assets, supply)
             s == AmountForRedeem(shares, assets, supply)
         IN  /\ ~Throws(k) /\ k # 0 <=> shares <= supply /\ s # 0 /\ s \in U64
             /\ shares <= supply /\ s # 0 /\ s \in U64 => k = s
<1>1. CASE ~(shares <= supply)
  BY <1>1 DEF amountForRedeem, Throws, ParameterOutOfRange
<1>2. CASE shares <= supply /\ supply = 0
  BY <1>2 DEF amountForRedeem, AmountForRedeem
<1>3. CASE shares <= supply /\ supply # 0 /\ assets = 0
  <2>1. (shares * assets) \div supply = 0
    BY <1>3
  <2> QED
    BY <1>3, <2>1 DEF amountForRedeem, AmountForRedeem, Throws, TrancheWipedOut
<1>4. CASE shares <= supply /\ supply # 0 /\ assets # 0
  <2> DEFINE s == (shares * assets) \div supply
  <2>1. /\ amountForRedeem(shares, assets, supply) = toU64(s)
        /\ AmountForRedeem(shares, assets, supply) = s
    BY <1>4 DEF amountForRedeem, AmountForRedeem, mulDiv
  <2> HIDE DEF s
  <2> QED
    BY <1>4, <2>1, ThrowsOutside, FitsThrowsNot
<1> QED
  BY <1>1, <1>2, <1>3, <1>4

(* The market's shares go by the same quotients.                           *)
LEMMA CollateralMirrored ==
  ASSUME NEW n \in U64, NEW c \in Nat, NEW s \in Nat
  PROVE  /\ LET k == sharesForCollateral(n, c, s)
                q == SharesForCollateral(n, c, s)
            IN  /\ ~Throws(k) /\ k # 0 <=> q # 0 /\ q \in U64
                /\ q # 0 /\ q \in U64 => k = q
         /\ LET k == collateralForShares(n, c, s)
                q == CollateralForShares(n, c, s)
            IN  /\ ~Throws(k) /\ k # 0 <=> n <= s /\ q # 0 /\ q \in U64
                /\ n <= s /\ q # 0 /\ q \in U64 => k = q
<1>1. n \in Nat
  BY DEF U64
<1>2. /\ s = 0 => sharesForCollateral(n, c, s) = sharesForDeposit(n, c, s)
      /\ s # 0 /\ c # 0 => sharesForCollateral(n, c, s) = sharesForDeposit(n, c, s)
      /\ s # 0 /\ c = 0 => Throws(sharesForCollateral(n, c, s)) /\ Throws(sharesForDeposit(n, c, s))
      /\ SharesForCollateral(n, c, s) = SharesForDeposit(n, c, s)
  BY DEF sharesForCollateral, sharesForDeposit, SharesForCollateral, Throws,
         CollateralWipedOut, TrancheWipedOut
<1>3. /\ ~(n <= s) => Throws(collateralForShares(n, c, s)) /\ Throws(amountForRedeem(n, c, s))
      /\ n <= s /\ s # 0 /\ c = 0 => /\ Throws(collateralForShares(n, c, s))
                                     /\ Throws(amountForRedeem(n, c, s))
  <2>1. Throws(ParameterOutOfRange) /\ Throws(CollateralWipedOut) /\ Throws(TrancheWipedOut)
    BY DEF Throws, CollateralWipedOut, TrancheWipedOut, ParameterOutOfRange
  <2>2. ~(n <= s) <=> n > s
    BY <1>1
  <2> QED
    BY <2>1, <2>2, Zenon DEF collateralForShares, amountForRedeem
<1>4. n <= s /\ (s = 0 \/ c # 0) => collateralForShares(n, c, s) = amountForRedeem(n, c, s)
  BY Zenon DEF collateralForShares, amountForRedeem
<1>5. CollateralForShares(n, c, s) = AmountForRedeem(n, c, s)
  BY DEF CollateralForShares
<1> QED
  BY <1>1, <1>2, <1>3, <1>4, <1>5, SharesMirrored, AmountsMirrored

(* premium, its fee, a payout and the size of a loss are the program's,    *)
(* where they fit; the floor is the program's.                             *)
LEMMA PartsMirrored ==
  ASSUME NEW n, NEW rate
  PROVE  /\ \A term : premium(n, rate, term) = toU64(Premium(n, rate, term))
         /\ premiumFee(n, rate) = toU64(PremiumFee(n, rate))
         /\ ~(rate > BPS) => payout(n, rate) = toU64(Payout(n, rate))
         /\ lossAmount(n, rate) = toU64(LossAmount(n, rate))
         /\ \A b : SubordinationOk(b, rate)
                     <=> subordinationOk(b.nav["Senior"], b.nav["Junior"], rate)
<1>1. \A term : premium(n, rate, term) = toU64(Premium(n, rate, term))
  BY DEF premium, Premium, proRata, ProRata
<1>2. premiumFee(n, rate) = toU64(PremiumFee(n, rate))
  BY DEF premiumFee, PremiumFee, mulBps, MulBps
<1>3. ~(rate > BPS) => payout(n, rate) = toU64(Payout(n, rate))
  BY DEF payout, Payout, mulBps, MulBps
<1>4. lossAmount(n, rate) = toU64(LossAmount(n, rate))
  BY DEF lossAmount, LossAmount, mulBps, MulBps
<1>5. \A b : SubordinationOk(b, rate) <=> subordinationOk(b.nav["Senior"], b.nav["Junior"], rate)
  BY DEF SubordinationOk, subordinationOk
<1> QED
  BY <1>1, <1>2, <1>3, <1>4, <1>5

=============================================================================
