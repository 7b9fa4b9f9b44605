--------------------------- MODULE WashPageProofs ---------------------------
(***************************************************************************)
(* What the pages show, for any users, pools, buttons and bounds, and for  *)
(* any size of a batch.  A page holds what it read while others go on, and *)
(* what it read stays true because accounts only grow (WashClientProofs):  *)
(* every loss that a pool counts is on record and stays as it is, and a    *)
(* contract keeps its address, hence its pool, its buyer and its number.   *)
(*                                                                         *)
(* What a reader makes of an account is proved from its bytes: the cells   *)
(* of an account against the layout of its decoder, and the offsets of the *)
(* filters against the sizes of the cells before them.  Those are added up *)
(* one after the other, so they need an induction (SetInduction).          *)
(***************************************************************************)
EXTENDS WashClientProofs, WashMirrorProofs

-----------------------------------------------------------------------------
(* The bytes of an account of the program: its kind, then its fields.      *)
Stores(k, n) == IF n \in DOMAIN k THEN k[n] ELSE 0

FieldsOf(k) == Fields[k.kind]

(* The first cell is the kind, the others are the fields in their order.   *)
LEMMA DataIs ==
  ASSUME NEW k, k.kind \notin {"Mint", "Token"}, Listed(FieldsOf(k))
  PROVE  LET fields == FieldsOf(k)
             cells == Data(k)
         IN  /\ DOMAIN cells = 1 .. (Len(fields) + 1) /\ Len(cells) = Len(fields) + 1
             /\ cells[1] = [size |-> 8, value |-> k.kind]
             /\ \A i \in 1 .. Len(fields) :
                  cells[i + 1] = [size |-> fields[i].size, value |-> Stores(k, fields[i].name)]
<1> DEFINE fields == FieldsOf(k)
           rest == [i \in DOMAIN fields |->
                      LET field == fields[i]
                      IN  [size |-> field.size,
                           value |-> IF field.name \in DOMAIN k THEN k[field.name] ELSE 0]]
           head == <<[size |-> 8, value |-> k.kind]>>
<1>1. Data(k) = head \o rest
  BY DEF Data, FieldsOf
<1>2. DOMAIN fields = 1 .. Len(fields) /\ Len(fields) \in Nat
  BY DEF Listed
<1>3. \A i \in 1 .. Len(fields) :
        rest[i] = [size |-> fields[i].size, value |-> Stores(k, fields[i].name)]
  BY <1>2 DEF Stores
<1>4. rest \in Seq({rest[i] : i \in 1 .. Len(fields)}) /\ Len(rest) = Len(fields)
  BY <1>2
<1>5. head \in Seq({head[1]}) /\ Len(head) = 1
  OBVIOUS
<1> HIDE DEF rest, fields
<1>6. LET both == head \o rest
      IN  /\ DOMAIN both = 1 .. (Len(fields) + 1) /\ Len(both) = Len(fields) + 1
          /\ both[1] = head[1]
          /\ \A i \in 1 .. Len(fields) : both[i + 1] = rest[i]
  BY <1>2, <1>4, <1>5
<1> QED
  BY <1>1, <1>3, <1>6 DEF fields

(* A decoder that has the fields in their order and with their sizes finds *)
(* each under its name.                                                    *)
Reads(layout, fields) ==
  /\ Len(layout) = Len(fields) + 1 /\ DOMAIN layout = 1 .. Len(layout)
  /\ layout[1] = Discriminator
  /\ \A i \in 1 .. Len(fields) :
       layout[i + 1] = Field(fields[i].name, fields[i].size) /\ fields[i].name # "discriminator"

(* So a field is read back by its name.                                    *)
LEMMA DecodedByName ==
  ASSUME NEW k, k.kind \notin {"Mint", "Token"}, Listed(FieldsOf(k)),
         NEW layout, Reads(layout, FieldsOf(k)), NEW n, n # "discriminator",
         \E i \in 1 .. Len(FieldsOf(k)) : FieldsOf(k)[i].name = n
  PROVE  Decoded(layout, Data(k))[n] = Stores(k, n)
<1> DEFINE fields == FieldsOf(k)
           cells == Data(k)
           names == {layout[i].name : i \in DOMAIN layout}
           at == CHOOSE i \in DOMAIN layout : layout[i].name = n
<1>1. /\ Len(cells) = Len(fields) + 1 /\ Len(fields) \in Nat
      /\ cells[1] = [size |-> 8, value |-> k.kind]
      /\ \A i \in 1 .. Len(fields) :
           cells[i + 1] = [size |-> fields[i].size, value |-> Stores(k, fields[i].name)]
  BY DataIs
<1> HIDE DEF fields, cells
<1>2. /\ Len(layout) = Len(fields) + 1 /\ DOMAIN layout = 1 .. Len(layout)
      /\ layout[1] = [name |-> "discriminator", size |-> 8]
      /\ \A i \in 1 .. Len(fields) :
           layout[i + 1] = [name |-> fields[i].name, size |-> fields[i].size]
  BY DEF Reads, Field, Discriminator, fields
<1>3. ASSUME NEW i \in DOMAIN layout, i # 1
      PROVE  /\ i - 1 \in 1 .. Len(fields)
             /\ layout[i].name = fields[i - 1].name /\ layout[i].size = cells[i].size
             /\ cells[i].value = Stores(k, fields[i - 1].name)
  <2>1. i - 1 \in 1 .. Len(fields) /\ (i - 1) + 1 = i
    BY <1>1, <1>2, <1>3
  <2>2. /\ layout[i] = [name |-> fields[i - 1].name, size |-> fields[i - 1].size]
        /\ cells[i] = [size |-> fields[i - 1].size, value |-> Stores(k, fields[i - 1].name)]
    BY <1>1, <1>2, <2>1
  <2> QED
    BY <2>1, <2>2
<1>4. \A i \in DOMAIN layout : layout[i].size = cells[i].size
  <2> TAKE i \in DOMAIN layout
  <2>1. i = 1 => layout[i].size = cells[i].size
    BY <1>1, <1>2
  <2> QED
    BY <1>3, <2>1
<1>5. Decoded(layout, cells) = [m \in names |->
                                  cells[CHOOSE i \in DOMAIN layout : layout[i].name = m].value]
  BY <1>1, <1>2, <1>4 DEF Decoded
<1>6. \E i \in DOMAIN layout : layout[i].name = n
  <2>1. PICK j \in 1 .. Len(fields) : fields[j].name = n
    BY DEF fields
  <2>2. j + 1 \in DOMAIN layout
    BY <1>1, <1>2
  <2>3. layout[j + 1] = [name |-> fields[j].name, size |-> fields[j].size]
    BY <1>2
  <2> QED
    BY <2>1, <2>2, <2>3
<1>7. at \in DOMAIN layout /\ layout[at].name = n
  BY <1>6
<1>8. at # 1
  BY <1>2, <1>7
<1>9. cells[at].value = Stores(k, n)
  BY <1>3, <1>7, <1>8
<1>10. n \in names
  BY <1>6
<1> QED
  BY <1>5, <1>9, <1>10 DEF cells

(* The decoder of a pool agrees with the account ...                       *)
LEMMA PoolReads ==
  ASSUME NEW k, k.kind = "Pool"
  PROVE  /\ Listed(FieldsOf(k))
         /\ Reads(PoolLayout, FieldsOf(k))
         /\ \A n \in {"id", "operator", "mint", "vault", "seniorMint", "juniorMint", "lossCount",
                      "yieldRateBps", "seniorRateBps", "minJuniorBps", "perfFeeBps", "timeScale"} :
              \E i \in 1 .. Len(FieldsOf(k)) : FieldsOf(k)[i].name = n
<1>1. FieldsOf(k) = PoolFields
  BY DEF FieldsOf, Fields
<1>2. Listed(PoolFields) /\ Len(PoolFields) = 19
  BY DEF Listed, PoolFields, Stored
<1>3. Reads(PoolLayout, PoolFields)
  BY DEF Reads, PoolLayout, PoolFields, Stored, Field, U8, U16, U32, U64b, Key, Discriminator
<1>4. /\ PoolFields[1].name = "id" /\ PoolFields[2].name = "operator"
      /\ PoolFields[3].name = "mint" /\ PoolFields[4].name = "vault"
      /\ PoolFields[5].name = "seniorMint" /\ PoolFields[6].name = "juniorMint"
      /\ PoolFields[7].name = "yieldRateBps" /\ PoolFields[8].name = "seniorRateBps"
      /\ PoolFields[9].name = "minJuniorBps" /\ PoolFields[10].name = "perfFeeBps"
      /\ PoolFields[11].name = "timeScale" /\ PoolFields[17].name = "lossCount"
  BY DEF PoolFields, Stored
<1>5. \A n \in {"id", "operator", "mint", "vault", "seniorMint", "juniorMint", "lossCount",
                "yieldRateBps", "seniorRateBps", "minJuniorBps", "perfFeeBps", "timeScale"} :
        \E i \in 1 .. 19 : PoolFields[i].name = n
  BY <1>4
<1> QED
  BY <1>1, <1>2, <1>3, <1>5

(* ... and so do those of a loss ...                                       *)
LEMMA LossEventReads ==
  ASSUME NEW k, k.kind = "LossEvent"
  PROVE  /\ Listed(FieldsOf(k))
         /\ Reads(LossEventLayout, FieldsOf(k))
         /\ \A n \in {"index", "ts", "modelTime", "lossBps", "amount", "juniorLoss", "seniorLoss",
                      "assetsBefore"} :
              \E i \in 1 .. Len(FieldsOf(k)) : FieldsOf(k)[i].name = n
<1>1. FieldsOf(k) = LossEventFields
  BY DEF FieldsOf, Fields
<1>2. Listed(LossEventFields) /\ Len(LossEventFields) = 10
  BY DEF Listed, LossEventFields, Stored
<1>3. Reads(LossEventLayout, LossEventFields)
  BY DEF Reads, LossEventLayout, LossEventFields, Stored, Field, U8, U16, U32, U64b, Key,
         Discriminator
<1>4. /\ LossEventFields[2].name = "index" /\ LossEventFields[3].name = "ts"
      /\ LossEventFields[4].name = "modelTime" /\ LossEventFields[5].name = "lossBps"
      /\ LossEventFields[6].name = "amount" /\ LossEventFields[7].name = "juniorLoss"
      /\ LossEventFields[8].name = "seniorLoss" /\ LossEventFields[9].name = "assetsBefore"
  BY DEF LossEventFields, Stored
<1>5. \A n \in {"index", "ts", "modelTime", "lossBps", "amount", "juniorLoss", "seniorLoss",
                "assetsBefore"} :
        \E i \in 1 .. 10 : LossEventFields[i].name = n
  BY <1>4
<1> QED
  BY <1>1, <1>2, <1>3, <1>5

(* ... and of a contract. (generated/accounts, state.rs)                   *)
LEMMA ContractReads ==
  ASSUME NEW k, k.kind = "ProtectionContract"
  PROVE  /\ Listed(FieldsOf(k))
         /\ Reads(ProtectionContractLayout, FieldsOf(k))
         /\ \A n \in {"buyer", "nonce"} :
              \E i \in 1 .. Len(FieldsOf(k)) : FieldsOf(k)[i].name = n
<1>1. FieldsOf(k) = ProtectionContractFields
  BY DEF FieldsOf, Fields
<1>2. /\ Listed(ProtectionContractFields)
      /\ Len(ProtectionContractFields) = 13
  BY DEF Listed, ProtectionContractFields, Stored
<1>3. Reads(ProtectionContractLayout, ProtectionContractFields)
  BY DEF Reads, ProtectionContractLayout, ProtectionContractFields, Stored, Field, U8, U16, U32,
         U64b, Key, Discriminator
<1>4. /\ ProtectionContractFields[2].name = "buyer"
      /\ ProtectionContractFields[3].name = "nonce"
  BY DEF ProtectionContractFields, Stored
<1>5. \A n \in {"buyer", "nonce"} : \E i \in 1 .. 13 : ProtectionContractFields[i].name = n
  BY <1>4
<1> QED
  BY <1>1, <1>2, <1>3, <1>5

-----------------------------------------------------------------------------
(* A reader goes over an account cell by cell.                             *)
Sized(cells) == /\ Len(cells) \in Nat /\ DOMAIN cells = 1 .. Len(cells)
                /\ \A i \in 1 .. Len(cells) : cells[i].size \in Nat \ {0}

(* Sizes added up.                                                         *)
SumsTo(f, cells, n) ==
  f[0] = 0 /\ \A i \in 1 .. n : f[i] = f[i - 1] + cells[i].size

(* A running sum exists for every number of cells.                         *)
LEMMA SizesExist ==
  ASSUME NEW cells, Sized(cells), NEW n \in 0 .. Len(cells)
  PROVE  \E f \in [0 .. n -> Nat] : SumsTo(f, cells, n)
<1> DEFINE S == {m \in Nat : m <= Len(cells) => \E f \in [0 .. m -> Nat] : SumsTo(f, cells, m)}
<1>1. 0 \in S
  <2> DEFINE f == [i \in 0 .. 0 |-> 0]
  <2>1. f \in [0 .. 0 -> Nat] /\ SumsTo(f, cells, 0)
    BY DEF SumsTo
  <2> QED
    BY <2>1
<1>2. ASSUME NEW m \in Nat, m \in S
      PROVE  m + 1 \in S
  <2>1. ASSUME m + 1 <= Len(cells)
        PROVE  \E g \in [0 .. (m + 1) -> Nat] : SumsTo(g, cells, m + 1)
    <3>1. PICK f \in [0 .. m -> Nat] : SumsTo(f, cells, m)
      BY <1>2, <2>1 DEF Sized
    <3> DEFINE g == [i \in 0 .. (m + 1) |-> IF i <= m THEN f[i] ELSE f[m] + cells[m + 1].size]
    <3>2. cells[m + 1].size \in Nat /\ f[m] \in Nat
      BY <2>1, <3>1 DEF Sized
    <3>3. g \in [0 .. (m + 1) -> Nat]
      BY <3>1, <3>2
    <3>4. g[0] = 0
      BY <3>1 DEF SumsTo
    <3>5. ASSUME NEW i \in 1 .. (m + 1)
          PROVE  g[i] = g[i - 1] + cells[i].size
      <4>1. CASE i <= m
        <5>1. i \in 1 .. m /\ g[i] = f[i] /\ g[i - 1] = f[i - 1]
          BY <4>1
        <5> QED
          BY <3>1, <5>1 DEF SumsTo
      <4>2. CASE i = m + 1
        <5>1. g[i] = f[m] + cells[m + 1].size /\ g[i - 1] = f[m]
          BY <4>2
        <5> QED
          BY <4>2, <5>1
      <4> QED
        BY <4>1, <4>2
    <3> QED
      BY <3>3, <3>4, <3>5 DEF SumsTo
  <2> QED
    BY <2>1
<1> HIDE DEF S
<1>3. n \in S
  BY <1>1, <1>2, SetInduction DEF Sized
<1> QED
  BY <1>3 DEF S, Sized

(* So the sum of the readers is one.                                       *)
LEMMA SizesAdd ==
  ASSUME NEW cells, Sized(cells)
  PROVE  /\ ByteSize(cells, 0) = 0
         /\ \A i \in 1 .. Len(cells) :
              ByteSize(cells, i) = ByteSize(cells, i - 1) + cells[i].size
<1> DEFINE m == Len(cells)
           Eq(f) == f = [i \in 0 .. m |-> IF i = 0 THEN 0 ELSE f[i - 1] + cells[i].size]
           sum == CHOOSE f : Eq(f)
<1>1. m \in Nat
  BY DEF Sized
<1>2. PICK f \in [0 .. m -> Nat] : SumsTo(f, cells, m)
  BY <1>1, SizesExist
<1>3. Eq(f)
  BY <1>1, <1>2 DEF SumsTo
<1>4. Eq(sum)
  BY <1>3
<1>5. \A i \in 0 .. m : ByteSize(cells, i) = sum[i]
  BY DEF ByteSize
<1> HIDE DEF sum
<1>6. sum[0] = 0 /\ \A i \in 1 .. m : sum[i] = sum[i - 1] + cells[i].size
  BY <1>1, <1>4
<1> QED
  BY <1>1, <1>5, <1>6

(* It never falls from cell to cell.                                       *)
LEMMA SizesGrow ==
  ASSUME NEW cells, Sized(cells), NEW i \in 0 .. Len(cells), NEW j \in i .. Len(cells)
  PROVE  /\ ByteSize(cells, i) \in Nat /\ ByteSize(cells, j) \in Nat
         /\ ByteSize(cells, i) <= ByteSize(cells, j)
<1> DEFINE size(n) == ByteSize(cells, n)
           S == {n \in Nat : n <= Len(cells) => size(n) \in Nat}
           T == {n \in Nat : i + n <= Len(cells) => size(i) <= size(i + n)}
<1>1. size(0) = 0 /\ \A n \in 1 .. Len(cells) : size(n) = size(n - 1) + cells[n].size
  BY SizesAdd
<1>2. Len(cells) \in Nat /\ \A n \in 1 .. Len(cells) : cells[n].size \in Nat
  BY DEF Sized
<1> HIDE DEF size
<1>3. ASSUME NEW n \in Nat, n + 1 <= Len(cells)
      PROVE  size(n + 1) = size(n) + cells[n + 1].size /\ cells[n + 1].size \in Nat
  BY <1>1, <1>2, <1>3
<1>4. \A n \in 0 .. Len(cells) : size(n) \in Nat
  <2>1. 0 \in S
    BY <1>1
  <2>2. \A n \in Nat : n \in S => n + 1 \in S
    BY <1>2, <1>3
  <2> HIDE DEF S
  <2>3. Nat \subseteq S
    BY <2>1, <2>2, SetInduction
  <2> QED
    BY <1>2, <2>3 DEF S
<1>5. \A n \in Nat : i + n <= Len(cells) => size(i) <= size(i + n)
  <2>1. 0 \in T
    BY <1>2, <1>4
  <2>2. ASSUME NEW n \in Nat, n \in T
        PROVE  n + 1 \in T
    <3>1. ASSUME i + (n + 1) <= Len(cells)
          PROVE  size(i) <= size(i + (n + 1))
      <4>1. size(i) <= size(i + n) /\ i + n \in 0 .. Len(cells)
        BY <1>2, <2>2, <3>1
      <4>2. size((i + n) + 1) = size(i + n) + cells[(i + n) + 1].size
            /\ cells[(i + n) + 1].size \in Nat
        BY <1>2, <1>3, <3>1
      <4>3. size(i) \in Nat /\ size(i + n) \in Nat /\ (i + n) + 1 = i + (n + 1)
        BY <1>2, <1>4, <4>1
      <4> QED
        BY <4>1, <4>2, <4>3
    <3> QED
      BY <3>1
  <2> HIDE DEF T
  <2>3. Nat \subseteq T
    BY <2>1, <2>2, SetInduction
  <2> QED
    BY <2>3 DEF T
<1>6. j = i + (j - i) /\ j - i \in Nat
  BY <1>2
<1>7. size(i) <= size(j)
  <2>1. PICK n \in Nat : j = i + n /\ i + n <= Len(cells)
    BY <1>2, <1>6
  <2> QED
    BY <1>5, <2>1
<1>8. size(i) \in Nat /\ size(j) \in Nat /\ size(i) <= size(j)
  BY <1>2, <1>4, <1>6, <1>7
<1> QED
  BY <1>8 DEF size

(* Cells have a size, so an offset belongs to one of them: a filter looks  *)
(* at the cell it is meant for.                                            *)
LEMMA CellAt ==
  ASSUME NEW cells, Sized(cells), NEW n \in 1 .. Len(cells), NEW v
  PROVE  memcmp(cells, ByteSize(cells, n - 1), v) <=> cells[n].value = v
<1> DEFINE size(i) == ByteSize(cells, i)
<1>1. Len(cells) \in Nat /\ DOMAIN cells = 1 .. Len(cells)
      /\ \A i \in 1 .. Len(cells) : cells[i].size \in Nat /\ cells[i].size > 0
  BY DEF Sized
<1>2. \A i \in 1 .. Len(cells) : size(i) = size(i - 1) + cells[i].size
  BY SizesAdd
<1>3. \A i \in 0 .. Len(cells), j \in 0 .. Len(cells) :
        i <= j => size(i) \in Nat /\ size(j) \in Nat /\ size(i) <= size(j)
  BY <1>1, SizesGrow
<1> HIDE DEF size
<1>4. ASSUME NEW i \in 1 .. Len(cells), NEW j \in 1 .. Len(cells), i < j
      PROVE  size(i - 1) # size(j - 1)
  <2>1. size(i) = size(i - 1) + cells[i].size /\ cells[i].size > 0 /\ cells[i].size \in Nat
    BY <1>1, <1>2
  <2>2. size(i) <= size(j - 1) /\ size(i) \in Nat /\ size(j - 1) \in Nat
    BY <1>1, <1>3, <1>4
  <2>3. size(i - 1) \in Nat
    BY <1>1, <1>3
  <2> QED
    BY <2>1, <2>2, <2>3
<1>5. ASSUME NEW i \in 1 .. Len(cells), size(i - 1) = size(n - 1)
      PROVE  i = n
  BY <1>1, <1>4, <1>5
<1> QED
  BY <1>1, <1>5 DEF memcmp, size

(* What the program stores, kind by kind.                                  *)
LEMMA ProgramSizes ==
  ASSUME NEW k, k.kind \in DOMAIN Fields
  PROVE  /\ k.kind \notin {"Mint", "Token"}
         /\ Listed(FieldsOf(k))
         /\ \A i \in 1 .. Len(FieldsOf(k)) : FieldsOf(k)[i].size \in Nat \ {0}
<1>1. k.kind \in {"Config", "Pool", "LossEvent", "ProtectionPool", "SellerPosition",
                  "ProtectionContract"}
  BY DEF Fields
<1>2. CASE k.kind = "Config"
  BY <1>2 DEF FieldsOf, Fields, ConfigFields, Stored, Listed
<1>3. CASE k.kind = "Pool"
  BY <1>3 DEF FieldsOf, Fields, PoolFields, Stored, Listed
<1>4. CASE k.kind = "LossEvent"
  BY <1>4 DEF FieldsOf, Fields, LossEventFields, Stored, Listed
<1>5. CASE k.kind = "ProtectionPool"
  BY <1>5 DEF FieldsOf, Fields, ProtectionPoolFields, Stored, Listed
<1>6. CASE k.kind = "SellerPosition"
  BY <1>6 DEF FieldsOf, Fields, SellerPositionFields, Stored, Listed
<1>7. CASE k.kind = "ProtectionContract"
  BY <1>7 DEF FieldsOf, Fields, ProtectionContractFields, Stored, Listed
<1> QED
  BY <1>1, <1>2, <1>3, <1>4, <1>5, <1>6, <1>7

(* The cells of an account of the program.                                 *)
LEMMA ProgramData ==
  ASSUME NEW k, k.kind \in DOMAIN Fields
  PROVE  /\ Sized(Data(k)) /\ Len(Data(k)) = Len(FieldsOf(k)) + 1
         /\ Data(k)[1] = [size |-> 8, value |-> k.kind]
         /\ \A i \in 1 .. Len(FieldsOf(k)) :
              Data(k)[i + 1] = [size |-> FieldsOf(k)[i].size,
                                value |-> Stores(k, FieldsOf(k)[i].name)]
<1> DEFINE fields == FieldsOf(k)
           cells == Data(k)
<1>1. /\ DOMAIN cells = 1 .. (Len(fields) + 1) /\ Len(cells) = Len(fields) + 1
      /\ cells[1] = [size |-> 8, value |-> k.kind]
      /\ \A i \in 1 .. Len(fields) :
           cells[i + 1] = [size |-> fields[i].size, value |-> Stores(k, fields[i].name)]
  BY ProgramSizes, DataIs
<1>2. Len(fields) \in Nat /\ \A i \in 1 .. Len(fields) : fields[i].size \in Nat \ {0}
  BY ProgramSizes DEF Listed
<1> HIDE DEF fields, cells
<1>3. ASSUME NEW i \in 1 .. Len(cells)
      PROVE  cells[i].size \in Nat \ {0}
  <2>1. CASE i = 1
    BY <1>1, <2>1
  <2>2. CASE i # 1
    <3>1. i - 1 \in 1 .. Len(fields) /\ (i - 1) + 1 = i
      BY <1>1, <1>2, <2>2
    <3>2. cells[(i - 1) + 1] = [size |-> fields[i - 1].size,
                                value |-> Stores(k, fields[i - 1].name)]
      BY <1>1, <3>1
    <3>3. cells[i].size = fields[i - 1].size
      BY <3>1, <3>2
    <3> QED
      BY <1>2, <3>1, <3>3
  <2> QED
    BY <2>1, <2>2
<1>4. Sized(cells)
  BY <1>1, <1>2, <1>3 DEF Sized
<1> QED
  BY <1>1, <1>4 DEF fields, cells

(* The filter on the discriminator finds the kind.                         *)
LEMMA DiscriminatorAt ==
  ASSUME NEW k, k.kind \in DOMAIN Fields, NEW kind
  PROVE  memcmp(Data(k), 0, kind) <=> k.kind = kind
<1> DEFINE cells == Data(k)
<1>1. Sized(cells) /\ 1 \in 1 .. Len(cells) /\ cells[1].value = k.kind
  <2>1. Len(FieldsOf(k)) \in Nat
    BY ProgramSizes DEF Listed
  <2>2. Sized(cells) /\ Len(cells) = Len(FieldsOf(k)) + 1
    BY ProgramData
  <2>3. cells[1] = [size |-> 8, value |-> k.kind]
    BY ProgramData
  <2> QED
    BY <2>1, <2>2, <2>3
<1> HIDE DEF cells
<1>2. ByteSize(cells, 0) = 0
  BY <1>1, SizesAdd
<1>3. memcmp(cells, ByteSize(cells, 1 - 1), kind) <=> cells[1].value = kind
  BY <1>1, CellAt
<1> QED
  BY <1>1, <1>2, <1>3 DEF cells

(* The filters of the readers, on a contract: its size, its pool at 8,     *)
(* its buyer at 40. (CONTRACT_POOL_OFFSET and CONTRACT_BUYER_OFFSET of     *)
(* read.ts)                                                                *)
LEMMA ContractBytes ==
  ASSUME NEW k, k.kind = "ProtectionContract", {"pool", "buyer"} \subseteq DOMAIN k, NEW v
  PROVE  /\ ByteSize(Data(k), Len(Data(k))) = ProtectionContractSize
         /\ memcmp(Data(k), ContractPoolOffset, v) <=> k.pool = v
         /\ memcmp(Data(k), ContractBuyerOffset, v) <=> k.buyer = v
<1> DEFINE cells == Data(k)
           fields == FieldsOf(k)
           sum(i) == ByteSize(cells, i)
<1>1. k.kind \in DOMAIN Fields /\ fields = ProtectionContractFields
  BY DEF Fields, FieldsOf
<1>2. Len(fields) = 13
  BY <1>1 DEF ProtectionContractFields
<1>3. /\ Sized(cells) /\ Len(cells) = 14 /\ cells[1] = [size |-> 8, value |-> k.kind]
      /\ \A i \in 1 .. 13 :
           cells[i + 1] = [size |-> fields[i].size, value |-> Stores(k, fields[i].name)]
  <2>1. Sized(cells) /\ Len(cells) = Len(fields) + 1 /\ cells[1] = [size |-> 8, value |-> k.kind]
    BY <1>1, ProgramData
  <2>2. \A i \in 1 .. Len(fields) :
          cells[i + 1] = [size |-> fields[i].size, value |-> Stores(k, fields[i].name)]
    BY <1>1, ProgramData
  <2> HIDE DEF cells, fields
  <2> QED
    BY <1>2, <2>1, <2>2
<1> HIDE DEF cells, fields
<1>4. /\ fields[1] = [name |-> "pool", size |-> 32] /\ fields[2] = [name |-> "buyer", size |-> 32]
      /\ fields[3].size = 8 /\ fields[4].size = 8 /\ fields[5].size = 8 /\ fields[6].size = 8
      /\ fields[7].size = 8 /\ fields[8].size = 2 /\ fields[9].size = 4 /\ fields[10].size = 1
      /\ fields[11].size = 4 /\ fields[12].size = 8 /\ fields[13].size = 1
  BY <1>1 DEF ProtectionContractFields, Stored
<1>5. /\ cells[2] = [size |-> 32, value |-> k.pool] /\ cells[3] = [size |-> 32, value |-> k.buyer]
  <2>1. cells[1 + 1] = [size |-> 32, value |-> Stores(k, "pool")]
    BY <1>3, <1>4
  <2>2. cells[2 + 1] = [size |-> 32, value |-> Stores(k, "buyer")]
    BY <1>3, <1>4
  <2> QED
    BY <2>1, <2>2 DEF Stores
<1>6. \A i \in 1 .. 13 : cells[i + 1].size = fields[i].size
  BY <1>3
<1>7. sum(0) = 0 /\ \A i \in 1 .. 14 : sum(i) = sum(i - 1) + cells[i].size
  BY <1>3, SizesAdd
<1> HIDE DEF sum
<1>8. sum(1) = 8 /\ sum(2) = 40
  <2>1. sum(1) = sum(1 - 1) + cells[1].size /\ sum(2) = sum(2 - 1) + cells[2].size
    BY <1>7
  <2> QED
    BY <1>3, <1>5, <1>7, <2>1
<1>9. sum(14) = 132
  <2>1. \A i \in 1 .. 13 : sum(i + 1) = sum(i) + fields[i].size
    <3> TAKE i \in 1 .. 13
    <3>1. sum(i + 1) = sum((i + 1) - 1) + cells[i + 1].size
      BY <1>7
    <3> QED
      BY <1>6, <3>1
  <2>2. /\ sum(3) = 72 /\ sum(4) = 80 /\ sum(5) = 88 /\ sum(6) = 96 /\ sum(7) = 104
    <3>1. /\ sum(2 + 1) = sum(2) + fields[2].size /\ sum(3 + 1) = sum(3) + fields[3].size
          /\ sum(4 + 1) = sum(4) + fields[4].size /\ sum(5 + 1) = sum(5) + fields[5].size
          /\ sum(6 + 1) = sum(6) + fields[6].size
      BY <2>1
    <3> QED
      BY <1>4, <1>8, <3>1
  <2>3. /\ sum(8) = 112 /\ sum(9) = 114 /\ sum(10) = 118 /\ sum(11) = 119
    <3>1. /\ sum(7 + 1) = sum(7) + fields[7].size /\ sum(8 + 1) = sum(8) + fields[8].size
          /\ sum(9 + 1) = sum(9) + fields[9].size /\ sum(10 + 1) = sum(10) + fields[10].size
      BY <2>1
    <3> QED
      BY <1>4, <2>2, <3>1
  <2>4. /\ sum(11 + 1) = sum(11) + fields[11].size /\ sum(12 + 1) = sum(12) + fields[12].size
        /\ sum(13 + 1) = sum(13) + fields[13].size
    BY <2>1
  <2> QED
    BY <1>4, <2>3, <2>4
<1>10. \A n \in 1 .. 14 : memcmp(cells, sum(n - 1), v) <=> cells[n].value = v
  <2> TAKE n \in 1 .. 14
  <2>1. Sized(cells) /\ n \in 1 .. Len(cells)
    BY <1>3
  <2>2. memcmp(cells, ByteSize(cells, n - 1), v) <=> cells[n].value = v
    BY <2>1, CellAt
  <2> QED
    BY <2>2 DEF sum
<1>11. memcmp(cells, 8, v) <=> k.pool = v
  <2>1. memcmp(cells, sum(2 - 1), v) <=> cells[2].value = v
    BY <1>10
  <2> QED
    BY <1>5, <1>8, <2>1
<1>12. memcmp(cells, 40, v) <=> k.buyer = v
  <2>1. memcmp(cells, sum(3 - 1), v) <=> cells[3].value = v
    BY <1>10
  <2> QED
    BY <1>5, <1>8, <2>1
<1> QED
  BY <1>3, <1>9, <1>11, <1>12
     DEF sum, cells, ProtectionContractSize, ContractPoolOffset, ContractBuyerOffset

-----------------------------------------------------------------------------
(* What a page knows of a pool, a loss and a contract that is there.       *)
PoolRead(k) == Decoded(PoolLayout, Data(k))

LossRead(A, pool, i) ==
  LET a == LossEventAddress(pool, i) IN lossEventView(a, Decoded(LossEventLayout, Data(A[a])))

ContractRead(A, a) == contractView(a, Decoded(ProtectionContractLayout, Data(A[a])))

(* Of a pool the page knows what the account holds ...                     *)
LEMMA PoolReadIs ==
  ASSUME NEW k, NEW a, PoolAt(a, k)
  PROVE  \A n \in {"id", "operator", "mint", "vault", "seniorMint", "juniorMint", "lossCount",
                 "yieldRateBps", "seniorRateBps", "minJuniorBps", "perfFeeBps", "timeScale"} :
           PoolRead(k)[n] = k[n]
<1> TAKE n \in {"id", "operator", "mint", "vault", "seniorMint", "juniorMint", "lossCount",
                "yieldRateBps", "seniorRateBps", "minJuniorBps", "perfFeeBps", "timeScale"}
<1>1. k.kind = "Pool" /\ n \in DOMAIN k /\ n # "discriminator"
  BY DEF PoolAt
<1>2. \E i \in 1 .. Len(FieldsOf(k)) : FieldsOf(k)[i].name = n
  BY <1>1, PoolReads
<1>3. Listed(FieldsOf(k)) /\ Reads(PoolLayout, FieldsOf(k))
  BY <1>1, PoolReads
<1>4. PoolRead(k)[n] = Stores(k, n)
  BY <1>1, <1>2, <1>3, DecodedByName DEF PoolRead
<1> QED
  BY <1>1, <1>4 DEF Stores

(* What the model does not store of a loss.                                *)
Zeros == [n \in {"ts", "modelTime", "amount", "juniorLoss", "seniorLoss", "assetsBefore"} |-> 0]

(* ... of a loss what is on record ...                                     *)
LEMMA LossReadIs ==
  ASSUME NEW A, AccountsOK(A), NEW pool, NEW i, LossEventAddress(pool, i) \in DOMAIN A
  PROVE  LET e == A[LossEventAddress(pool, i)]
         IN  LossRead(A, pool, i)
             = lossEventView(LossEventAddress(e.pool, e.index), Filled(e, Zeros))
<1> DEFINE e == A[LossEventAddress(pool, i)]
           read == Decoded(LossEventLayout, Data(e))
           full == Filled(e, Zeros)
<1>1. /\ e.kind = "LossEvent" /\ e.pool = pool /\ e.index = i
      /\ {"index", "lossBps"} \subseteq DOMAIN e
  BY LossThere DEF LossAt
<1>2. \A n \in {"index", "ts", "modelTime", "lossBps", "amount", "juniorLoss", "seniorLoss",
                "assetsBefore"} : read[n] = Stores(e, n)
  <2> TAKE n \in {"index", "ts", "modelTime", "lossBps", "amount", "juniorLoss", "seniorLoss",
                  "assetsBefore"}
  <2>1. n # "discriminator"
    OBVIOUS
  <2> QED
    BY <1>1, <2>1, LossEventReads, DecodedByName
<1>3. \A n \in {"index", "ts", "modelTime", "lossBps", "amount", "juniorLoss", "seniorLoss",
                "assetsBefore"} : full[n] = Stores(e, n)
  BY <1>1 DEF Filled, Zeros, Stores
<1> HIDE DEF e, read, full
<1>4. lossEventView(LossEventAddress(e.pool, e.index), read)
      = lossEventView(LossEventAddress(e.pool, e.index), full)
  BY <1>2, <1>3 DEF lossEventView
<1> QED
  BY <1>1, <1>4 DEF LossRead, e, read, full

(* ... and of a contract whose it is and its number.                       *)
LEMMA ContractReadIs ==
  ASSUME NEW A, NEW a, A[a].kind = "ProtectionContract", {"buyer", "nonce"} \subseteq DOMAIN A[a]
  PROVE  ContractRead(A, a).buyer = A[a].buyer /\ ContractRead(A, a).nonce = A[a].nonce
<1> DEFINE k == A[a]
           read == Decoded(ProtectionContractLayout, Data(k))
<1>1. \A n \in {"buyer", "nonce"} : read[n] = Stores(k, n)
  <2> TAKE n \in {"buyer", "nonce"}
  <2>1. n # "discriminator"
    OBVIOUS
  <2> QED
    BY <2>1, ContractReads, DecodedByName
<1> QED
  BY <1>1 DEF ContractRead, contractView, Stores

(* A list and its members.                                                 *)
LEMMA ListIsSeq ==
  ASSUME NEW n \in Nat, NEW s, s = [i \in 1 .. n |-> s[i]]
  PROVE  s \in Seq({s[i] : i \in 1 .. n}) /\ Len(s) = n /\ DOMAIN s = 1 .. n
OBVIOUS

(* Two lists joined.                                                       *)
LEMMA JoinedIs ==
  ASSUME NEW m \in Nat, NEW n \in Nat, NEW s, NEW t,
         s = [i \in 1 .. m |-> s[i]], t = [i \in 1 .. n |-> t[i]]
  PROVE  /\ s \o t = [i \in 1 .. (m + n) |-> (s \o t)[i]]
         /\ \A i \in 1 .. m : (s \o t)[i] = s[i]
         /\ \A i \in 1 .. n : (s \o t)[m + i] = t[i]
BY ListIsSeq

(* A part of a list.                                                       *)
LEMMA PartIs ==
  ASSUME NEW n \in Nat, NEW s, s = [i \in 1 .. n |-> s[i]],
         NEW a \in 1 .. (n + 1), NEW m \in Nat, a + m <= n + 1
  PROVE  /\ Len(SubSeq(s, a, a + m - 1)) = m /\ DOMAIN SubSeq(s, a, a + m - 1) = 1 .. m
         /\ \A i \in 1 .. m : SubSeq(s, a, a + m - 1)[i] = s[a + i - 1]
BY ListIsSeq

(* The first call for a pool, and the further ones.                        *)
LEMMA ReadPoolIs ==
  ASSUME NEW A, AccountsOK(A), NEW p \in Pools
  PROVE  LET pool == PoolAddress(p)
             n == A[pool].lossCount
         IN  \A home \in readPool(A, p) :
               /\ pool \in DOMAIN A /\ home.address = pool
               /\ {"address", "data", "events"} \subseteq DOMAIN home
               /\ home.data = PoolRead(A[pool])
               /\ \E m \in 0 .. n : home.events = [i \in 1 .. m |-> home.events[i]]
               /\ \A i \in DOMAIN home.events :
                    LossEventAddress(pool, i - 1) \in DOMAIN A
                      => home.events[i] = LossRead(A, pool, i - 1)
<1> DEFINE pool == PoolAddress(p)
           n == A[pool].lossCount
           three == <<pool, SeniorMintAddress(pool), JuniorMintAddress(pool)>>
           losses == lossEventAddresses(pool, 0, EagerLossEvents)
           addresses == three \o losses
           answer == FetchEncodedAccounts(A, addresses)
<1> SUFFICES ASSUME NEW home \in readPool(A, p)
             PROVE  /\ pool \in DOMAIN A /\ home.address = pool
                    /\ {"address", "data", "events"} \subseteq DOMAIN home
                    /\ home.data = PoolRead(A[pool])
                    /\ \E q \in 0 .. n : home.events = [i \in 1 .. q |-> home.events[i]]
                    /\ \A i \in DOMAIN home.events :
                         LossEventAddress(pool, i - 1) \in DOMAIN A
                           => home.events[i] = LossRead(A, pool, i - 1)
  OBVIOUS
<1>1. EagerLossEvents \in Nat
  BY ReadersAssumption
<1>2. losses = [i \in 1 .. EagerLossEvents |-> LossEventAddress(pool, i - 1)]
  BY <1>1 DEF lossEventAddresses
<1> HIDE DEF losses
<1>3. three = [i \in 1 .. 3 |-> three[i]] /\ losses = [i \in 1 .. EagerLossEvents |-> losses[i]]
  BY <1>2
<1>4. /\ addresses = [i \in 1 .. (3 + EagerLossEvents) |-> addresses[i]]
      /\ addresses[1] = pool
      /\ \A i \in 1 .. EagerLossEvents : addresses[3 + i] = LossEventAddress(pool, i - 1)
  <2>1. three[1] = pool
    OBVIOUS
  <2> HIDE DEF three
  <2> QED
    BY <1>1, <1>2, <1>3, <2>1, JoinedIs
<1> HIDE DEF addresses
<1>5. /\ DOMAIN answer = 1 .. (3 + EagerLossEvents)
      /\ \A i \in 1 .. (3 + EagerLossEvents) :
           answer[i] = IF addresses[i] \in DOMAIN A
                       THEN [exists |-> TRUE, address |-> addresses[i],
                             data |-> Data(A[addresses[i]])]
                       ELSE [exists |-> FALSE, address |-> addresses[i]]
  BY <1>4 DEF FetchEncodedAccounts
<1>6. answer = [i \in 1 .. (3 + EagerLossEvents) |-> answer[i]]
  BY <1>1, <1>4 DEF FetchEncodedAccounts
<1> DEFINE data == DecodePool(answer[1]).data
           known == SubSeq(answer, 4, 3 + min(EagerLossEvents, data.lossCount))
           events == [i \in DOMAIN known |-> lossEvent(known[i])]
<1>7. /\ answer[1].exists
      /\ home = [address |-> pool, data |-> data, seniorSupply |-> mintSupply(answer[2]),
                 juniorSupply |-> mintSupply(answer[3]), events |-> events]
  BY DEF readPool, losses, addresses
<1>8. /\ home.address = pool /\ home.data = data /\ home.events = events
      /\ {"address", "data", "events"} \subseteq DOMAIN home
  BY <1>7
<1> HIDE DEF answer
<1>a. answer[1] = IF pool \in DOMAIN A
                  THEN [exists |-> TRUE, address |-> pool, data |-> Data(A[pool])]
                  ELSE [exists |-> FALSE, address |-> pool]
  <2>1. 1 \in 1 .. (3 + EagerLossEvents)
    BY <1>1
  <2> QED
    BY <1>4, <1>5, <2>1
<1>9. pool \in DOMAIN A
  BY <1>7, <1>a
<1>10. data = PoolRead(A[pool])
  <2>1. answer[1] = [exists |-> TRUE, address |-> pool, data |-> Data(A[pool])]
    BY <1>9, <1>a
  <2> QED
    BY <2>1 DEF DecodePool, DecodeAccount, PoolRead
<1>11. n \in Nat /\ data.lossCount = n
  <2>1. PoolAt(pool, A[pool])
    BY <1>9, PoolThere
  <2>2. PoolRead(A[pool])["lossCount"] = n
    BY <2>1, PoolReadIs
  <2> QED
    BY <1>10, <2>1, <2>2 DEF PoolAt
<1> DEFINE m == min(EagerLossEvents, n)
<1>12. m \in 0 .. n /\ m <= EagerLossEvents
  BY <1>1, <1>11 DEF min
<1>13. known = SubSeq(answer, 4, 3 + m)
  BY <1>11
<1> HIDE DEF known, data, m
<1>14. DOMAIN known = 1 .. m /\ \A i \in 1 .. m : known[i] = answer[3 + i]
  <2>1. /\ DOMAIN SubSeq(answer, 4, 4 + m - 1) = 1 .. m
        /\ \A i \in 1 .. m : SubSeq(answer, 4, 4 + m - 1)[i] = answer[4 + i - 1]
    <3>1. 3 + EagerLossEvents \in Nat /\ 4 \in 1 .. ((3 + EagerLossEvents) + 1)
          /\ m \in Nat /\ 4 + m <= (3 + EagerLossEvents) + 1
      BY <1>1, <1>12
    <3> QED
      BY <1>6, <3>1, PartIs
  <2>2. 4 + m - 1 = 3 + m /\ \A i \in 1 .. m : 4 + i - 1 = 3 + i
    BY <1>12
  <2> QED
    BY <1>13, <2>1, <2>2
<1>15. events = [i \in 1 .. m |-> events[i]] /\ \A i \in 1 .. m : events[i] = lossEvent(known[i])
  BY <1>12, <1>14
<1>16. ASSUME NEW i \in 1 .. m, LossEventAddress(pool, i - 1) \in DOMAIN A
       PROVE  events[i] = LossRead(A, pool, i - 1)
  <2> DEFINE a == LossEventAddress(pool, i - 1)
  <2>x. i \in 1 .. EagerLossEvents /\ 3 + i \in 1 .. (3 + EagerLossEvents)
    BY <1>1, <1>11, <1>12
  <2>1. addresses[3 + i] = a
    BY <1>4, <2>x
  <2>2. known[i] = [exists |-> TRUE, address |-> a, data |-> Data(A[a])]
    <3>1. known[i] = answer[3 + i]
      BY <1>14
    <3> QED
      BY <1>5, <1>16, <2>x, <2>1, <3>1
  <2>3. lossEvent(known[i]) = LossRead(A, pool, i - 1)
    BY <2>2 DEF lossEvent, DecodeLossEvent, DecodeAccount, LossRead
  <2> QED
    BY <1>15, <2>3
<1> HIDE DEF events
<1> QED
  BY <1>8, <1>9, <1>10, <1>12, <1>15, <1>16

(* A list of so many.                                                      *)
LongAs(s, n) == s = [i \in 1 .. n |-> s[i]]

(* A further call adds the next losses to those that are home, as they     *)
(* are on record.                                                          *)
LEMMA ReadLossEventsIs ==
  ASSUME NEW A, NEW home, NEW m \in Nat, NEW n \in Nat, m < n, home.data.lossCount = n,
         LongAs(home.events, m),
         {"address", "data", "events"} \subseteq DOMAIN home
  PROVE  LET next == readLossEvents(A, home)
         IN  /\ next.address = home.address /\ next.data = home.data
             /\ DOMAIN next = DOMAIN home
             /\ \E q \in m .. n :
                  /\ LongAs(next.events, q)
                  /\ \A i \in 1 .. m : next.events[i] = home.events[i]
                  /\ \A i \in (m + 1) .. q :
                       LossEventAddress(home.address, i - 1) \in DOMAIN A
                         => next.events[i] = LossRead(A, home.address, i - 1)
<1> DEFINE pool == home.address
           end == BatchEnd(home)
           new == lossEventAddresses(pool, m, end)
           found == LossEvents(A, new)
           next == readLossEvents(A, home)
<1>0. home.events = [i \in 1 .. m |-> home.events[i]]
  BY DEF LongAs
<1>1. Len(home.events) = m
  BY <1>0, ListIsSeq
<1>2. end \in m .. n
  BY <1>1, ReadersAssumption DEF BatchEnd, min
<1>3. new = [i \in 1 .. (end - m) |-> LossEventAddress(pool, m + i - 1)]
  <2>1. end = m => 1 .. (end - m) = 1 .. 0
    BY <1>2
  <2> HIDE DEF end
  <2> QED
    BY <1>2, <2>1 DEF lossEventAddresses
<1> HIDE DEF new, end
<1>4. found = [i \in 1 .. (end - m) |-> found[i]]
  BY <1>2, <1>3 DEF LossEvents, FetchEncodedAccounts
<1>5. ASSUME NEW i \in 1 .. (end - m), LossEventAddress(pool, m + i - 1) \in DOMAIN A
      PROVE  found[i] = LossRead(A, pool, m + i - 1)
  <2> DEFINE a == LossEventAddress(pool, m + i - 1)
             account == FetchEncodedAccounts(A, new)[i]
  <2>1. account = [exists |-> TRUE, address |-> a, data |-> Data(A[a])]
    BY <1>2, <1>3, <1>5 DEF FetchEncodedAccounts
  <2>2. found[i] = lossEvent(account)
    BY <1>2, <1>3 DEF LossEvents, FetchEncodedAccounts
  <2>3. lossEvent(account) = LossRead(A, pool, m + i - 1)
    BY <2>1 DEF lossEvent, DecodeLossEvent, DecodeAccount, LossRead
  <2> QED
    BY <2>2, <2>3
<1> HIDE DEF found
<1>6. /\ next = [home EXCEPT !.events = home.events \o found]
  BY <1>0, <1>1 DEF readLossEvents, found, new, end
<1>7. /\ home.events \o found = [i \in 1 .. (m + (end - m)) |-> (home.events \o found)[i]]
      /\ \A i \in 1 .. m : (home.events \o found)[i] = home.events[i]
      /\ \A i \in 1 .. (end - m) : (home.events \o found)[m + i] = found[i]
  <2>1. end - m \in Nat
    BY <1>2
  <2> QED
    BY <1>0, <1>4, <2>1, JoinedIs
<1>8. /\ next.address = home.address /\ next.data = home.data /\ DOMAIN next = DOMAIN home
      /\ next.events = home.events \o found
  BY <1>6
<1>9. next.events = [i \in 1 .. end |-> next.events[i]]
  BY <1>2, <1>7, <1>8
<1>10. ASSUME NEW i \in (m + 1) .. end, LossEventAddress(pool, i - 1) \in DOMAIN A
       PROVE  next.events[i] = LossRead(A, pool, i - 1)
  <2>1. i - m \in 1 .. (end - m) /\ m + (i - m) = i /\ m + (i - m) - 1 = i - 1
    BY <1>2
  <2>2. next.events[m + (i - m)] = found[i - m]
    BY <1>7, <1>8, <2>1
  <2> QED
    BY <1>5, <1>10, <2>1, <2>2
<1>11. \A i \in 1 .. m : next.events[i] = home.events[i]
  BY <1>7, <1>8
<1> HIDE DEF next
<1>12. \E q \in m .. n :
         /\ LongAs(next.events, q)
         /\ \A i \in 1 .. m : next.events[i] = home.events[i]
         /\ \A i \in (m + 1) .. q :
              LossEventAddress(pool, i - 1) \in DOMAIN A
                => next.events[i] = LossRead(A, pool, i - 1)
  <2> WITNESS end \in m .. n
  <2>1. LongAs(next.events, end)
    BY <1>9 DEF LongAs
  <2>2. \A i \in (m + 1) .. end :
          LossEventAddress(pool, i - 1) \in DOMAIN A
            => next.events[i] = LossRead(A, pool, i - 1)
    BY <1>10
  <2> QED
    BY <1>11, <2>1, <2>2
<1> QED
  BY <1>8, <1>12 DEF next

-----------------------------------------------------------------------------
(* The contracts of a buyer, and their numbers.                            *)
ContractsBy(A, who, pool) ==
  {a \in DOMAIN A : A[a].kind = "ProtectionContract" /\ A[a].pool = pool /\ A[a].buyer = who}

NumbersBy(A, who, pool) == {A[a].nonce : a \in ContractsBy(A, who, pool)}

(* A contract of a buyer lies at the address of its number, and the        *)
(* number is below the counter of the market.                              *)
LEMMA ContractByIs ==
  ASSUME NEW A, AccountsOK(A), NEW who, NEW pool, NEW a \in ContractsBy(A, who, pool)
  PROVE  /\ a = ContractAddress(pool, who, A[a].nonce) /\ ContractAt(a, A[a])
         /\ ProtectionAddress(pool) \in DOMAIN A
         /\ A[a].nonce \in 0 .. A[ProtectionAddress(pool)].contracts
         /\ A[ProtectionAddress(pool)].contracts \in Nat
<1>1. /\ a \in DOMAIN A /\ A[a].kind = "ProtectionContract" /\ A[a].pool = pool /\ A[a].buyer = who
  BY DEF ContractsBy
<1>2. AccountAt(a, A[a]) /\ LinkedAt(A, a)
  BY <1>1 DEF AccountsOK
<1>3. ContractAt(a, A[a])
  BY <1>1, <1>2 DEF AccountAt, ConfigAt, PoolAt, LossAt, MarketAt, SellerAt, ContractAt, MintAt,
                    TokenAt
<1>4. /\ ProtectionAddress(pool) \in DOMAIN A
      /\ A[a].nonce < A[ProtectionAddress(pool)].contracts
  BY <1>1, <1>2 DEF LinkedAt
<1>5. A[ProtectionAddress(pool)].contracts \in Nat
  BY <1>4, MarketThere DEF MarketAt
<1> QED
  BY <1>1, <1>3, <1>4, <1>5 DEF ContractAt

(* The reader finds the contracts of the buyer in the pool, all of them    *)
(* and no others, in the order of their numbers.                           *)
LEMMA ReadContractsIs ==
  ASSUME NEW A, AccountsOK(A), NEW who, NEW pool
  PROVE  LET list == readContracts(A, pool, {who})
         IN  /\ {list[i].nonce : i \in DOMAIN list} = NumbersBy(A, who, pool)
             /\ \A i \in DOMAIN list : list[i].buyer = who
             /\ \A i, j \in DOMAIN list : i < j => list[i].nonce < list[j].nonce
<1> DEFINE fits(a) ==
             LET cells == Data(A[a])
             IN  /\ A[a].kind \in DOMAIN Fields
                 /\ ByteSize(cells, Len(cells)) = ProtectionContractSize
                 /\ memcmp(cells, 0, "ProtectionContract")
                 /\ memcmp(cells, ContractPoolOffset, pool)
                 /\ \A buyer \in {who} : memcmp(cells, ContractBuyerOffset, buyer)
           found == {a \in DOMAIN A : fits(a)}
           answer == {contractView(a, DecodeProtectionContract(
                                        FetchEncodedAccounts(A, <<a>>)[1]).data) : a \in found}
           by == ContractsBy(A, who, pool)
           V == {ContractRead(A, a) : a \in by}
<1>1. readContracts(A, pool, {who}) = InOrder(answer)
  BY DEF readContracts
<1>2. ASSUME NEW a \in DOMAIN A
      PROVE  fits(a) <=> a \in by
  <2>1. A[a].kind \in DOMAIN Fields
          => (memcmp(Data(A[a]), 0, "ProtectionContract") <=> A[a].kind = "ProtectionContract")
    BY DiscriminatorAt
  <2>2. "ProtectionContract" \in DOMAIN Fields
    BY DEF Fields
  <2>3. ASSUME A[a].kind = "ProtectionContract"
        PROVE  fits(a) <=> a \in by
    <3>1. {"pool", "buyer"} \subseteq DOMAIN A[a]
      BY <2>3 DEF AccountsOK, AccountAt, ConfigAt, PoolAt, LossAt, MarketAt, SellerAt, ContractAt,
                  MintAt, TokenAt
    <3>2. /\ ByteSize(Data(A[a]), Len(Data(A[a]))) = ProtectionContractSize
          /\ memcmp(Data(A[a]), ContractPoolOffset, pool) <=> A[a].pool = pool
          /\ memcmp(Data(A[a]), ContractBuyerOffset, who) <=> A[a].buyer = who
      BY <2>3, <3>1, ContractBytes
    <3> QED
      BY <2>1, <2>2, <2>3, <3>2 DEF ContractsBy
  <2>4. A[a].kind # "ProtectionContract" => ~fits(a) /\ a \notin by
    BY <2>1 DEF ContractsBy
  <2> QED
    BY <2>3, <2>4
<1>3. found = by
  <2>1. by \subseteq DOMAIN A
    BY DEF ContractsBy
  <2> HIDE DEF fits, by
  <2> QED
    BY <1>2, <2>1
<1>4. ASSUME NEW a \in by
      PROVE  contractView(a, DecodeProtectionContract(FetchEncodedAccounts(A, <<a>>)[1]).data)
             = ContractRead(A, a)
  <2>a. a \in DOMAIN A
    BY DEF ContractsBy
  <2>b. 1 \in DOMAIN <<a>> /\ <<a>>[1] = a
    OBVIOUS
  <2>1. FetchEncodedAccounts(A, <<a>>)[1]
        = [exists |-> TRUE, address |-> a, data |-> Data(A[a])]
    BY <2>a, <2>b DEF FetchEncodedAccounts
  <2> QED
    BY <2>1 DEF DecodeProtectionContract, DecodeAccount, ContractRead
<1>5. answer = V
  <2> HIDE DEF found, by
  <2> QED
    BY <1>3, <1>4
<1>6. ASSUME NEW a \in by
      PROVE  /\ ContractRead(A, a).buyer = who /\ ContractRead(A, a).nonce = A[a].nonce
             /\ A[a].nonce \in Nat /\ a = ContractAddress(pool, who, A[a].nonce)
  <2>1. /\ a = ContractAddress(pool, who, A[a].nonce) /\ ContractAt(a, A[a])
    BY ContractByIs
  <2>2. A[a].kind = "ProtectionContract" /\ {"buyer", "nonce"} \subseteq DOMAIN A[a]
        /\ A[a].nonce \in Nat /\ A[a].buyer = who
    BY <2>1 DEF ContractAt, ContractsBy
  <2> QED
    BY <2>1, <2>2, ContractReadIs
<1>7. \A v \in V : v.nonce \in Nat /\ v.buyer = who
  BY <1>6
<1>8. \A u, v \in V : u.nonce = v.nonce => u = v
  <2> SUFFICES ASSUME NEW a \in by, NEW b \in by,
                      ContractRead(A, a).nonce = ContractRead(A, b).nonce
               PROVE  ContractRead(A, a) = ContractRead(A, b)
    OBVIOUS
  <2>1. A[a].nonce = A[b].nonce
    BY <1>6
  <2> QED
    BY <1>6, <2>1
<1>9. {v.nonce : v \in V} = NumbersBy(A, who, pool)
  BY <1>6 DEF NumbersBy
<1>10. IsFiniteSet(V)
  <2> DEFINE c == A[ProtectionAddress(pool)].contracts
             number == [v \in V |-> v.nonce]
  <2>1. CASE V = {}
    BY <2>1, FS_EmptySet
  <2>2. CASE V # {}
    <3>1. c \in Nat /\ \A v \in V : v.nonce \in 0 .. c
      BY <1>6, <2>2, ContractByIs
    <3>2. number \in Injection(V, 0 .. c)
      BY <1>8, <3>1 DEF Injection, IsInjective
    <3>3. IsFiniteSet(0 .. c)
      BY <3>1, FS_Interval
    <3> QED
      BY <3>2, <3>3, FS_Injection
  <2> QED
    BY <2>1, <2>2
<1> HIDE DEF V
<1>14. readContracts(A, pool, {who}) = InOrder(V)
  <2> HIDE DEF answer
  <2> QED
    BY <1>1, <1>5
<1> DEFINE list == InOrder(V)
<1>11. /\ V = {list[i] : i \in DOMAIN list}
       /\ \A i, j \in DOMAIN list : i < j => list[i].nonce < list[j].nonce
  BY <1>7, <1>8, <1>10, InOrderIs
<1>15. readContracts(A, pool, {who}) = list
  BY <1>14
<1> HIDE DEF list, answer
<1>12. {list[i].nonce : i \in DOMAIN list} = {v.nonce : v \in V}
  BY <1>11
<1>13. \A i \in DOMAIN list : list[i].buyer = who
  BY <1>7, <1>11
<1> QED
  BY <1>9, <1>11, <1>12, <1>13, <1>15

-----------------------------------------------------------------------------
(* Every loss that a pool counts is on record.                             *)
Recorded(A) ==
  \A p \in Pools : \A i \in 0 .. (LossesIn(A)[p] - 1) :
    LossEventAddress(PoolAddress(p), i) \in DOMAIN A

(* A loss on record stays as it is.                                        *)
LEMMA LossStays ==
  ASSUME NEW A, AccountsOK(A), NEW B, Grows(A, B), NEW pool, NEW i,
         LossEventAddress(pool, i) \in DOMAIN A
  PROVE  LET a == LossEventAddress(pool, i)
         IN  a \in DOMAIN B /\ B[a] = A[a] /\ LossRead(B, pool, i) = LossRead(A, pool, i)
<1> DEFINE a == LossEventAddress(pool, i)
<1>1. A[a].kind = "LossEvent"
  BY LossThere DEF LossAt
<1>2. a \in DOMAIN B /\ B[a] = A[a]
  BY <1>1 DEF Grows, Follows
<1> QED
  BY <1>2 DEF LossRead

(* A buyer's contracts stay theirs.                                        *)
LEMMA NumbersStay ==
  ASSUME NEW A, AccountsOK(A), NEW B, AccountsOK(B), Grows(A, B), NEW who, NEW pool
  PROVE  NumbersBy(A, who, pool) \subseteq NumbersBy(B, who, pool)
<1>1. ASSUME NEW a \in ContractsBy(A, who, pool)
      PROVE  a \in ContractsBy(B, who, pool) /\ B[a].nonce = A[a].nonce
  <2>1. a = ContractAddress(pool, who, A[a].nonce)
    BY ContractByIs
  <2>2. a \in DOMAIN A /\ A[a].kind = "ProtectionContract"
    BY DEF ContractsBy
  <2>3. a \in DOMAIN B
    BY <2>2 DEF Grows
  <2>4. /\ ContractAt(a, B[a]) /\ B[a].pool = pool /\ B[a].buyer = who
        /\ B[a].nonce = A[a].nonce
    BY <2>1, <2>3, ContractThere
  <2> QED
    BY <2>3, <2>4 DEF ContractsBy, ContractAt
<1> QED
  BY <1>1 DEF NumbersBy

(* What the ledger knows of the losses of a pool.                          *)
LEMMA LossesCount ==
  ASSUME NEW A, AccountsOK(A), NEW p \in Pools
  PROVE  /\ LossesIn(A)[p] \in Nat
         /\ PoolAddress(p) \in DOMAIN A => LossesIn(A)[p] = A[PoolAddress(p)].lossCount
<1>1. PoolAddress(p) \in DOMAIN A => A[PoolAddress(p)].lossCount \in Nat
  BY PoolThere DEF PoolAt
<1> QED
  BY <1>1 DEF LossesIn

(* Every step lets the accounts only grow and keeps every loss on record.  *)
LEMMA RecordedKeeps ==
  ASSUME ClientInv, Recorded(accts), [ClientNext]_clientVars
  PROVE  AccountsOK(accts') /\ Grows(accts, accts') /\ Recorded(accts')
<1>1. AccountsOK(accts)
  BY DEF ClientInv
<1>2. ASSUME NEW B, Grows(accts, B), LossesIn(B) = LossesIn(accts)
      PROVE  Recorded(B)
  BY <1>1, <1>2, LossStays DEF Recorded
<1>3. CASE accts' = accts
  BY <1>1, <1>3, GrowsReflexive
<1>4. ASSUME NEW who,
             accts' = [a \in DOMAIN accts \ {AtaAddress(who, MintAddress)} |-> accts[a]]
      PROVE  AccountsOK(accts') /\ Grows(accts, accts') /\ Recorded(accts')
  <2>1. AccountsOK(accts') /\ Grows(accts, accts')
    BY <1>1, <1>4, ClosingKeeps
  <2>2. LossesIn(accts') = LossesIn(accts)
    BY <1>1, <1>4, ClosingUnmoved DEF Unmoved
  <2> QED
    BY <1>2, <2>1, <2>2
<1>5. ASSUME NEW ask, Requested(ask)
      PROVE  AccountsOK(accts') /\ Grows(accts, accts') /\ Recorded(accts')
  <2>1. AccountsOK(accts') /\ Grows(accts, accts') /\ DoesOneThing(accts, accts', ask)
    BY <1>5, RequestedKeeps
  <2>2. ask.op \in Ops /\ (ask.op = "recordLoss" => ask.pool \in Pools)
    BY <1>5 DEF Requested, AskOK
  <2>3. CASE ask.op # "recordLoss"
    <3>1. LossesIn(accts') = LossesIn(accts)
      BY <2>1, <2>2, <2>3 DEF DoesOneThing, Ops, Once, Founds, OpensPool, OpensMarket, Sells,
                              Settles, Expires, OnlyContracts, Unmoved
    <3> QED
      BY <1>2, <2>1, <3>1
  <2>4. CASE ask.op = "recordLoss"
    <3>1. Loses(accts, accts', ask.pool)
      BY <2>1, <2>4 DEF DoesOneThing
    <3>2. DOMAIN LossesIn(accts) = Pools
      BY DEF LossesIn
    <3> SUFFICES ASSUME NEW p \in Pools, NEW i \in 0 .. (LossesIn(accts')[p] - 1)
                 PROVE  LossEventAddress(PoolAddress(p), i) \in DOMAIN accts'
      BY <2>1 DEF Recorded
    <3>3. LossesIn(accts)[p] \in Nat
      BY <1>1, LossesCount
    <3>4. LossesIn(accts')[p] = IF p = ask.pool THEN LossesIn(accts)[p] + 1 ELSE LossesIn(accts)[p]
      BY <2>2, <2>4, <3>1, <3>2 DEF Loses
    <3>5. i \in 0 .. (LossesIn(accts)[p] - 1) \/ (p = ask.pool /\ i = LossesIn(accts)[p])
      BY <3>3, <3>4
    <3> QED
      BY <1>1, <2>1, <3>1, <3>5, LossStays DEF Recorded, Loses
  <2> QED
    BY <2>3, <2>4
<1> QED
  BY <1>3, <1>4, <1>5, StepsOfAccounts

-----------------------------------------------------------------------------
(* What a page under way holds: of a pool, the account as seen at the      *)
(* first call, all the losses it counted then, and the first so many of    *)
(* them read ...                                                           *)
PoolPageOK(A, r) ==
  LET pool == r.home.address
      n == r.seen.pool.lossCount
  IN  /\ {"kind", "home", "seen"} \subseteq DOMAIN r
      /\ {"address", "data", "events"} \subseteq DOMAIN r.home
      /\ \E p \in Pools : pool = PoolAddress(p)
      /\ PoolAt(pool, r.seen.pool) /\ r.home.data = PoolRead(r.seen.pool)
      /\ pool \in DOMAIN A /\ n <= A[pool].lossCount
      /\ r.seen.losses = {A[LossEventAddress(pool, i)] : i \in 0 .. (n - 1)}
      /\ \E m \in 0 .. n : r.home.events = [i \in 1 .. m |-> r.home.events[i]]
      /\ \A i \in DOMAIN r.home.events : r.home.events[i] = LossRead(A, pool, i - 1)

(* ... of a wallet, contracts that are there ...                           *)
WalletPageOK(A, r) ==
  /\ r.home.market = {} => r.seen = {}
  /\ r.seen \subseteq NumbersBy(A, r.who, r.pool.address)

(* ... and what is shown.                                                  *)
ShownPageOK(A, r) ==
  LET list == r.view.contracts
      numbers == {list[i].nonce : i \in DOMAIN list}
  IN  /\ r.seen \subseteq numbers
      /\ numbers \subseteq NumbersBy(A, r.view.owner, r.pool)
      /\ \A i \in DOMAIN list : list[i].buyer = r.view.owner
      /\ \A i, j \in DOMAIN list : i < j => list[i].nonce < list[j].nonce

PageOK(A, r) ==
  /\ r.kind = "pool" => PoolPageOK(A, r)
  /\ r.kind = "wallet" => WalletPageOK(A, r)
  /\ r.kind = "shown" => ShownPageOK(A, r)

(* The inductive invariant.                                                *)
PageInv == ClientInv /\ Recorded(accts) /\ \A r \in page : PageOK(accts, r)

(* The losses that were counted by then are on record.                     *)
LEMMA LossesThere ==
  ASSUME NEW A, AccountsOK(A), Recorded(A), NEW p \in Pools, PoolAddress(p) \in DOMAIN A,
         NEW n, n <= A[PoolAddress(p)].lossCount, NEW i \in 0 .. (n - 1), n \in Nat
  PROVE  LossEventAddress(PoolAddress(p), i) \in DOMAIN A
<1>1. LossesIn(A)[p] \in Nat /\ LossesIn(A)[p] = A[PoolAddress(p)].lossCount
  BY LossesCount
<1>2. i \in 0 .. (LossesIn(A)[p] - 1)
  BY <1>1
<1> QED
  BY <1>2 DEF Recorded

(* Whatever happens to the accounts, a page that stays open stays right.   *)
LEMMA PageStays ==
  ASSUME NEW A, AccountsOK(A), Recorded(A), NEW B, AccountsOK(B), Grows(A, B),
         NEW r, PageOK(A, r)
  PROVE  PageOK(B, r)
<1>1. ASSUME r.kind = "pool"
      PROVE  PoolPageOK(B, r)
  <2> DEFINE pool == r.home.address
             n == r.seen.pool.lossCount
  <2>1. PoolPageOK(A, r)
    BY <1>1 DEF PageOK
  <2>2. PICK p \in Pools : pool = PoolAddress(p)
    BY <2>1 DEF PoolPageOK
  <2>3. n \in Nat /\ pool \in DOMAIN A /\ n <= A[pool].lossCount
    BY <2>1 DEF PoolPageOK, PoolAt
  <2>4. \A i \in 0 .. (n - 1) : LossEventAddress(pool, i) \in DOMAIN A
    BY <2>2, <2>3, LossesThere
  <2>5. \A i \in 0 .. (n - 1) : /\ B[LossEventAddress(pool, i)] = A[LossEventAddress(pool, i)]
                               /\ LossRead(B, pool, i) = LossRead(A, pool, i)
    BY <2>4, LossStays
  <2>6. pool \in DOMAIN B /\ n <= B[pool].lossCount
    <3>1. A[pool].kind = "Pool" /\ A[pool].lossCount \in Nat
      BY <2>2, <2>3, PoolThere DEF PoolAt
    <3>2. pool \in DOMAIN B /\ B[pool].lossCount >= A[pool].lossCount
      BY <2>3, <3>1 DEF Grows, Follows
    <3>3. B[pool].lossCount \in Nat
      BY <2>2, <3>2, PoolThere DEF PoolAt
    <3> QED
      BY <2>3, <3>1, <3>2, <3>3
  <2>7. r.seen.losses = {B[LossEventAddress(pool, i)] : i \in 0 .. (n - 1)}
    BY <2>1, <2>5 DEF PoolPageOK
  <2>8. \A i \in DOMAIN r.home.events : r.home.events[i] = LossRead(B, pool, i - 1)
    <3>1. PICK m \in 0 .. n : r.home.events = [i \in 1 .. m |-> r.home.events[i]]
      BY <2>1 DEF PoolPageOK
    <3>2. \A i \in DOMAIN r.home.events : i - 1 \in 0 .. (n - 1)
      BY <2>3, <3>1
    <3> QED
      BY <2>1, <2>5, <3>2 DEF PoolPageOK
  <2> QED
    BY <2>1, <2>6, <2>7, <2>8 DEF PoolPageOK
<1>2. ASSUME r.kind = "wallet"
      PROVE  WalletPageOK(B, r)
  BY <1>2, NumbersStay DEF PageOK, WalletPageOK
<1>3. ASSUME r.kind = "shown"
      PROVE  ShownPageOK(B, r)
  BY <1>3, NumbersStay DEF PageOK, ShownPageOK
<1> QED
  BY <1>1, <1>2, <1>3 DEF PageOK

-----------------------------------------------------------------------------
(* The first call of a page brings home what the invariant says ...        *)
LEMMA PageReadsPoolKeeps ==
  ASSUME PageInv, NEW p \in Pools, PageReadsPool(p), NEW r \in page'
  PROVE  PageOK(accts, r)
<1> DEFINE pool == PoolAddress(p)
           n == accts[pool].lossCount
<1>1. AccountsOK(accts) /\ Recorded(accts)
  BY DEF PageInv, ClientInv
<1>2. PICK home \in readPool(accts, p) :
        r = [kind |-> "pool", home |-> home,
             seen |-> [pool |-> accts[home.address], losses |-> LossesOf(home.address)]]
  BY DEF PageReadsPool
<1>3. /\ pool \in DOMAIN accts /\ home.address = pool
      /\ {"address", "data", "events"} \subseteq DOMAIN home
      /\ home.data = PoolRead(accts[pool])
      /\ \E m \in 0 .. n : home.events = [i \in 1 .. m |-> home.events[i]]
      /\ \A i \in DOMAIN home.events :
           LossEventAddress(pool, i - 1) \in DOMAIN accts
             => home.events[i] = LossRead(accts, pool, i - 1)
  BY <1>1, ReadPoolIs
<1>4. /\ r.kind = "pool" /\ r.home = home /\ r.seen.pool = accts[pool]
      /\ r.seen.losses = LossesOf(pool) /\ {"kind", "home", "seen"} \subseteq DOMAIN r
  BY <1>2, <1>3
<1>5. PoolAt(pool, accts[pool]) /\ n \in Nat
  BY <1>1, <1>3, PoolThere DEF PoolAt
<1>6. \A i \in 0 .. (n - 1) : LossEventAddress(pool, i) \in DOMAIN accts
  BY <1>1, <1>3, <1>5, LossesThere
<1>7. LossesOf(pool) = {accts[LossEventAddress(pool, i)] : i \in 0 .. (n - 1)}
  <2> DEFINE there == {b \in DOMAIN accts : accts[b].kind = "LossEvent" /\ accts[b].pool = pool}
             here == {LossEventAddress(pool, i) : i \in 0 .. (n - 1)}
  <2>1. ASSUME NEW b \in there
        PROVE  b \in here
    <3>1. LossAt(b, accts[b]) /\ LinkedAt(accts, b)
      BY <1>1 DEF AccountsOK, AccountAt, ConfigAt, PoolAt, LossAt, MarketAt, SellerAt,
                  ContractAt, MintAt, TokenAt
    <3>2. /\ b = LossEventAddress(pool, accts[b].index) /\ accts[b].index \in Nat
          /\ accts[b].index < n
      BY <3>1 DEF LossAt, LinkedAt
    <3>3. accts[b].index \in 0 .. (n - 1)
      BY <1>5, <3>2
    <3> QED
      BY <3>2, <3>3
  <2>2. ASSUME NEW i \in 0 .. (n - 1)
        PROVE  LossEventAddress(pool, i) \in there
    BY <1>1, <1>6, LossThere DEF LossAt
  <2>3. there = here
    <3> HIDE DEF there
    <3> QED
      BY <2>1, <2>2
  <2>4. LossesOf(pool) = {accts[b] : b \in there}
    BY DEF LossesOf
  <2> HIDE DEF there
  <2> QED
    BY <2>3, <2>4
<1>8. \A i \in DOMAIN home.events : home.events[i] = LossRead(accts, pool, i - 1)
  <2>1. PICK m \in 0 .. n : home.events = [i \in 1 .. m |-> home.events[i]]
    BY <1>3
  <2>2. \A i \in DOMAIN home.events : i - 1 \in 0 .. (n - 1)
    BY <1>5, <2>1
  <2> QED
    BY <1>3, <1>6, <2>2
<1>9. PoolPageOK(accts, r)
  BY <1>3, <1>4, <1>5, <1>7, <1>8 DEF PoolPageOK
<1> QED
  BY <1>4, <1>9 DEF PageOK

(* ... and so does every further one ...                                   *)
LEMMA PageReadsLossesKeeps ==
  ASSUME PageInv, PageReadsLosses, NEW r \in page'
  PROVE  PageOK(accts, r)
<1>1. AccountsOK(accts) /\ Recorded(accts)
  BY DEF PageInv, ClientInv
<1>2. PICK s \in page : /\ s.kind = "pool" /\ ~ReadAll(s.home)
                        /\ page' = {[s EXCEPT !.home = readLossEvents(accts, @)]}
  BY DEF PageReadsLosses
<1> DEFINE pool == s.home.address
           n == s.seen.pool.lossCount
           home == s.home
           next == readLossEvents(accts, home)
<1>3. PoolPageOK(accts, s)
  BY <1>2 DEF PageInv, PageOK
<1>4. r = [s EXCEPT !.home = next]
  BY <1>2
<1>5. /\ r.kind = "pool" /\ r.home = next /\ r.seen = s.seen
      /\ {"kind", "home", "seen"} \subseteq DOMAIN r
  BY <1>2, <1>3, <1>4 DEF PoolPageOK
<1>6. PICK p \in Pools : pool = PoolAddress(p)
  BY <1>3 DEF PoolPageOK
<1>7. n \in Nat /\ pool \in DOMAIN accts /\ n <= accts[pool].lossCount /\ PoolAt(pool, s.seen.pool)
  BY <1>3 DEF PoolPageOK, PoolAt
<1>8. home.data.lossCount = n
  <2>1. PoolRead(s.seen.pool)["lossCount"] = n
    BY <1>7, PoolReadIs
  <2> QED
    BY <1>3, <2>1 DEF PoolPageOK
<1>9. PICK m \in 0 .. n : home.events = [i \in 1 .. m |-> home.events[i]]
  BY <1>3 DEF PoolPageOK
<1>10. m < n /\ m \in Nat
  <2>1. Len(home.events) = m
    BY <1>7, <1>9, ListIsSeq
  <2> QED
    BY <1>2, <1>7, <1>8, <2>1 DEF ReadAll
<1>11. {"address", "data", "events"} \subseteq DOMAIN home
  BY <1>3 DEF PoolPageOK
<1> HIDE DEF home, next
<1>12. /\ next.address = home.address /\ next.data = home.data /\ DOMAIN next = DOMAIN home
       /\ \E q \in m .. n :
            /\ LongAs(next.events, q)
            /\ \A i \in 1 .. m : next.events[i] = home.events[i]
            /\ \A i \in (m + 1) .. q :
                 LossEventAddress(home.address, i - 1) \in DOMAIN accts
                   => next.events[i] = LossRead(accts, home.address, i - 1)
  <2>1. LongAs(home.events, m) /\ home.data.lossCount = n
    BY <1>8, <1>9 DEF home, LongAs
  <2> HIDE DEF n
  <2>2. n \in Nat
    BY <1>7 DEF n
  <2> QED
    BY <1>10, <1>11, <2>1, <2>2, ReadLossEventsIs DEF next
<1>13. PICK q \in m .. n :
         /\ next.events = [i \in 1 .. q |-> next.events[i]]
         /\ LongAs(next.events, q)
         /\ \A i \in 1 .. m : next.events[i] = home.events[i]
         /\ \A i \in (m + 1) .. q :
              LossEventAddress(home.address, i - 1) \in DOMAIN accts
                => next.events[i] = LossRead(accts, home.address, i - 1)
  BY <1>12 DEF LongAs
<1>14. \A i \in 0 .. (n - 1) : LossEventAddress(pool, i) \in DOMAIN accts
  BY <1>1, <1>6, <1>7, LossesThere
<1>15. ASSUME NEW i \in DOMAIN next.events
       PROVE  next.events[i] = LossRead(accts, pool, i - 1)
  <2>0. DOMAIN next.events = 1 .. q
    BY <1>13
  <2>1. i \in 1 .. q /\ i - 1 \in 0 .. (n - 1) /\ (i \in 1 .. m \/ i \in (m + 1) .. q)
    BY <1>7, <1>9, <1>10, <1>13, <2>0
  <2>2. CASE i \in 1 .. m
    <3>1. i \in DOMAIN home.events
      BY <1>9, <2>2 DEF home
    <3>2. home.events[i] = LossRead(accts, pool, i - 1)
      BY <1>3, <3>1 DEF PoolPageOK, home
    <3> QED
      BY <1>13, <2>2, <3>2
  <2>3. CASE i \in (m + 1) .. q
    BY <1>13, <1>14, <2>1, <2>3 DEF home
  <2> QED
    BY <2>1, <2>2, <2>3
<1>16. q \in 0 .. n
  BY <1>7, <1>10
<1>17. PoolPageOK(accts, r)
  <2>1. r.home.address = pool /\ r.home.data = PoolRead(s.seen.pool)
    BY <1>3, <1>5, <1>12 DEF PoolPageOK, home
  <2>2. /\ {"address", "data", "events"} \subseteq DOMAIN r.home
        /\ \E k \in 0 .. n : r.home.events = [i \in 1 .. k |-> r.home.events[i]]
        /\ \A i \in DOMAIN r.home.events : r.home.events[i] = LossRead(accts, pool, i - 1)
    BY <1>5, <1>11, <1>12, <1>13, <1>15, <1>16
  <2>3. s.seen.losses = {accts[LossEventAddress(pool, i)] : i \in 0 .. (n - 1)}
    BY <1>3 DEF PoolPageOK
  <2> QED
    BY <1>5, <1>6, <1>7, <2>1, <2>2, <2>3 DEF PoolPageOK
<1> QED
  BY <1>5, <1>17 DEF PageOK

(* Where no market is found there is no contract.                          *)
LEMMA NoMarketNoContracts ==
  ASSUME NEW A, AccountsOK(A), NEW pool, NEW owner,
         readWallet(A, pool, owner).market = {}
  PROVE  NumbersBy(A, owner, pool.address) = {}
<1> DEFINE five == <<AtaAddress(owner, pool.mint), AtaAddress(owner, pool.senior.mint),
                     AtaAddress(owner, pool.junior.mint), ProtectionAddress(pool.address),
                     SellerAddress(pool.address, owner)>>
           fourth == FetchEncodedAccounts(A, five)[4]
           market == ProtectionAddress(pool.address)
<1>1. 4 \in DOMAIN five /\ five[4] = market
  OBVIOUS
<1>2. maybeProtection(fourth) = {}
  BY DEF readWallet
<1> HIDE DEF five
<1>3. fourth = IF market \in DOMAIN A
               THEN [exists |-> TRUE, address |-> market, data |-> Data(A[market])]
               ELSE [exists |-> FALSE, address |-> market]
  BY <1>1 DEF FetchEncodedAccounts
<1>4. market \notin DOMAIN A
  BY <1>2, <1>3 DEF maybeProtection
<1> QED
  BY <1>4, ContractByIs DEF NumbersBy

(* ... the first call for a wallet ...                                     *)
LEMMA PageReadsWalletKeeps ==
  ASSUME PageInv, NEW who \in Users, PageReadsWallet(who), NEW r \in page'
  PROVE  PageOK(accts, r)
<1>1. PICK s \in page :
        r = [kind |-> "wallet", who |-> who, pool |-> PoolViewOf(s.home),
             home |-> readWallet(accts, PoolViewOf(s.home), who),
             seen |-> NoncesOf(who, s.home.address)]
  BY DEF PageReadsWallet
<1> DEFINE view == PoolViewOf(s.home)
<1>2. view.address = s.home.address
  BY DEF PoolViewOf, poolView
<1> HIDE DEF view
<1>3. /\ r.kind = "wallet" /\ r.who = who /\ r.pool.address = s.home.address
      /\ r.home = readWallet(accts, view, who) /\ r.seen = NoncesOf(who, s.home.address)
  BY <1>1, <1>2 DEF view
<1>4. r.seen = NumbersBy(accts, who, s.home.address)
  BY <1>3 DEF NoncesOf, NumbersBy, ContractsBy
<1>5. r.home.market = {} => r.seen = {}
  BY <1>2, <1>3, <1>4, NoMarketNoContracts DEF PageInv, ClientInv
<1> QED
  BY <1>3, <1>4, <1>5 DEF PageOK, WalletPageOK

(* ... and the second.                                                     *)
LEMMA PageReadsContractsKeeps ==
  ASSUME PageInv, PageReadsContracts, NEW r \in page'
  PROVE  PageOK(accts, r)
<1>1. PICK s \in page :
        /\ s.kind = "wallet"
        /\ r = [kind |-> "shown", seen |-> s.seen,
                view |-> readWalletContracts(accts, s.pool, s.who, s.home),
                pool |-> s.pool.address]
  BY DEF PageReadsContracts
<1> DEFINE list == IF s.home.market = {} THEN <<>>
                   ELSE readContracts(accts, s.pool.address, {s.who})
<1>2. WalletPageOK(accts, s)
  BY <1>1 DEF PageInv, PageOK
<1>3. /\ r.kind = "shown" /\ r.seen = s.seen /\ r.pool = s.pool.address
      /\ r.view.owner = s.who /\ r.view.contracts = list
  BY <1>1 DEF readWalletContracts, walletView
<1>4. CASE s.home.market = {}
  BY <1>2, <1>3, <1>4 DEF WalletPageOK, PageOK, ShownPageOK
<1>5. CASE s.home.market # {}
  <2> DEFINE found == readContracts(accts, s.pool.address, {s.who})
  <2>1. /\ {found[i].nonce : i \in DOMAIN found} = NumbersBy(accts, s.who, s.pool.address)
        /\ \A i \in DOMAIN found : found[i].buyer = s.who
        /\ \A i, j \in DOMAIN found : i < j => found[i].nonce < found[j].nonce
    BY ReadContractsIs DEF PageInv, ClientInv
  <2>2. r.view.contracts = found
    BY <1>3, <1>5
  <2> HIDE DEF found, list
  <2> QED
    BY <1>2, <1>3, <2>1, <2>2 DEF WalletPageOK, PageOK, ShownPageOK
<1> QED
  BY <1>4, <1>5

(* No page is open at first.                                               *)
LEMMA PageInvInit == ClientInit => PageInv
<1> SUFFICES ASSUME ClientInit PROVE PageInv
  OBVIOUS
<1>1. ClientInv
  BY ClientInitInv
<1>2. \A p \in Pools : PoolAddress(p) \notin DOMAIN accts
  BY DEF ClientInit
<1>3. Recorded(accts)
  BY <1>2 DEF Recorded, LossesIn
<1> QED
  BY <1>1, <1>3 DEF PageInv, ClientInit

(* Every step keeps the invariant: of the page, or of anybody else while   *)
(* the page is open.                                                       *)
LEMMA PageInvStep ==
  ASSUME PageInv, [ClientNext]_clientVars
  PROVE  PageInv'
<1>1. ClientInv /\ ClientInv' /\ Recorded(accts)
  BY ClientStep DEF PageInv
<1>2. AccountsOK(accts') /\ Grows(accts, accts') /\ Recorded(accts')
  BY <1>1, RecordedKeeps
<1>3. ASSUME NEW r \in page'
      PROVE  PageOK(accts', r)
  <2>1. CASE page' \subseteq page
    BY <1>1, <1>2, <2>1, PageStays DEF PageInv, ClientInv
  <2>2. CASE \/ \E p \in Pools : PageReadsPool(p)
             \/ \E who \in Users : PageReadsWallet(who)
             \/ PageReadsLosses \/ PageReadsContracts
    <3>1. accts' = accts
      BY <2>2 DEF PageReadsPool, PageReadsWallet, PageReadsLosses, PageReadsContracts
    <3>2. PageOK(accts, r)
      BY <2>2, PageReadsPoolKeeps, PageReadsWalletKeeps, PageReadsLossesKeeps,
         PageReadsContractsKeeps
    <3> QED
      BY <3>1, <3>2
  <2>3. CASE \E p \in Pools : ToolStarts(p)
    BY <2>1, <2>3 DEF ToolStarts
  <2>4. CASE PageCloses
    BY <2>1, <2>4 DEF PageCloses
  <2>5. CASE Build \/ Arrive \/ Drop \/ Elsewhere \/ SetUpElsewhere
    <3>1. page' = page
      BY <2>5 DEF Build, Arrive, Drop, Elsewhere, SetUpElsewhere
    <3> QED
      BY <2>1, <3>1
  <2>6. CASE \/ \E who \in Users : CloseAta(who)
             \/ ToolChecks \/ ToolSends \/ ToolCrashes \/ UNCHANGED clientVars
    <3>1. page' = page
      BY <2>6 DEF CloseAta, ToolChecks, ToolSends, ToolCrashes, clientVars
    <3> QED
      BY <2>1, <3>1
  <2> QED
    BY <2>2, <2>3, <2>4, <2>5, <2>6 DEF ClientNext
<1> QED
  BY <1>1, <1>2, <1>3 DEF PageInv

(* In every state a page under way holds, of a pool, the first so many     *)
(* losses of the pool that was seen, and of a wallet, contracts that are   *)
(* on chain. (read.ts)                                                     *)
THEOREM PagesAreInvariant == ClientSpec => []PageInv
<1>1. ClientInit => PageInv
  BY PageInvInit
<1>2. PageInv /\ [ClientNext]_clientVars => PageInv'
  BY PageInvStep
<1> QED
  BY <1>1, <1>2, PTL DEF ClientSpec

(* A wallet sees its own contracts in this pool and only those, in the     *)
(* order of their numbers, and misses none that was there when the market  *)
(* was read. (readWallet and readContracts of read.ts)                     *)
THEOREM WalletSeesAll == ClientSpec => []WalletSeesItsContracts
<1>1. ASSUME PageInv
      PROVE  WalletSeesItsContracts
  <2> SUFFICES ASSUME NEW r \in page, r.kind = "shown"
               PROVE  LET list == r.view.contracts
                          numbers == {list[i].nonce : i \in DOMAIN list}
                      IN  /\ r.seen \subseteq numbers
                          /\ numbers \subseteq NoncesOf(r.view.owner, r.pool)
                          /\ \A i \in DOMAIN list : list[i].buyer = r.view.owner
                          /\ \A i, j \in DOMAIN list : i < j => list[i].nonce < list[j].nonce
    BY DEF WalletSeesItsContracts
  <2>1. ShownPageOK(accts, r)
    BY <1>1 DEF PageInv, PageOK
  <2>2. NoncesOf(r.view.owner, r.pool) = NumbersBy(accts, r.view.owner, r.pool)
    BY DEF NoncesOf, NumbersBy, ContractsBy
  <2> QED
    BY <2>1, <2>2 DEF ShownPageOK
<1> QED
  BY <1>1, PagesAreInvariant, PTL

(* As many losses as the pool counted.                                     *)
LEMMA LossesSeen ==
  ASSUME NEW A, AccountsOK(A), NEW pool, NEW n \in Nat,
         \A i \in 0 .. (n - 1) : LossEventAddress(pool, i) \in DOMAIN A
  PROVE  Cardinality({A[LossEventAddress(pool, i)] : i \in 0 .. (n - 1)}) = n
<1> DEFINE numbers == 0 .. (n - 1)
           losses == {A[LossEventAddress(pool, i)] : i \in numbers}
           loss == [i \in numbers |-> A[LossEventAddress(pool, i)]]
<1>1. \A i \in numbers : A[LossEventAddress(pool, i)].index = i
  BY LossThere
<1>2. ExistsBijection(numbers, losses)
  <2>1. loss \in [numbers -> losses] /\ \A l \in losses : \E i \in numbers : loss[i] = l
    OBVIOUS
  <2>2. \A i, j \in numbers : loss[i] = loss[j] => i = j
    BY <1>1
  <2> HIDE DEF loss, losses
  <2> QED
    BY <2>1, <2>2 DEF ExistsBijection, Bijection, Injection, Surjection, IsInjective
<1>3. IsFiniteSet(numbers) /\ Cardinality(numbers) = n
  <2>1. n = 0 => Cardinality(0 .. (n - 1)) = 0
    BY FS_Interval
  <2> QED
    BY <2>1, FS_Interval
<1> QED
  BY <1>2, <1>3, FS_Bijection

(* A page shows a pool as it was at the first call, with every loss of     *)
(* then and none since, in order, though the records come in over several  *)
(* calls and others go on recording. (readPool and readLossEvents of       *)
(* read.ts, the decoders, view.ts)                                         *)
THEOREM PageShowsOneMoment == ClientSpec => []PageIsOneMoment
<1>1. ASSUME PageInv, NEW r \in page, r.kind = "pool", ReadAll(r.home)
      PROVE  LET view == PoolViewOf(r.home)
                 pool == r.seen.pool
             IN  /\ \A n \in {"id", "operator", "mint", "vault", "lossCount"} : view[n] = pool[n]
                 /\ \A n \in DOMAIN view.params : view.params[n] = pool[n]
                 /\ view.senior.mint = pool.seniorMint /\ view.junior.mint = pool.juniorMint
                 /\ Len(view.lossEvents) = Cardinality(r.seen.losses)
                 /\ \A i \in DOMAIN view.lossEvents :
                      \E e \in r.seen.losses :
                        e.index = i - 1 /\ view.lossEvents[i] = lossEventView(
                          LossEventAddress(e.pool, e.index), Filled(e, Zeros))
  <2> DEFINE home == r.home
             address == home.address
             pool == r.seen.pool
             data == home.data
             events == home.events
             view == PoolViewOf(home)
             count == pool.lossCount
  <2>1. AccountsOK(accts) /\ Recorded(accts)
    BY <1>1 DEF PageInv, ClientInv
  <2>2. PoolPageOK(accts, r)
    BY <1>1 DEF PageInv, PageOK
  <2>3. /\ PoolAt(address, pool) /\ data = PoolRead(pool)
        /\ address \in DOMAIN accts /\ count <= accts[address].lossCount /\ count \in Nat
    BY <2>2 DEF PoolPageOK, PoolAt
  <2>4. PICK p \in Pools : address = PoolAddress(p)
    BY <2>2 DEF PoolPageOK
  <2>5. PICK m \in 0 .. count : events = [i \in 1 .. m |-> events[i]]
    BY <2>2 DEF PoolPageOK
  <2>6. \A n \in {"id", "operator", "mint", "vault", "seniorMint", "juniorMint", "lossCount",
                  "yieldRateBps", "seniorRateBps", "minJuniorBps", "perfFeeBps", "timeScale"} :
          data[n] = pool[n]
    BY <2>3, PoolReadIs
  <2>7. \A i \in 0 .. (count - 1) : LossEventAddress(address, i) \in DOMAIN accts
    BY <2>1, <2>3, <2>4, LossesThere
  <2>8. /\ r.seen.losses = {accts[LossEventAddress(address, i)] : i \in 0 .. (count - 1)}
        /\ \A i \in DOMAIN events : events[i] = LossRead(accts, address, i - 1)
    BY <2>2 DEF PoolPageOK
  <2>9. Len(events) = count /\ DOMAIN events = 1 .. count
    <3>1. Len(events) = m /\ DOMAIN events = 1 .. m
      BY <2>3, <2>5, ListIsSeq
    <3>2. data.lossCount = count
      BY <2>6
    <3> QED
      BY <1>1, <2>3, <3>1, <3>2 DEF ReadAll
  <2> HIDE DEF data, events
  <2>10. view.lossEvents = events
    BY DEF PoolViewOf, poolView, events
  <2>11. \A n \in {"id", "operator", "mint", "vault", "lossCount"} : view[n] = pool[n]
    BY <2>6 DEF PoolViewOf, poolView, data
  <2>12. \A n \in DOMAIN view.params : view.params[n] = pool[n]
    BY <2>6 DEF PoolViewOf, poolView, data
  <2>13. view.senior.mint = pool.seniorMint /\ view.junior.mint = pool.juniorMint
    BY <2>6 DEF PoolViewOf, poolView, trancheView, data
  <2>14. Len(events) = Cardinality(r.seen.losses)
    BY <2>1, <2>3, <2>7, <2>8, <2>9, LossesSeen
  <2>15. ASSUME NEW i \in DOMAIN events
         PROVE  \E e \in r.seen.losses :
                  e.index = i - 1 /\ events[i] = lossEventView(
                    LossEventAddress(e.pool, e.index), Filled(e, Zeros))
    <3> DEFINE e == accts[LossEventAddress(address, i - 1)]
    <3>1. i - 1 \in 0 .. (count - 1)
      BY <2>3, <2>9
    <3>2. e \in r.seen.losses /\ LossEventAddress(address, i - 1) \in DOMAIN accts
      BY <2>7, <2>8, <3>1
    <3>3. e.index = i - 1
      BY <2>1, <3>2, LossThere
    <3>4. events[i] = LossRead(accts, address, i - 1)
      BY <2>8 DEF events
    <3>5. events[i] = lossEventView(LossEventAddress(e.pool, e.index), Filled(e, Zeros))
      BY <2>1, <3>2, <3>4, LossReadIs
    <3> HIDE DEF e
    <3> QED
      BY <3>2, <3>3, <3>5
  <2> HIDE DEF view
  <2> QED
    BY <2>10, <2>11, <2>12, <2>13, <2>14, <2>15 DEF view
<1>2. ASSUME PageInv
      PROVE  PageIsOneMoment
  BY <1>1, <1>2 DEF PageIsOneMoment, Zeros
<1> QED
  BY <1>2, PagesAreInvariant, PTL

=============================================================================
