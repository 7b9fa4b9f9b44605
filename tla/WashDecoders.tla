---------------------------- MODULE WashDecoders ----------------------------
(***************************************************************************)
(* The generated account decoders, packages/chain/src/generated/accounts:  *)
(* for every account of the program the fields in the order the bytes are  *)
(* read, with the size of each, the decoder and the functions that fetch   *)
(* and decode.                                                             *)
(*                                                                         *)
(* The data of an account is a sequence of cells, a size and a value each. *)
(* A decoder reads by position and size and gives its own names to what it *)
(* finds; it does not look at the discriminator, which is the first cell.  *)
(***************************************************************************)
EXTENDS Naturals, Sequences

Field(name, size) == [name |-> name, size |-> size]

U8(name) == Field(name, 1)
U16(name) == Field(name, 2)
U32(name) == Field(name, 4)
U64b(name) == Field(name, 8)
Key(name) == Field(name, 32)

Discriminator == Field("discriminator", 8)

WrongSize == "decoder consumed past the end of the account"

(* getStructDecoder of the codec library: by position, sizes must agree.   *)
Decoded(layout, cells) ==
  IF /\ Len(cells) >= Len(layout)
     /\ \A i \in DOMAIN layout : layout[i].size = cells[i].size
  THEN [n \in {layout[i].name : i \in DOMAIN layout} |->
          cells[CHOOSE i \in DOMAIN layout : layout[i].name = n].value]
  ELSE WrongSize

(* decodeAccount of the client library: a missing account stays missing.   *)
DecodeAccount(layout, account) ==
  IF account.exists THEN [account EXCEPT !.data = Decoded(layout, @)] ELSE account

-----------------------------------------------------------------------------
ConfigLayout ==
  <<Discriminator, Key("authority"), Key("mint"), Key("treasury"), U64b("faucetCap"),
    U8("bump")>>

DecodeConfig(account) == DecodeAccount(ConfigLayout, account)

PoolLayout ==
  <<Discriminator, U16("id"), Key("operator"), Key("mint"), Key("vault"), Key("seniorMint"),
    Key("juniorMint"), U16("yieldRateBps"), U16("seniorRateBps"), U16("minJuniorBps"),
    U16("perfFeeBps"), U32("timeScale"), U64b("assets"), U64b("seniorAssets"),
    U64b("juniorAssets"), U64b("modelTime"), U64b("lastAccruedTs"), U32("lossCount"),
    U64b("createdAt"), U8("bump")>>

DecodePool(account) == DecodeAccount(PoolLayout, account)

LossEventLayout ==
  <<Discriminator, Key("pool"), U32("index"), U64b("ts"), U64b("modelTime"), U16("lossBps"),
    U64b("amount"), U64b("juniorLoss"), U64b("seniorLoss"), U64b("assetsBefore"), U8("bump")>>

DecodeLossEvent(account) == DecodeAccount(LossEventLayout, account)

ProtectionPoolLayout ==
  <<Discriminator, Key("pool"), Key("pvault"), U16("premiumRateBps"), U16("triggerBps"),
    U16("premiumFeeBps"), U64b("collateral"), U64b("reserved"), U64b("shareSupply"),
    U64b("contracts"), U8("bump")>>

DecodeProtectionPool(account) == DecodeAccount(ProtectionPoolLayout, account)

SellerPositionLayout ==
  <<Discriminator, Key("pool"), Key("owner"), U64b("shares"), U8("bump")>>

DecodeSellerPosition(account) == DecodeAccount(SellerPositionLayout, account)

ProtectionContractLayout ==
  <<Discriminator, Key("pool"), Key("buyer"), U64b("nonce"), U64b("notional"),
    U64b("premium"), U64b("startModelTime"), U64b("expiryModelTime"), U16("triggerBps"),
    U32("lossIndexFrom"), U8("status"), U32("settledLossIndex"), U64b("payout"), U8("bump")>>

DecodeProtectionContract(account) == DecodeAccount(ProtectionContractLayout, account)

ProtectionContractSize == 132

=============================================================================
