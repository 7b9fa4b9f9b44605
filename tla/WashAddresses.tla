---------------------------- MODULE WashAddresses ----------------------------
(***************************************************************************)
(* The addresses of the program's accounts, derived from seeds, twice: by  *)
(* hand in packages/chain/src/pda.ts, which the builders use, and in the   *)
(* generated packages/chain/src/generated/pdas, which the generated        *)
(* instructions fall back on.                                              *)
(*                                                                         *)
(* A derived address is the tuple of its seeds: different seeds give       *)
(* different addresses.  The encoders of numeric seeds throw on a number   *)
(* beyond their type, so a number never turns into another one.            *)
(***************************************************************************)
EXTENDS Naturals

(* getProgramDerivedAddress of the program, and of the token library.      *)
Pda(seeds) == seeds

AtaAddress(owner, mint) == <<"ata", owner, mint>>

TokenProgram == <<"program", "token">>

AssociatedTokenProgram == <<"program", "ata">>

SystemProgram == <<"program", "system">>

-----------------------------------------------------------------------------
(* pda.ts                                                                  *)
ConfigAddress == Pda(<<"config">>)

MintAddress == Pda(<<"mint">>)

TreasuryAddress == Pda(<<"treasury">>)

PoolAddress(id) == Pda(<<"pool", id>>)

VaultAddress(pool) == Pda(<<"vault", pool>>)

SeniorMintAddress(pool) == Pda(<<"senior", pool>>)

JuniorMintAddress(pool) == Pda(<<"junior", pool>>)

LossEventAddress(pool, index) == Pda(<<"loss", pool, index>>)

ProtectionAddress(pool) == Pda(<<"protection", pool>>)

PvaultAddress(pool) == Pda(<<"pvault", pool>>)

SellerAddress(pool, owner) == Pda(<<"seller", pool, owner>>)

ContractAddress(pool, buyer, nonce) == Pda(<<"contract", pool, buyer, nonce>>)

-----------------------------------------------------------------------------
(* generated/pdas                                                          *)
FindConfigPda == Pda(<<"config">>)

FindMintPda == Pda(<<"mint">>)

FindTreasuryPda == Pda(<<"treasury">>)

FindPoolPda(id) == Pda(<<"pool", id>>)

FindVaultPda(pool) == Pda(<<"vault", pool>>)

FindSeniorMintPda(pool) == Pda(<<"senior", pool>>)

FindJuniorMintPda(pool) == Pda(<<"junior", pool>>)

FindProtectionPda(pool) == Pda(<<"protection", pool>>)

FindPvaultPda(pool) == Pda(<<"pvault", pool>>)

FindPositionPda(pool, owner) == Pda(<<"seller", pool, owner>>)

FindContractPda(pool, buyer, nonce) == Pda(<<"contract", pool, buyer, nonce>>)

=============================================================================
