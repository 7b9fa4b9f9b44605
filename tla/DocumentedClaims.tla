-------------------------- MODULE DocumentedClaims --------------------------
(***************************************************************************)
(* What the repository's documents, comments and tests say of the program  *)
(* and the program does not do.  Each is checked by a run of its own that  *)
(* shows a behaviour of the program against it.                            *)
(***************************************************************************)
EXTENDS WashProtection

(* README.md:22: "senior gets at most senior_rate on its assets", here for *)
(* a step that neither deposits nor redeems.                               *)
SeniorGainCapped ==
  [][pool # NoPool /\ balances'.supply = balances.supply =>
       balances'.nav["Senior"] - balances.nav["Senior"]
         <= SeniorDue(balances, pool.params, DtModel)]_vars

(* apps/web/src/screens/Pool/preview.ts:122: a tranche with shares and no  *)
(* assets has "no deposits or redemptions until a new pool".               *)
WipedTrancheStaysWiped ==
  [][\A t \in Tranches :
       WipedOut(balances.nav[t], balances.supply[t])
         => WipedOut(balances'.nav[t], balances'.supply[t])]_vars

(* settle_protection.rs:11: a claim can be settled "even after expiry, as  *)
(* long as the event happened inside the term": no contract is closed      *)
(* unpaid over a record of its term that would have paid it.               *)
ClaimSurvivesExpiry ==
  \A key \in DOMAIN contracts, i \in DOMAIN events :
    ~ /\ contracts[key].status = "Expired"
      /\ CoveredBy(contracts[key], i)
      /\ Payout(contracts[key].notional, events[i].loss_bps) > 0
=============================================================================
