------------------------- MODULE MCDocumentedClaims -------------------------
(***************************************************************************)
(* Small instances that reach a behaviour against each claim.              *)
(***************************************************************************)
EXTENDS DocumentedClaims, TLC

CONSTANT alice

MCOneUser == {alice}

Params(yield, senior, floor, fee, scale) ==
  [yield_rate_bps |-> yield, senior_rate_bps |-> senior, min_junior_bps |-> floor,
   perf_fee_bps |-> fee, time_scale |-> scale]

(* A floor of a quarter; and none, which create_pool accepts.              *)
MCFloorPool == {Params(4, 2, 1, 0, 1)}

MCNoFloorPool == {Params(4, 2, 0, 0, 1)}

MCCover ==
  {[premium_rate_bps |-> 4, trigger_bps |-> 1, premium_fee_bps |-> 0]}
=============================================================================
