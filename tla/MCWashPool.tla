---------------------------- MODULE MCWashPool ------------------------------
(***************************************************************************)
(* Small pools for TLC.                                                    *)
(***************************************************************************)
EXTENDS WashPool

CONSTANT alice

MCOneUser == {alice}

Params(yield, senior, floor, fee, scale) ==
  [yield_rate_bps |-> yield, senior_rate_bps |-> senior, min_junior_bps |-> floor,
   perf_fee_bps |-> fee, time_scale |-> scale]

(* A pool with a fee of a half and a floor of a quarter, two model seconds *)
(* to one of the chain; one the validation refuses; one without a floor,   *)
(* where junior may leave before senior; and two, with a floor of a        *)
(* quarter and of a half, whose senior rate is so high that yield thins    *)
(* junior out.                                                             *)
MCParams ==
  {Params(2, 1, 1, 2, 2), Params(2, 1, 4, 2, 2), Params(2, 1, 0, 2, 2),
   Params(2, 4, 1, 2, 2), Params(2, 4, 2, 2, 2)}

=============================================================================
