-------------------------- MODULE MCWashProtection --------------------------
(***************************************************************************)
(* Small protection markets for TLC.                                       *)
(***************************************************************************)
EXTENDS WashProtection, TLC

CONSTANTS alice, bob

MCOneUser == {alice}

MCTwoUsers == {alice, bob}

MCSymmetry == Permutations(MCTwoUsers)

Params(yield, senior, floor, fee, scale) ==
  [yield_rate_bps |-> yield, senior_rate_bps |-> senior, min_junior_bps |-> floor,
   perf_fee_bps |-> fee, time_scale |-> scale]

Cover(rate, trigger, fee) ==
  [premium_rate_bps |-> rate, trigger_bps |-> trigger, premium_fee_bps |-> fee]

(* A pool without yield: only losses move its balances with time.  Two     *)
(* model seconds per chain second, so a term can end between two ticks, at *)
(* one, or after the last.                                                 *)
MCIdlePool == {Params(0, 0, 0, 0, 2)}

(* A pool that doubles in a model year.                                    *)
MCYieldPool == {Params(2, 1, 0, 1, 2)}

(* The premium of a year is the notional.  Every loss reaches the first    *)
(* trigger, only a total one the second; the third is refused.             *)
MCLowTrigger == {Cover(2, 1, 1), Cover(2, 3, 1)}

MCTwoTriggers == {Cover(2, 1, 1), Cover(2, 2, 1), Cover(2, 3, 1)}
=============================================================================
