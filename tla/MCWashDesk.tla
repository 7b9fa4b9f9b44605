----------------------------- MODULE MCWashDesk -----------------------------
(***************************************************************************)
(* One who founded the program and sells cover, one who saves and buys it. *)
(***************************************************************************)
EXTENDS WashDesk

CONSTANTS alice, bob

MCUsers == {alice, bob}

(* Senior earns its rate until a loss thins out junior, then the net.      *)
MCPool ==
  {[yield_rate_bps |-> 5, senior_rate_bps |-> 6, min_junior_bps |-> 3, perf_fee_bps |-> 2,
    time_scale |-> 2]}

MCCover == {[premium_rate_bps |-> 5, trigger_bps |-> 3, premium_fee_bps |-> 2]}

(* A browser a second behind, in time, and ahead by up to two.             *)
MCSkews == {-1, 0, 1, 2}

MCDeposited == [Senior |-> 80, Junior |-> 60]

=============================================================================
