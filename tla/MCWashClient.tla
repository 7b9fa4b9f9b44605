---------------------------- MODULE MCWashClient ----------------------------
(* Two pools; an operator, a depositor who also buys, another buyer.       *)
EXTENDS WashClient

Op == <<"user", "op">>
Ana == <<"user", "ana">>
Bob == <<"user", "bob">>

MCUsers == {Op, Ana, Bob}

Deposits ==
  {<<Ana, op, 0>> : op \in {"faucet", "deposit", "redeem", "close"}} \cup {<<Op, "accrue", 0>>}

Collateral ==
  {<<Ana, op, 0>> : op \in {"faucet", "provideProtection", "withdrawProtection",
                            "buyProtection", "close"}}

Cover ==
  {<<Ana, op, 0>> : op \in {"faucet", "buyProtection", "settleProtection", "close"}}
  \cup {<<Bob, op, 0>> : op \in {"faucet", "buyProtection"}}
  \cup {<<Op, op, 0>> : op \in {"recordLoss", "expireProtection"}}

TwoPools ==
  {<<Ana, op, 0>> : op \in {"faucet", "look"}}
  \cup {<<Ana, "buyProtection", p>> : p \in {0, 1}}
  \cup {<<Op, "recordLoss", 0>>}

Buyers ==
  {<<Ana, op, 0>> : op \in {"faucet", "look", "buyProtection"}}
  \cup {<<Bob, op, 0>> : op \in {"faucet", "buyProtection"}}

MCCasts == {Deposits, Collateral, Cover, TwoPools, Buyers}

=============================================================================
