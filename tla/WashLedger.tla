----------------------------- MODULE WashLedger -----------------------------
(***************************************************************************)
(* What the accounts of the program stand for, with no addresses, no bytes *)
(* and no transactions: who runs the program, which pools and markets are  *)
(* open, how many losses each pool has recorded, and every contract ever   *)
(* sold.  WashProtection and WashClient are shown to implement it.         *)
(***************************************************************************)
EXTENDS Naturals

CONSTANTS Pools, Users,
          Numbers  \* what buyers may number their contracts with

VARIABLES authority, pools, markets, losses, contracts

ledger == <<authority, pools, markets, losses, contracts>>

Nobody == {}

LedgerInit ==
  /\ authority = Nobody
  /\ pools = {}
  /\ markets = {}
  /\ losses = [p \in Pools |-> 0]
  /\ contracts = {}

SoldIn(p) == {k \in contracts : k.pool = p}

(* The program belongs to the first who asks.                              *)
Open(who) ==
  /\ authority = Nobody
  /\ authority' = {who}
  /\ UNCHANGED <<pools, markets, losses, contracts>>

OpenPool(p) ==
  /\ authority # Nobody /\ p \notin pools
  /\ pools' = pools \cup {p}
  /\ UNCHANGED <<authority, markets, losses, contracts>>

OpenMarket(p) ==
  /\ p \in pools \ markets
  /\ markets' = markets \cup {p}
  /\ UNCHANGED <<authority, pools, losses, contracts>>

Lose(p) ==
  /\ p \in pools
  /\ losses' = [losses EXCEPT ![p] = @ + 1]
  /\ UNCHANGED <<authority, pools, markets, contracts>>

(* A contract is told from every other by its pool, its buyer and its      *)
(* number.                                                                 *)
Sell(p, buyer) ==
  /\ p \in markets
  /\ \E nonce \in Numbers :
       /\ \A k \in SoldIn(p) : k.buyer = buyer => k.nonce # nonce
       /\ contracts' = contracts \cup
            {[pool |-> p, buyer |-> buyer, nonce |-> nonce, from |-> losses[p],
              status |-> "active", by |-> 0]}
  /\ UNCHANGED <<authority, pools, markets, losses>>

Ended(k, status, i) == [k EXCEPT !.status = status, !.by = i]

(* Once, by a loss of its pool that was recorded after it was sold.        *)
Settle(k) ==
  /\ k.status = "active"
  /\ \E i \in 0..(losses[k.pool] - 1) :
       /\ i >= k.from
       /\ contracts' = (contracts \ {k}) \cup {Ended(k, "settled", i)}
  /\ UNCHANGED <<authority, pools, markets, losses>>

Expire(k) ==
  /\ k.status = "active"
  /\ contracts' = (contracts \ {k}) \cup {Ended(k, "expired", k.by)}
  /\ UNCHANGED <<authority, pools, markets, losses>>

LedgerNext ==
  \/ \E who \in Users : Open(who)
  \/ \E p \in Pools : OpenPool(p) \/ OpenMarket(p) \/ Lose(p)
  \/ \E p \in Pools, buyer \in Users : Sell(p, buyer)
  \/ \E k \in contracts : Settle(k) \/ Expire(k)

LedgerSpec == LedgerInit /\ [][LedgerNext]_ledger

=============================================================================
