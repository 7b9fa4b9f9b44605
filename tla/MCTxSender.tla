----------------------------- MODULE MCTxSender -----------------------------
(* The sender on a small chain.  Heights up to six with a validity of two  *)
(* let a button send, see its transaction rolled back, expire and send    *)
(* again, up to three blockhashes apart.  Buttons share nothing but the    *)
(* chain, so one button shows what any of them does.                       *)
EXTENDS TxSender
=============================================================================
