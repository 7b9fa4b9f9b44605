------------------------------ MODULE TxSender ------------------------------
(***************************************************************************)
(* The transaction sender of the web app (apps/web/src/tx/send.ts), used   *)
(* by every button that changes the chain: take a blockhash, let the       *)
(* wallet sign and send, then poll until the transaction is confirmed, has *)
(* failed, or its blockhash is out of date.                                *)
(*                                                                         *)
(* The wallet, the validators and the RPC node are its environment,        *)
(* modelled from what send.ts expects of them: a wallet may refuse, or     *)
(* return a signature without sending; a block above the confirmed height  *)
(* may be rolled back, and what it held may be taken into another block;   *)
(* no block above lastValidBlockHeight takes the transaction.  The two     *)
(* questions of a poll are two calls, and the chain moves between them.    *)
(***************************************************************************)
EXTENDS Integers

CONSTANTS
  Buttons,    \* the buttons of a screen; each has one transaction under way at most
  Validity,   \* blocks from the confirmed height for which a fresh finalized blockhash is good
  MaxHeight   \* bound: the chain ends at this height

ASSUME SenderAssumption ==
  /\ Validity \in Nat \ {0}
  /\ MaxHeight \in Nat

VARIABLES
  tip,        \* height of the newest block, commitment "processed"
  confirmed,  \* height of the newest block that cannot be rolled back, "confirmed"
  sent,       \* signatures of the transactions that were broadcast
  placed,     \* the transactions in a block: its height, and whether the program refused
  pc,         \* what each button is doing, or how it ended
  lastValid   \* blockhash.lastValidBlockHeight of each button's transaction

chainVars == <<tip, confirmed, sent, placed>>

txVars == <<tip, confirmed, sent, placed, pc, lastValid>>

Heights == 0 .. MaxHeight

(* The signature is a function of the instructions and of the blockhash.   *)
Signatures == Buttons \X Heights

Sig(b) == <<b, lastValid[b]>>

Ended == {"idle", "confirmed", "failed", "expired", "error"}

Placement == [at : Heights, err : BOOLEAN]

TxInit ==
  /\ tip = 0
  /\ confirmed = 0
  /\ sent = {}
  /\ placed = [s \in {} |-> 0]
  /\ pc = [b \in Buttons |-> "idle"]
  /\ lastValid = [b \in Buttons |-> 0]

-----------------------------------------------------------------------------
(* The chain.                                                              *)
Block(taken, refused) ==
  /\ tip < MaxHeight
  /\ \A s \in taken : s[2] >= tip + 1
  /\ tip' = tip + 1
  /\ placed' = [s \in DOMAIN placed \cup taken |->
                  IF s \in taken THEN [at |-> tip + 1, err |-> s \in refused] ELSE placed[s]]
  /\ UNCHANGED <<confirmed, sent, pc, lastValid>>

NextBlock ==
  \E taken \in SUBSET (sent \ DOMAIN placed) : \E refused \in SUBSET taken : Block(taken, refused)

Rollback ==
  /\ confirmed < tip
  /\ tip' = confirmed
  /\ placed' = [s \in {r \in DOMAIN placed : placed[r].at <= confirmed} |-> placed[s]]
  /\ UNCHANGED <<confirmed, sent, pc, lastValid>>

Confirm ==
  /\ confirmed < tip
  /\ confirmed' = confirmed + 1
  /\ UNCHANGED <<tip, sent, placed, pc, lastValid>>

-----------------------------------------------------------------------------
(* A click is possible when nothing is pending.  The blockhash is taken    *)
(* before the wallet is asked, at the finalized commitment, which follows  *)
(* the confirmed height at a distance.                                     *)
Click(b) ==
  /\ pc[b] \in Ended
  /\ confirmed + Validity < MaxHeight
  /\ lastValid' = [lastValid EXCEPT ![b] = confirmed + Validity]
  /\ pc' = [pc EXCEPT ![b] = "signing"]
  /\ UNCHANGED chainVars

(* The wallet returns a signature; it should have sent the transaction.    *)
WalletSigns(b, sends) ==
  /\ pc[b] = "signing"
  /\ sent' = IF sends THEN sent \cup {Sig(b)} ELSE sent
  /\ pc' = [pc EXCEPT ![b] = "status"]
  /\ UNCHANGED <<tip, confirmed, placed, lastValid>>

Executed(s) == s \in DOMAIN placed /\ placed[s].at <= confirmed /\ ~placed[s].err

OutcomeOnProcessed(s) ==                               \* mutant: processed counts
  IF s \notin DOMAIN placed THEN "pending"
  ELSE IF placed[s].err THEN "failed"
  ELSE "confirmed"

OutcomeAsStatus(s) ==                                  \* mutant: the status is passed on as the outcome
  IF s \notin DOMAIN placed THEN "pending"
  ELSE IF placed[s].err THEN "failed"
  ELSE IF placed[s].at <= confirmed THEN "confirmed" ELSE "processed"

(* An error counts at any commitment, success from "confirmed" on.         *)
OutcomeOf(s) ==
  IF s \notin DOMAIN placed THEN "pending"
  ELSE IF placed[s].err THEN "failed"
  ELSE IF placed[s].at <= confirmed THEN "confirmed" ELSE "pending"

PollStatus(b) ==
  /\ pc[b] = "status"
  /\ pc' = [pc EXCEPT ![b] = IF OutcomeOf(Sig(b)) = "pending" THEN "height" ELSE OutcomeOf(Sig(b))]
  /\ UNCHANGED chainVars
  /\ UNCHANGED lastValid

OutdatedAtTip(b) == tip > lastValid[b]                 \* mutant: the height of an unconfirmed block

OutdatedNever(b) == FALSE                              \* mutant: no end of the wait

Outdated(b) == confirmed > lastValid[b]

(* The sleep between two polls is the time before the next PollStatus.     *)
PollHeight(b) ==
  /\ pc[b] = "height"
  /\ pc' = [pc EXCEPT ![b] = IF Outdated(b) THEN "expired" ELSE "status"]
  /\ UNCHANGED chainVars
  /\ UNCHANGED lastValid

(* Any awaited call may reject, the wallet's also after it has sent.       *)
Fails(b) ==
  /\ pc[b] \notin Ended
  /\ pc' = [pc EXCEPT ![b] = "error"]
  /\ sent' = sent \/ (pc[b] = "signing" /\ sent' = sent \cup {Sig(b)})
  /\ UNCHANGED <<tip, confirmed, placed, lastValid>>

TxNext ==
  \/ NextBlock
  \/ Rollback
  \/ Confirm
  \/ \E b \in Buttons :
       \/ Click(b)
       \/ \E sends \in BOOLEAN : WalletSigns(b, sends)
       \/ PollStatus(b)
       \/ PollHeight(b)
       \/ Fails(b)

(* The loop of waitForConfirmation runs on as long as its calls answer;    *)
(* validators keep producing and confirming blocks, whatever they roll     *)
(* back.  Nobody has to click, and a wallet may stay open forever.         *)
TxFairness ==
  /\ WF_txVars(NextBlock)
  /\ SF_txVars(Confirm)
  /\ \A b \in Buttons : WF_txVars(PollStatus(b)) /\ WF_txVars(PollHeight(b))

TxSpec == TxInit /\ [][TxNext]_txVars /\ TxFairness

-----------------------------------------------------------------------------
(* Properties.                                                             *)

(* Every variable has its type; a transaction is in a block of the chain   *)
(* that its blockhash allows, and only if somebody sent it.                *)
TxTypeOK ==
  /\ tip \in Heights
  /\ confirmed \in 0 .. tip
  /\ sent \subseteq Signatures
  /\ DOMAIN placed \subseteq sent
  /\ placed \in [DOMAIN placed -> Placement]
  /\ \A s \in DOMAIN placed : placed[s].at <= tip /\ placed[s].at <= s[2]
  /\ pc \in [Buttons -> Ended \cup {"signing", "status", "height"}]
  /\ lastValid \in [Buttons -> Heights]

(* A screen says "confirmed" only of a transaction the program executed,   *)
(* in a block that no rollback takes back (send.ts:64).                    *)
ConfirmedIsExecuted == \A b \in Buttons : pc[b] = "confirmed" => Executed(Sig(b))

(* An expired transaction is over: if no block holds it when the screen    *)
(* says "expired", none ever will, so trying again cannot do it twice by   *)
(* way of a late arrival.                                                  *)
ExpiredNeverLandsLater ==
  [][\A b \in Buttons :
       pc[b] = "expired" /\ Sig(b) \notin DOMAIN placed => Sig(b) \notin DOMAIN placed']_txVars

(* No button waits forever once the wallet has answered.                   *)
WaitEnds == \A b \in Buttons : pc[b] \in {"status", "height"} ~> pc[b] \in Ended

(* What the comments say and the code does not guarantee.                  *)

(* send.ts:91: past lastValidBlockHeight the transaction is out of date,   *)
(* "the wallet did not send it or the network did not take it"; the screen *)
(* then says "try again" (errors.ts:23).                                   *)
ExpiredWasNotTaken == \A b \in Buttons : pc[b] = "expired" => ~ Executed(Sig(b))

(* send.ts:64: "processed may still be rolled back; only confirmed and     *)
(* finalized count": a transaction reported as failed was not executed.    *)
FailedIsFinal == \A b \in Buttons : pc[b] = "failed" => ~ Executed(Sig(b))
=============================================================================
