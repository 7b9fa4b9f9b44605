--------------------------- MODULE TxSenderProofs ---------------------------
(***************************************************************************)
(* Theorems about the transaction sender, for any number of buttons, any   *)
(* length of the chain and any validity of a blockhash.  That no wait is   *)
(* endless rests on fairness and is model-checked only.                    *)
(***************************************************************************)
EXTENDS TxSender, TLAPS

(* The blockhash of an expired transaction is out of date for good: the    *)
(* confirmed height does not fall.                                         *)
ExpiredIsOutdated == \A b \in Buttons : pc[b] = "expired" => confirmed > lastValid[b]

TxInv == TxTypeOK /\ ConfirmedIsExecuted /\ ExpiredIsOutdated

-----------------------------------------------------------------------------
(* Heights are naturals.                                                   *)
LEMMA HeightsAreNatural ==
  ASSUME TxTypeOK
  PROVE  /\ tip \in Nat /\ confirmed \in Nat /\ confirmed <= tip
         /\ \A b \in Buttons : lastValid[b] \in Nat /\ Sig(b) = <<b, lastValid[b]>>
         /\ \A s \in DOMAIN placed : placed[s].at \in Nat
BY SenderAssumption DEF TxTypeOK, Heights, Placement, Sig

(* A new block: no transaction is taken whose blockhash ended before it.   *)
LEMMA BlockStep ==
  ASSUME TxInv, NextBlock
  PROVE  TxInv'
<1>1. PICK taken \in SUBSET (sent \ DOMAIN placed), refused \in SUBSET (sent \ DOMAIN placed) :
        Block(taken, refused)
  BY DEF NextBlock
<1>2. /\ tip < MaxHeight /\ tip' = tip + 1
      /\ \A s \in taken : s[2] >= tip + 1
      /\ placed' = [s \in DOMAIN placed \cup taken |->
                      IF s \in taken THEN [at |-> tip + 1, err |-> s \in refused] ELSE placed[s]]
      /\ UNCHANGED <<confirmed, sent, pc, lastValid>>
  BY <1>1 DEF Block
<1>3. TxTypeOK
  BY DEF TxInv
<1>4. tip + 1 \in Heights
  BY <1>2, <1>3, HeightsAreNatural, SenderAssumption DEF Heights
<1>5. \A s \in DOMAIN placed' :
        placed'[s] \in Placement /\ placed'[s].at <= tip' /\ placed'[s].at <= s[2]
  BY <1>2, <1>3, <1>4, HeightsAreNatural DEF TxTypeOK, Placement
<1>6. TxTypeOK'
  <2>1. DOMAIN placed' = DOMAIN placed \cup taken /\ DOMAIN placed' \subseteq sent
    BY <1>2, <1>3 DEF TxTypeOK
  <2>2. placed' \in [DOMAIN placed' -> Placement]
    BY <1>2, <1>5, <2>1
  <2>3. confirmed \in 0 .. tip + 1
    BY <1>3, HeightsAreNatural
  <2> QED
    BY <1>2, <1>3, <1>4, <1>5, <2>1, <2>2, <2>3 DEF TxTypeOK
<1>7. ConfirmedIsExecuted'
  BY <1>1, <1>2 DEF TxInv, ConfirmedIsExecuted, Executed, Sig
<1>8. ExpiredIsOutdated'
  BY <1>2 DEF TxInv, ExpiredIsOutdated
<1> QED
  BY <1>6, <1>7, <1>8 DEF TxInv

(* A rollback leaves the confirmed blocks and what they hold.              *)
LEMMA RollbackStep ==
  ASSUME TxInv, Rollback
  PROVE  TxInv'
<1>1. /\ tip' = confirmed
      /\ placed' = [s \in {r \in DOMAIN placed : placed[r].at <= confirmed} |-> placed[s]]
      /\ UNCHANGED <<confirmed, sent, pc, lastValid>>
  BY DEF Rollback
<1>2. TxTypeOK
  BY DEF TxInv
<1>3. TxTypeOK'
  BY <1>1, <1>2, HeightsAreNatural, SenderAssumption DEF TxTypeOK, Heights
<1>4. ConfirmedIsExecuted' /\ ExpiredIsOutdated'
  BY <1>1 DEF TxInv, ConfirmedIsExecuted, ExpiredIsOutdated, Executed, Sig
<1> QED
  BY <1>3, <1>4 DEF TxInv

(* A confirmation only raises the confirmed height.                        *)
LEMMA ConfirmStep ==
  ASSUME TxInv, Confirm
  PROVE  TxInv'
<1>1. confirmed < tip /\ confirmed' = confirmed + 1 /\ UNCHANGED <<tip, sent, placed, pc, lastValid>>
  BY DEF Confirm
<1>2. TxTypeOK
  BY DEF TxInv
<1>3. TxTypeOK'
  BY <1>1, <1>2, HeightsAreNatural DEF TxTypeOK
<1>4. ConfirmedIsExecuted'
  <2> SUFFICES ASSUME NEW b \in Buttons, pc'[b] = "confirmed" PROVE Executed(Sig(b))'
    BY DEF ConfirmedIsExecuted
  <2>1. Executed(Sig(b))
    BY <1>1 DEF TxInv, ConfirmedIsExecuted
  <2> QED
    BY <1>1, <1>2, <2>1, HeightsAreNatural DEF Executed, Sig
<1>5. ExpiredIsOutdated'
  BY <1>1, <1>2, HeightsAreNatural DEF TxInv, ExpiredIsOutdated
<1> QED
  BY <1>3, <1>4, <1>5 DEF TxInv

(* A step of one button leaves what the chain holds, and the others.       *)
LEMMA ButtonStep ==
  ASSUME TxInv, NEW b \in Buttons,
         \/ Click(b)
         \/ \E sends \in BOOLEAN : WalletSigns(b, sends)
         \/ PollStatus(b)
         \/ PollHeight(b)
         \/ Fails(b)
  PROVE  TxInv'
<1>1. UNCHANGED <<tip, confirmed, placed>>
  BY DEF Click, WalletSigns, PollStatus, PollHeight, Fails, chainVars
<1>2. TxTypeOK
  BY DEF TxInv
<1>3. /\ lastValid' \in [Buttons -> Heights]
      /\ \A c \in Buttons \ {b} : lastValid'[c] = lastValid[c] /\ pc'[c] = pc[c]
      /\ ~ Click(b) => lastValid' = lastValid
  <2>1. CASE Click(b)
    <3>1. confirmed + Validity \in Heights
      BY <1>2, <2>1, HeightsAreNatural, SenderAssumption DEF Click, Heights
    <3> QED
      BY <1>2, <2>1, <3>1 DEF Click, TxTypeOK
  <2>2. CASE ~ Click(b)
    BY <1>2, <2>2 DEF WalletSigns, PollStatus, PollHeight, Fails, TxTypeOK
  <2> QED
    BY <2>1, <2>2
<1>4. sent' \subseteq Signatures /\ sent \subseteq sent'
  BY <1>2 DEF Click, WalletSigns, PollStatus, PollHeight, Fails, chainVars,
              TxTypeOK, Signatures, Sig
<1>5. /\ pc' \in [Buttons -> Ended \cup {"signing", "status", "height"}]
      /\ pc'[b] = "confirmed" => Executed(Sig(b)) /\ ~ Click(b)
      /\ pc'[b] = "expired" => confirmed > lastValid[b] /\ ~ Click(b)
  <2>1. CASE Click(b)
    BY <1>2, <2>1 DEF Click, TxTypeOK
  <2>2. CASE \E sends \in BOOLEAN : WalletSigns(b, sends)
    BY <1>2, <2>2 DEF WalletSigns, TxTypeOK
  <2>3. CASE PollStatus(b)
    BY <1>2, <2>3 DEF PollStatus, OutcomeOf, Executed, Click, TxTypeOK, Ended
  <2>4. CASE PollHeight(b)
    BY <1>2, <2>4 DEF PollHeight, Outdated, Click, TxTypeOK, Ended
  <2>5. CASE Fails(b)
    BY <1>2, <2>5 DEF Fails, TxTypeOK, Ended
  <2> QED
    BY <2>1, <2>2, <2>3, <2>4, <2>5
<1>6. TxTypeOK'
  BY <1>1, <1>2, <1>3, <1>4, <1>5 DEF TxTypeOK
<1>7. ConfirmedIsExecuted' /\ ExpiredIsOutdated'
  BY <1>1, <1>3, <1>5 DEF TxInv, ConfirmedIsExecuted, ExpiredIsOutdated, Executed, Sig
<1> QED
  BY <1>6, <1>7 DEF TxInv

(* Nothing happens.                                                        *)
LEMMA StutterStep ==
  ASSUME TxInv, UNCHANGED txVars
  PROVE  TxInv'
BY DEF txVars, TxInv, TxTypeOK, ConfirmedIsExecuted, ExpiredIsOutdated, Executed, Sig

(* TxInv holds when nothing was clicked yet.                               *)
LEMMA TxInvInit == TxInit => TxInv
BY SenderAssumption DEF TxInit, TxInv, TxTypeOK, ConfirmedIsExecuted, ExpiredIsOutdated,
   Heights, Ended

(* Every step of the chain and of the buttons keeps TxInv.                 *)
LEMMA TxInvNext == TxInv /\ [TxNext]_txVars => TxInv'
BY BlockStep, RollbackStep, ConfirmStep, ButtonStep, StutterStep DEF TxNext

-----------------------------------------------------------------------------
(* TxInv holds at all times.                                               *)
THEOREM TxInvariant == TxSpec => []TxInv
BY TxInvInit, TxInvNext, PTL DEF TxSpec

(* The chain holds only what was sent, where its blockhash allows it.      *)
THEOREM TxTypeCorrect == TxSpec => []TxTypeOK
<1>1. TxInv => TxTypeOK
  BY DEF TxInv
<1> QED
  BY <1>1, TxInvariant, PTL

(* "confirmed" is true, and stays true (send.ts:64).                       *)
THEOREM ConfirmedIsTrue == TxSpec => []ConfirmedIsExecuted
<1>1. TxInv => ConfirmedIsExecuted
  BY DEF TxInv
<1> QED
  BY <1>1, TxInvariant, PTL

(* A transaction reported as expired that is in no block will never be in  *)
(* one: out of date means out of date of the confirmed height.             *)
THEOREM ExpiredIsOver == TxSpec => ExpiredNeverLandsLater
<1>1. TxInv /\ [TxNext]_txVars =>
        \A b \in Buttons :
          pc[b] = "expired" /\ Sig(b) \notin DOMAIN placed => Sig(b) \notin DOMAIN placed'
  <2> SUFFICES ASSUME TxInv, [TxNext]_txVars, NEW b \in Buttons,
                      pc[b] = "expired", Sig(b) \notin DOMAIN placed
               PROVE  Sig(b) \notin DOMAIN placed'
    OBVIOUS
  <2>1. confirmed > lastValid[b]
    BY DEF TxInv, ExpiredIsOutdated
  <2>2. CASE NextBlock
    <3>1. PICK taken \in SUBSET (sent \ DOMAIN placed), refused \in SUBSET (sent \ DOMAIN placed) :
            Block(taken, refused)
      BY <2>2 DEF NextBlock
    <3>2. Sig(b)[2] < tip + 1
      BY <2>1, HeightsAreNatural DEF TxInv
    <3> QED
      BY <3>1, <3>2, HeightsAreNatural DEF TxInv, Block
  <2>3. CASE Rollback
    BY <2>3 DEF Rollback
  <2>4. CASE ~ NextBlock /\ ~ Rollback
    BY <2>4 DEF TxNext, Confirm, Click, WalletSigns, PollStatus, PollHeight, Fails,
                chainVars, txVars
  <2> QED
    BY <2>2, <2>3, <2>4
<1> QED
  BY <1>1, TxInvariant, PTL DEF TxSpec, ExpiredNeverLandsLater
=============================================================================
