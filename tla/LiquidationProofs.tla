-------------------------- MODULE LiquidationProofs --------------------------
(***************************************************************************)
(* Proofs about Liquidation for any set of borrowers, any entries and any  *)
(* bounds on scans, faults and restarts.                                   *)
(***************************************************************************)
EXTENDS Liquidation, TLAPS

LEMMA LiquidationInvInit == LiquidationInit => LiquidationInv
<1> SUFFICES ASSUME LiquidationInit PROVE LiquidationInv
  OBVIOUS
<1>1. pending = Empty /\ txs = Empty /\ DOMAIN Empty = {}
  BY DEF LiquidationInit, Empty
<1>2. LiquidationTypeOK
  BY <1>1 DEF LiquidationInit, LiquidationTypeOK, NoCandidate
<1> QED BY <1>1, <1>2 DEF LiquidationInit, LiquidationInv, CandidatesPresent, SentAccepted, TrackedAccepted

\* The three kinds of position differ.
LEMMA PositionKinds == /\ NoPosition \notin UserPosition
                       /\ Live \notin UserPosition
                       /\ NoPosition # Live
<1>1. NoPosition.hf = "none" /\ Live.hf = "live"
  BY DEF NoPosition, Live
<1>2. \A p \in UserPosition : p.hf \in {"safe", "risky"}
  BY DEF UserPosition
<1> QED BY <1>1, <1>2

\* The first entry of a list that is not empty.
LEMMA HeadIsNat ==
    ASSUME NEW s \in DebtLists, s # <<>>
    PROVE  Head(s) \in Nat
BY LiquidationAssumption

LEMMA LiquidationTypeStep ==
    LiquidationTypeOK /\ CandidatesPresent /\ [LiquidationNext]_vars => LiquidationTypeOK'
<1> SUFFICES ASSUME LiquidationTypeOK, CandidatesPresent, [LiquidationNext]_vars PROVE LiquidationTypeOK'
  OBVIOUS
<1> USE LiquidationAssumption
<1>1. ASSUME NEW b \in Borrower, NEW p \in UserPosition, SetPosition(b, p) PROVE LiquidationTypeOK'
  BY <1>1 DEF LiquidationTypeOK, SetPosition, scanVars, execVars, nodeVars, budget
<1>2. ASSUME NEW b \in Borrower, RemovePosition(b) PROVE LiquidationTypeOK'
  BY <1>2 DEF LiquidationTypeOK, RemovePosition, scanVars, execVars, nodeVars, budget
<1>3. CASE RefreshAll
  <2>1. PICK h \in [Borrower -> {"safe", "risky"}] :
           pos' = [b \in Borrower |-> IF pos[b] = NoPosition THEN NoPosition
                                      ELSE [pos[b] EXCEPT !.hf = h[b]]]
    BY <1>3 DEF RefreshAll
  <2>2. ASSUME NEW b \in Borrower, pos[b] # NoPosition
        PROVE  [pos[b] EXCEPT !.hf = h[b]] \in UserPosition
    BY <2>2 DEF LiquidationTypeOK, UserPosition
  <2>3. pos' \in [Borrower -> UserPosition \cup {NoPosition}]
    BY <2>1, <2>2
  <2> QED BY <1>3, <2>3 DEF LiquidationTypeOK, RefreshAll, execVars, nodeVars
<1>4. CASE FindLiquidatable
  BY <1>4 DEF LiquidationTypeOK, FindLiquidatable, execVars, nodeVars, budget
<1>5. ASSUME NEW b \in Borrower, PickCandidate(b) PROVE LiquidationTypeOK'
  BY <1>5 DEF LiquidationTypeOK, PickCandidate, NextCandidate, NoCandidate, execVars, nodeVars, budget
<1>6. CASE PickEntries
  <2>1. View(cur.borrower) \in UserPosition
    BY <1>6, PositionKinds DEF PickEntries, LiquidationTypeOK, View, CandidatesPresent
  <2>2. View(cur.borrower).debts \in DebtLists
    BY <2>1 DEF UserPosition
  <2>3. pc' \in {"gas", "panic"} /\ cur' \in [borrower : Borrower \cup {NoBorrower}, debt : Nat]
        /\ cur'.borrower = cur.borrower
    BY <1>6, <2>2, HeadIsNat DEF PickEntries, LiquidationTypeOK
  <2> QED
    BY <1>6, <2>3 DEF LiquidationTypeOK, PickEntries, execVars, nodeVars, budget
<1>7. CASE SuggestGasPrice \/ SignTx
  BY <1>7 DEF LiquidationTypeOK, SuggestGasPrice, SignTx, execVars, nodeVars, budget
<1>8. CASE SendRejected
  BY <1>8 DEF LiquidationTypeOK, SendRejected, NextCandidate, NoCandidate, execVars, nodeVars, budget
<1>9. CASE RpcFails
  BY <1>9 DEF LiquidationTypeOK, RpcFails, NextCandidate, NoCandidate, execVars, nodeVars
<1>10. CASE SubmitFails
  BY <1>10 DEF LiquidationTypeOK, SubmitFails, NextCandidate, NoCandidate, execVars, nodeVars
<1>11. CASE NextNonce
  <2>1. curNonce' \in Nat /\ nonce' \in Nat
    BY <1>11 DEF NextNonce, PendingNonces, LiquidationTypeOK
  <2> QED BY <1>11, <2>1 DEF LiquidationTypeOK, NextNonce, nodeVars, budget
<1>12. CASE SendTransaction
  <2>1. txs' = [n \in DOMAIN txs \cup {curNonce} |->
                  IF n = curNonce THEN [borrower |-> cur.borrower, tick |-> scans] ELSE txs[n]]
    BY <1>12 DEF SendTransaction, Accept
  <2>2. DOMAIN txs' \subseteq Nat /\ \A n \in DOMAIN txs' : txs'[n] \in SentTx
    BY <1>12, <2>1 DEF LiquidationTypeOK, SendTransaction, SentTx
  <2> QED BY <1>12, <2>2 DEF LiquidationTypeOK, SendTransaction, execVars, budget
<1>13. CASE AnswerLost
  <2>1. txs' = [n \in DOMAIN txs \cup {curNonce} |->
                  IF n = curNonce THEN [borrower |-> cur.borrower, tick |-> scans] ELSE txs[n]]
    BY <1>13 DEF AnswerLost, Accept
  <2>2. DOMAIN txs' \subseteq Nat /\ \A n \in DOMAIN txs' : txs'[n] \in SentTx
    BY <1>13, <2>1 DEF LiquidationTypeOK, AnswerLost, SentTx
  <2> QED BY <1>13, <2>2 DEF LiquidationTypeOK, AnswerLost, NextCandidate, NoCandidate, execVars
<1>14. CASE Track
  BY <1>14 DEF LiquidationTypeOK, Track, NextCandidate, NoCandidate, LiquidationTx, nodeVars, budget
<1>15. CASE Mine
  BY <1>15 DEF LiquidationTypeOK, Mine, scanVars, execVars, budget
<1>16. ASSUME NEW n \in DOMAIN txs, NEW status \in {"confirmed", "failed"}, Mark(n, status)
       PROVE  LiquidationTypeOK'
  BY <1>16 DEF LiquidationTypeOK, Mark, LiquidationTx, scanVars, budget
<1>17. CASE Restart
  <2>1. pending' = Empty /\ DOMAIN Empty = {}
    BY <1>17 DEF Restart, Empty
  <2>2. /\ pos' \in [Borrower -> UserPosition \cup {NoPosition}]
        /\ held' \in [Borrower -> UserPosition \cup {Live}]
        /\ cur' \in [borrower : Borrower \cup {NoBorrower}, debt : Nat]
    BY <1>17 DEF Restart, NoCandidate
  <2>3. restarts' \in Nat /\ pc' = "idle" /\ todo' = {} /\ curNonce' \in Nat /\ nonce' \in Nat
        /\ nonceSet' = FALSE /\ UNCHANGED <<txs, mined, settled, scans, faults, burns>>
    BY <1>17 DEF Restart, LiquidationTypeOK, nodeVars
  <2> QED BY <2>1, <2>2, <2>3 DEF LiquidationTypeOK
<1>18. CASE UNCHANGED vars
  BY <1>18 DEF LiquidationTypeOK, vars, scanVars, execVars, nodeVars, budget
<1> QED
  BY <1>1, <1>2, <1>3, <1>4, <1>5, <1>6, <1>7, <1>8, <1>9, <1>10,
     <1>11, <1>12, <1>13, <1>14, <1>15, <1>16, <1>17, <1>18
  DEF LiquidationNext, ScanStep

\* The nonce, the transactions and the pending ones: every other variable may
\* change without disturbing what is tracked.
LEMMA TrackedStep ==
    LiquidationInv /\ [LiquidationNext]_vars => SentAccepted' /\ TrackedAccepted'
<1> SUFFICES ASSUME LiquidationInv, [LiquidationNext]_vars PROVE SentAccepted' /\ TrackedAccepted'
  OBVIOUS
<1> USE DEF LiquidationInv, SentAccepted, TrackedAccepted
<1>1. CASE UNCHANGED <<txs, pending>> /\ pc' # "track"
  BY <1>1
<1>2. CASE UNCHANGED <<pc, cur, curNonce, txs, pending>>
  BY <1>2
<1>3. CASE SendTransaction \/ AnswerLost
  <2>1. /\ curNonce \notin DOMAIN txs
        /\ txs' = [n \in DOMAIN txs \cup {curNonce} |-> IF n = curNonce THEN [borrower |-> cur.borrower, tick |-> scans] ELSE txs[n]]
        /\ UNCHANGED pending
        /\ pc' = "track" => UNCHANGED <<cur, curNonce>>
    BY <1>3 DEF SendTransaction, AnswerLost, Accept, NextCandidate, execVars
  <2>2. SentAccepted'
    BY <2>1
  <2>3. TrackedAccepted'
    BY <2>1
  <2> QED BY <2>2, <2>3
<1>4. CASE Track
  <2>1. /\ curNonce \in DOMAIN txs /\ txs[curNonce].borrower = cur.borrower
        /\ UNCHANGED txs /\ pc' # "track"
        /\ pending' = [n \in DOMAIN pending \cup {curNonce} |->
                         IF n = curNonce THEN [borrower |-> cur.borrower, status |-> "pending"]
                         ELSE pending[n]]
    BY <1>4 DEF Track, NextCandidate, nodeVars
  <2> QED BY <2>1
<1>5. ASSUME NEW n \in DOMAIN txs, NEW status \in {"confirmed", "failed"}, Mark(n, status)
      PROVE  SentAccepted' /\ TrackedAccepted'
  <2>1. /\ UNCHANGED <<pc, cur, curNonce, txs>>
        /\ pending' = [m \in DOMAIN pending |->
                         IF m = n THEN [pending[m] EXCEPT !.status = status] ELSE pending[m]]
    BY <1>5 DEF Mark, scanVars
  <2>2. \A m \in DOMAIN pending : pending[m] \in LiquidationTx
    BY DEF LiquidationTypeOK
  <2>3. \A m \in DOMAIN pending : pending'[m].borrower = pending[m].borrower
    BY <2>1, <2>2 DEF LiquidationTx
  <2> QED BY <2>1, <2>3
<1>6. CASE Restart
  BY <1>6 DEF Restart, Empty
<1>7. ASSUME NEW b \in Borrower,
             RemovePosition(b) \/ PickCandidate(b) \/ \E p \in UserPosition : SetPosition(b, p)
      PROVE  SentAccepted' /\ TrackedAccepted'
  BY <1>7, <1>1, <1>2 DEF RemovePosition, PickCandidate, NextCandidate, SetPosition, scanVars, execVars, nodeVars
<1>8. CASE RefreshAll \/ FindLiquidatable \/ PickEntries \/ SuggestGasPrice
  BY <1>8, <1>1 DEF RefreshAll, FindLiquidatable, PickEntries, SuggestGasPrice, execVars, nodeVars
<1>9. CASE NextNonce \/ SignTx \/ SendRejected \/ RpcFails \/ SubmitFails
  BY <1>9, <1>1 DEF NextNonce, SignTx, SendRejected, RpcFails, SubmitFails, NextCandidate,
     execVars, nodeVars
<1>10. CASE Mine \/ UNCHANGED vars
  BY <1>10, <1>2 DEF Mine, vars, scanVars, execVars, nodeVars
<1> QED
  BY <1>3, <1>4, <1>5, <1>6, <1>7, <1>8, <1>9, <1>10 DEF LiquidationNext, ScanStep

\* A removal leaves its old value to a scan that still holds the position.
LEMMA CandidatesStep ==
    LiquidationInv /\ [LiquidationNext]_vars => CandidatesPresent'
<1> SUFFICES ASSUME LiquidationInv, [LiquidationNext]_vars PROVE CandidatesPresent'
  OBVIOUS
<1> USE DEF LiquidationInv, CandidatesPresent
<1>1. ASSUME UNCHANGED <<pos, held>>, todo' \subseteq todo, pc' = "index" => UNCHANGED <<pc, cur>>
      PROVE  CandidatesPresent'
  BY <1>1
<1>2. ASSUME NEW b \in Borrower, NEW p \in UserPosition, SetPosition(b, p) PROVE CandidatesPresent'
  BY <1>2, PositionKinds DEF SetPosition, scanVars, LiquidationTypeOK
<1>3. ASSUME NEW b \in Borrower, RemovePosition(b) PROVE CandidatesPresent'
  <2>1. pos[b] # Live
    BY PositionKinds DEF LiquidationTypeOK
  <2> QED BY <1>3, <2>1 DEF RemovePosition, LiquidationTypeOK
<1>4. CASE RefreshAll
  <2>1. PICK h \in [Borrower -> {"safe", "risky"}] :
           pos' = [b \in Borrower |-> IF pos[b] = NoPosition THEN NoPosition
                                      ELSE [pos[b] EXCEPT !.hf = h[b]]]
    BY <1>4 DEF RefreshAll
  <2>2. ASSUME NEW b \in Borrower, pos[b] # NoPosition
        PROVE  [pos[b] EXCEPT !.hf = h[b]] \in UserPosition
    BY <2>2 DEF LiquidationTypeOK, UserPosition
  <2>3. \A b \in Borrower : pos[b] # NoPosition => pos'[b] # NoPosition
    BY <2>1, <2>2, PositionKinds
  <2> QED BY <1>4, <2>3 DEF RefreshAll
<1>5. CASE FindLiquidatable
  BY <1>5 DEF FindLiquidatable, NoPosition
<1>6. ASSUME NEW b \in Borrower, PickCandidate(b) PROVE CandidatesPresent'
  BY <1>6 DEF PickCandidate, NextCandidate, LiquidationTypeOK
<1>7. CASE PickEntries
  BY <1>7 DEF PickEntries, LiquidationTypeOK
<1>12. CASE SuggestGasPrice \/ NextNonce \/ SignTx
  BY <1>12, <1>1 DEF SuggestGasPrice, NextNonce, SignTx
<1>8. CASE SendTransaction \/ SendRejected \/ Track \/ RpcFails \/ AnswerLost \/ SubmitFails
  BY <1>8, <1>1 DEF SendTransaction, SendRejected, Track, RpcFails, AnswerLost, SubmitFails, NextCandidate
<1>9. CASE Mine \/ UNCHANGED vars
  BY <1>9, <1>1 DEF Mine, vars, scanVars
<1>10. ASSUME NEW n \in DOMAIN txs, NEW status \in {"confirmed", "failed"}, Mark(n, status)
       PROVE  CandidatesPresent'
  BY <1>10, <1>1 DEF Mark, scanVars
<1>11. CASE Restart
  BY <1>11 DEF Restart
<1> QED
  BY <1>2, <1>3, <1>4, <1>5, <1>6, <1>7, <1>8, <1>9, <1>10, <1>11, <1>12 DEF LiquidationNext, ScanStep

\* The liquidator's inductive invariant holds of every behaviour.
THEOREM LiquidationInvariant == LiquidationSpec => []LiquidationInv
<1>1. LiquidationInv /\ [LiquidationNext]_vars => LiquidationInv'
  BY LiquidationTypeStep, CandidatesStep, TrackedStep DEF LiquidationInv
<1> QED BY LiquidationInvInit, <1>1, PTL DEF LiquidationSpec

\* Whatever fails, gets lost or restarts, every transaction in e.pending is one the
\* node accepted for the borrower it is recorded with (Execute, executor.go).
THEOREM TrackedAreAccepted == LiquidationSpec => []TrackedAccepted
<1>1. LiquidationInv => TrackedAccepted
  BY DEF LiquidationInv
<1> QED BY LiquidationInvariant, <1>1, PTL
-----------------------------------------------------------------------------
\* What the executor may do to the nonces while none of them is burned.
LEMMA GapStep ==
    ASSUME LiquidationTypeOK, burns = 0, burns' = 0, GapFree, [LiquidationNext]_vars
    PROVE  GapFree'
<1> USE DEF GapFree, HoleFree, CounterInStep, MinedAccepted, NextFree
<1>1. ASSUME UNCHANGED <<txs, mined, nonce, nonceSet>>,
             pc' \in {"sign", "send"} => UNCHANGED curNonce,
             pc' \in {"sign", "send"} <=> pc \in {"sign", "send"}
      PROVE  GapFree'
  BY <1>1
<1>2. ASSUME NEW b \in Borrower,
             RemovePosition(b) \/ PickCandidate(b) \/ \E p \in UserPosition : SetPosition(b, p)
      PROVE  GapFree'
  BY <1>2, <1>1 DEF RemovePosition, PickCandidate, NextCandidate, SetPosition, scanVars, execVars, nodeVars
<1>3. CASE RefreshAll \/ FindLiquidatable \/ PickEntries \/ SuggestGasPrice \/ SignTx
  BY <1>3, <1>1 DEF RefreshAll, FindLiquidatable, PickEntries, SuggestGasPrice, SignTx, execVars, nodeVars
<1>4. CASE RpcFails \/ Track
  BY <1>4, <1>1 DEF RpcFails, Track, NextCandidate, execVars, nodeVars
<1>5. CASE NextNonce
  <2>1. curNonce' \in Nat /\ NextFree(curNonce') /\ UNCHANGED <<txs, mined>>
    <3>1. CASE nonceSet
      BY <1>5, <3>1 DEF NextNonce, nodeVars, LiquidationTypeOK
    <3>2. CASE ~nonceSet
      BY <1>5, <3>2 DEF NextNonce, PendingNonces, nodeVars, LiquidationTypeOK
    <3> QED BY <3>1, <3>2
  <2> QED BY <1>5, <2>1 DEF NextNonce
<1>6. CASE SendTransaction \/ AnswerLost
  <2>1. /\ pc = "send" /\ pc' \notin {"sign", "send"}
        /\ DOMAIN txs' = DOMAIN txs \cup {curNonce}
        /\ UNCHANGED <<mined, nonce, nonceSet>>
    BY <1>6 DEF SendTransaction, AnswerLost, Accept, NextCandidate, execVars
  <2>2. nonce = curNonce + 1 /\ curNonce \in Nat /\ NextFree(curNonce) /\ DOMAIN txs \subseteq Nat
    BY <2>1 DEF LiquidationTypeOK
  <2>3. HoleFree'
    BY <2>1, <2>2
  <2>4. nonce \notin DOMAIN txs
    BY <2>2
  <2>5. CounterInStep'
    BY <2>1, <2>2, <2>4
  <2> QED BY <2>1, <2>3, <2>5
<1>7. ~SubmitFails
  BY DEF SubmitFails, LiquidationTypeOK
<1>8. ~SendRejected
  BY DEF SendRejected, LiquidationTypeOK
<1>9. CASE Mine
  BY <1>9 DEF Mine, scanVars, execVars, LiquidationTypeOK
<1>10. ASSUME NEW n \in DOMAIN txs, NEW status \in {"confirmed", "failed"}, Mark(n, status)
       PROVE  GapFree'
  BY <1>10, <1>1 DEF Mark, scanVars
<1>11. CASE Restart
  BY <1>11 DEF Restart, nodeVars
<1>12. CASE UNCHANGED vars
  BY <1>12, <1>1 DEF vars, scanVars, execVars, nodeVars
<1> QED
  BY <1>2, <1>3, <1>4, <1>5, <1>6, <1>7, <1>8, <1>9, <1>10, <1>11, <1>12 DEF LiquidationNext, ScanStep

\* A lost nonce stays lost: burns never falls.
LEMMA BurnsStep ==
    ASSUME LiquidationTypeOK, [LiquidationNext]_vars, burns' = 0
    PROVE  burns = 0
<1>1. CASE SubmitFails
  BY <1>1 DEF SubmitFails, LiquidationTypeOK
<1>2. CASE UNCHANGED burns
  BY <1>2
<1>3. UNCHANGED burns \/ SubmitFails
  BY DEF LiquidationNext, ScanStep, vars, budget, SetPosition, RemovePosition, RefreshAll,
         FindLiquidatable, PickCandidate, PickEntries, SuggestGasPrice, NextNonce, SignTx,
         SendTransaction, SendRejected, Track, RpcFails, AnswerLost, Mine, Mark, Restart
<1> QED BY <1>1, <1>2, <1>3

\* Restarts, refusals, lost answers and failed queries leave no hole in the wallet's
\* nonces, as long as no call fails after nextNonce (nextNonce, executor.go).
THEOREM NoncesHaveNoGap == LiquidationSpec => []NonceGapFree
<1>1. LiquidationInit => GapInv
  <2>1. DOMAIN Empty = {}
    BY DEF Empty
  <2> QED BY <2>1 DEF LiquidationInit, GapInv, GapFree, HoleFree, CounterInStep, MinedAccepted, NextFree
<1>2. LiquidationInv /\ GapInv /\ [LiquidationNext]_vars => GapInv'
  BY GapStep, BurnsStep DEF LiquidationInv, GapInv
<1>3. GapInv => NonceGapFree
  BY DEF GapInv, GapFree, NonceGapFree
<1> QED BY LiquidationInvariant, <1>1, <1>2, <1>3, PTL DEF LiquidationSpec
-----------------------------------------------------------------------------
LEMMA TickStep ==
    ASSUME LiquidationTypeOK, TickInv, [LiquidationNext]_vars
    PROVE  TickInv'
<1> USE DEF InHand
<1>0. scans \in Nat /\ \A n \in DOMAIN txs : txs[n].borrower \in Borrower /\ txs[n].tick \in Nat
  BY DEF LiquidationTypeOK, SentTx
\* Steps that send nothing and give no borrower another chance.
<1>1. ASSUME UNCHANGED <<txs, scans>>,
             \A b \in Borrower : MayStillSend(b)' => MayStillSend(b),
             pc' \in InHand => cur'.borrower \notin todo'
      PROVE  TickInv'
  BY <1>0, <1>1 DEF TickInv, OncePerTick
<1>2. ASSUME UNCHANGED <<txs, scans, pc, todo, cur>>
      PROVE  TickInv'
  BY <1>2, <1>1 DEF TickInv, MayStillSend
<1>3. ASSUME UNCHANGED <<txs, scans, todo>>, pc' \in {"idle", "next", "track"} \/ UNCHANGED cur,
             pc \in InHand, pc' \in {"idle", "next", "panic"} \cup InHand,
             pc' \in InHand => UNCHANGED cur,
             pc = "track" => pc' \notin InHand
      PROVE  TickInv'
  BY <1>3, <1>1 DEF TickInv, MayStillSend
<1>4. ASSUME NEW b \in Borrower, RemovePosition(b) \/ \E p \in UserPosition : SetPosition(b, p)
      PROVE  TickInv'
  BY <1>4, <1>2 DEF RemovePosition, SetPosition, scanVars, nodeVars, budget
<1>5. CASE RefreshAll
  <2>1. UNCHANGED <<txs, todo, cur>> /\ scans' = scans + 1 /\ pc' = "find" /\ pc = "idle"
    BY <1>5 DEF RefreshAll, nodeVars
  <2> QED BY <2>1, <1>0 DEF TickInv, OncePerTick
<1>6. CASE FindLiquidatable
  BY <1>6, <1>1 DEF FindLiquidatable, nodeVars, budget, MayStillSend
<1>7. ASSUME NEW b \in Borrower, PickCandidate(b) PROVE TickInv'
  BY <1>7, <1>1 DEF PickCandidate, NextCandidate, NoCandidate, nodeVars, budget, MayStillSend
<1>8. CASE PickEntries
  <2>1. cur'.borrower = cur.borrower /\ pc' \in {"gas", "panic"} /\ pc = "index"
        /\ UNCHANGED <<txs, scans, todo>>
    BY <1>8 DEF PickEntries, nodeVars, budget, LiquidationTypeOK
  <2> QED BY <2>1, <1>1 DEF TickInv, MayStillSend
<1>9. CASE SuggestGasPrice \/ NextNonce \/ SignTx
  BY <1>9, <1>3 DEF SuggestGasPrice, NextNonce, SignTx, nodeVars, budget
<1>10. CASE SendRejected \/ RpcFails \/ SubmitFails \/ Track
  BY <1>10, <1>3 DEF SendRejected, RpcFails, SubmitFails, Track, NextCandidate, nodeVars, budget
<1>11. CASE SendTransaction \/ AnswerLost
  <2>1. /\ pc = "send" /\ pc' \in {"track", "idle", "next"} /\ Accept
        /\ UNCHANGED <<todo, scans>>
        /\ pc' = "track" => UNCHANGED cur
    BY <1>11 DEF SendTransaction, AnswerLost, NextCandidate, budget
  <2>2. cur.borrower \in Borrower /\ cur.borrower \notin todo
    BY <2>1 DEF LiquidationTypeOK, TickInv
  <2>3. MayStillSend(cur.borrower)
    BY <2>1, <2>2 DEF MayStillSend
  <2>4. txs' = [n \in DOMAIN txs \cup {curNonce} |->
                  IF n = curNonce THEN [borrower |-> cur.borrower, tick |-> scans] ELSE txs[n]]
    BY <2>1 DEF Accept
  <2>6. \A n \in DOMAIN txs : txs[n].borrower = cur.borrower => txs[n].tick < scans
    BY <2>2, <2>3 DEF TickInv
  <2>7. OncePerTick'
    BY <1>0, <2>4, <2>6 DEF TickInv, OncePerTick
  <2>8. \A n \in DOMAIN txs' : txs'[n].tick <= scans'
    BY <1>0, <2>1, <2>4 DEF TickInv
  <2>9. \A b \in Borrower : MayStillSend(b)' => b \in todo /\ b # cur.borrower /\ MayStillSend(b)
    BY <2>1, <2>2 DEF MayStillSend
  <2>10. \A b \in Borrower, n \in DOMAIN txs' :
           MayStillSend(b)' /\ txs'[n].borrower = b => txs'[n].tick < scans'
    BY <1>0, <2>1, <2>4, <2>9 DEF TickInv
  <2>5. pc' \in InHand => cur'.borrower \notin todo'
    BY <2>1, <2>2
  <2> QED BY <2>5, <2>7, <2>8, <2>10 DEF TickInv
<1>12. CASE Mine \/ UNCHANGED vars
  BY <1>12, <1>2 DEF Mine, vars, scanVars, nodeVars, budget
<1>13. ASSUME NEW n \in DOMAIN txs, NEW status \in {"confirmed", "failed"}, Mark(n, status)
       PROVE  TickInv'
  BY <1>13, <1>2 DEF Mark, scanVars, budget
<1>14. CASE Restart
  BY <1>14, <1>1 DEF Restart, nodeVars, MayStillSend
<1> QED
  BY <1>4, <1>5, <1>6, <1>7, <1>8, <1>9, <1>10, <1>11, <1>12, <1>13, <1>14
     DEF LiquidationNext, ScanStep

\* Lost answers, refused nonces and restarts do not multiply liquidations: scan gives a
\* failed candidate up, so no borrower gets two transactions in one tick.
THEOREM AtMostOncePerTick == LiquidationSpec => []OncePerTick
<1>1. LiquidationInit => TickInv
  <2> SUFFICES ASSUME LiquidationInit PROVE TickInv
    OBVIOUS
  <2>1. DOMAIN txs = {}
    BY DEF LiquidationInit, Empty
  <2> QED BY <2>1 DEF LiquidationInit, TickInv, OncePerTick, InHand
<1>2. LiquidationInv /\ TickInv /\ [LiquidationNext]_vars => TickInv'
  BY TickStep DEF LiquidationInv
<1>3. TickInv => OncePerTick
  BY DEF TickInv
<1> QED BY LiquidationInvariant, <1>1, <1>2, <1>3, PTL DEF LiquidationSpec
=============================================================================
