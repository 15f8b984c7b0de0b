---------------------------- MODULE Liquidation ----------------------------
(***************************************************************************)
(* internal/liquidation: the scan loop of the liquidator, the executor it  *)
(* calls, the callers that update positions and settle transactions while  *)
(* it runs, and the node that receives the transactions (external).        *)
(*                                                                         *)
(* One goroutine scans.  Every RPC it makes is a step of its own, so that  *)
(* position updates, mining, settlements and crashes fall between them.    *)
(* Prices, indices and balances only decide whether a refreshed position   *)
(* is liquidatable; an entry is its size, a transaction is its nonce.  The *)
(* scanner's heap, which scan never reads, is module PositionScanner.      *)
(***************************************************************************)
EXTENDS Integers, Sequences, FiniteSets

CONSTANTS
    Borrower,
    NoBorrower,
    DebtLists,    \* lists of debts, and of collaterals, that a position may hold
    CollLists,
    MaxScans,     \* bound on the ticks that start a scan
    MaxFaults,    \* bound on failed calls
    MaxRestarts   \* bound on crashes of the liquidator

ASSUME LiquidationAssumption ==
    /\ NoBorrower \notin Borrower
    /\ DebtLists \subseteq Seq(Nat) /\ CollLists \subseteq Seq(Nat)
    /\ MaxScans \in Nat /\ MaxFaults \in Nat /\ MaxRestarts \in Nat

VARIABLES
    pos,       \* scanner.positions: a UserPosition each, or NoPosition
    pc,        \* where scan is, "panic" once it has died
    todo,      \* the candidates scan has still to visit
    held,      \* what scan's pointer to a candidate shows: Live, or a removed position
    cur,       \* the candidate being executed: borrower and debt entry picked
    curNonce,  \* the nonce of its transaction
    nonce, nonceSet, pending,   \* the executor's fields
    txs,       \* the node's accepted transactions, by nonce: the borrower, and the tick of the scan
    mined,     \* nonces below this one are mined
    settled,   \* mined transactions MarkConfirmed or MarkFailed was called for
    scans, faults, restarts,
    burns      \* failures after nextNonce handed out a nonce, which is then lost

execVars == <<nonce, nonceSet, pending>>
scanVars == <<pc, todo, held, cur, curNonce>>
nodeVars == <<txs, mined, settled>>
budget == <<scans, faults, burns, restarts>>
vars == <<pos, scanVars, execVars, nodeVars, budget>>

NoPosition == [hf |-> "none"]
Live == [hf |-> "live"]
\* A health factor is "risky" below RAY; one that is not computed yet (nil) counts as "safe".
UserPosition == [debts : DebtLists, colls : CollLists, hf : {"safe", "risky"}]
NoCandidate == [borrower |-> NoBorrower, debt |-> 0]
LiquidationTx == [borrower : Borrower, status : {"pending", "confirmed", "failed"}]
SentTx == [borrower : Borrower, tick : Nat]
Empty == [n \in {} |-> NoBorrower]

LiquidationTypeOK ==
    /\ pos \in [Borrower -> UserPosition \cup {NoPosition}]
    /\ pc \in {"idle", "find", "next", "index", "gas", "nonce", "sign", "send", "track", "panic"}
    /\ todo \subseteq Borrower
    /\ held \in [Borrower -> UserPosition \cup {Live}]
    /\ cur \in [borrower : Borrower \cup {NoBorrower}, debt : Nat]
    /\ pc \in {"index", "gas", "nonce", "sign", "send", "track"} => cur.borrower \in Borrower
    /\ curNonce \in Nat
    /\ nonce \in Nat /\ nonceSet \in BOOLEAN
    /\ DOMAIN pending \subseteq Nat
    /\ \A n \in DOMAIN pending : pending[n] \in LiquidationTx
    /\ DOMAIN txs \subseteq Nat
    /\ \A n \in DOMAIN txs : txs[n] \in SentTx
    /\ mined \in Nat
    /\ settled \subseteq Nat
    /\ scans \in Nat /\ faults \in Nat /\ burns \in Nat /\ restarts \in Nat

LiquidationInit ==
    /\ pos = [b \in Borrower |-> NoPosition]
    /\ pc = "idle" /\ todo = {} /\ cur = NoCandidate /\ curNonce = 0
    /\ held = [b \in Borrower |-> Live]
    /\ nonce = 0 /\ nonceSet = FALSE /\ pending = Empty
    /\ txs = Empty /\ mined = 0 /\ settled = {}
    /\ scans = 0 /\ faults = 0 /\ burns = 0 /\ restarts = 0
-----------------------------------------------------------------------------
\* The scanner's callers: SetPosition updates in place, so a scan in progress
\* sees it; a removed position stays what it was for a scan that still holds it.
SetPosition(b, p) ==
    /\ pc # "panic"
    /\ pos' = [pos EXCEPT ![b] = p]
    /\ UNCHANGED <<scanVars, execVars, nodeVars, budget>>

RemovePosition(b) ==
    /\ pc # "panic"
    /\ pos[b] # NoPosition
    /\ pos' = [pos EXCEPT ![b] = NoPosition]
    /\ held' = [held EXCEPT ![b] = IF @ = Live /\ (b \in todo \/ (pc = "index" /\ b = cur.borrower))
                                   THEN pos[b] ELSE @]
    /\ UNCHANGED <<pc, todo, cur, curNonce, execVars, nodeVars, budget>>

\* What CalculateHealthFactor can return: no debt is infinitely healthy, the rest
\* depends on balances, prices and indices.
HealthFactors(p) == IF p.debts = <<>> THEN {"safe"} ELSE {"safe", "risky"}

\* A tick: scan refreshes every position.
RefreshAll ==
    /\ pc = "idle" /\ scans < MaxScans
    /\ scans' = scans + 1
    /\ \E h \in [Borrower -> {"safe", "risky"}] :
         /\ \A b \in Borrower : pos[b] # NoPosition => h[b] \in HealthFactors(pos[b])
         /\ pos' = [b \in Borrower |-> IF pos[b] = NoPosition THEN NoPosition
                                       ELSE [pos[b] EXCEPT !.hf = h[b]]]
    /\ pc' = "find"
    /\ UNCHANGED <<todo, held, cur, curNonce, execVars, nodeVars, faults, burns, restarts>>

\* The candidates, in no order: positions is a map.
FindLiquidatable ==
    /\ pc = "find"
    /\ todo' = {b \in Borrower : pos[b].hf = "risky"}
    /\ pc' = IF todo' = {} THEN "idle" ELSE "next"
    /\ held' = [b \in Borrower |-> Live]
    /\ UNCHANGED <<pos, cur, curNonce, execVars, nodeVars, budget>>

\* What the scan sees through its pointer to b.
View(b) == IF held[b] = Live THEN pos[b] ELSE held[b]

\* Scan is done with a candidate and has the rest to visit; its locals are gone.
NextCandidate(rest) == /\ pc' = IF rest = {} THEN "idle" ELSE "next"
                       /\ cur' = NoCandidate /\ curNonce' = 0

\* The loop body up to the length check: a candidate without debts or collateral
\* is skipped.
PickCandidate(b) ==
    /\ pc = "next" /\ b \in todo
    /\ todo' = todo \ {b}
    /\ IF View(b).debts = <<>> \/ View(b).colls = <<>>
       THEN NextCandidate(todo') /\ held' = [held EXCEPT ![b] = Live]
       ELSE /\ pc' = "index"
            /\ cur' = [borrower |-> b, debt |-> 0]
            /\ UNCHANGED <<curNonce, held>>
    /\ UNCHANGED <<pos, execVars, nodeVars, budget>>

\* pos.Debts[0] and pos.Collaterals[0], read again and without the lock: out of
\* range if the position lost them since the check.
PickEntries ==
    /\ pc = "index"
    /\ LET p == View(cur.borrower) IN
         IF p.debts = <<>> \/ p.colls = <<>>
         THEN pc' = "panic" /\ UNCHANGED cur
         ELSE pc' = "gas" /\ cur' = [cur EXCEPT !.debt = Head(p.debts)]
    /\ held' = [held EXCEPT ![cur.borrower] = Live]
    /\ UNCHANGED <<pos, todo, curNonce, execVars, nodeVars, budget>>
-----------------------------------------------------------------------------
\* Execute.  SuggestGasPrice; the price, capped, does not matter here.
SuggestGasPrice ==
    /\ pc = "gas"
    /\ pc' = "nonce"
    /\ UNCHANGED <<pos, todo, held, cur, curNonce, execVars, nodeVars, budget>>

\* The node's PendingNonceAt: the first nonce it has no transaction for.
PendingNonces == {n \in {mined} \cup {m + 1 : m \in DOMAIN txs} :
                    /\ n >= mined /\ n \notin DOMAIN txs
                    /\ \A m \in mined..(n - 1) : m \in DOMAIN txs}

\* A mutation of nextNonce: the counter starts one too high.
NextNonceSkips ==
    /\ pc = "nonce"
    /\ IF nonceSet THEN curNonce' = nonce ELSE curNonce' \in PendingNonces
    /\ nonce' = IF nonceSet THEN curNonce' + 1 ELSE curNonce' + 2
    /\ nonceSet' = TRUE
    /\ pc' = "sign"
    /\ UNCHANGED <<pos, todo, held, cur, pending, nodeVars, budget>>

\* nextNonce: the node is asked once, the executor counts from there.
NextNonce ==
    /\ pc = "nonce"
    /\ IF nonceSet THEN curNonce' = nonce ELSE curNonce' \in PendingNonces
    /\ nonce' = curNonce' + 1
    /\ nonceSet' = TRUE
    /\ pc' = "sign"
    /\ UNCHANGED <<pos, todo, held, cur, pending, nodeVars, budget>>

SignTx ==
    /\ pc = "sign"
    /\ pc' = "send"
    /\ UNCHANGED <<pos, todo, held, cur, curNonce, execVars, nodeVars, budget>>

\* The node takes a transaction unless it has one with that nonce.
Accept == /\ curNonce \notin DOMAIN txs
          /\ curNonce >= mined
          /\ txs' = [n \in DOMAIN txs \cup {curNonce} |->
                       IF n = curNonce THEN [borrower |-> cur.borrower, tick |-> scans]
                       ELSE txs[n]]

SendTransaction ==
    /\ pc = "send"
    /\ Accept
    /\ pc' = "track"
    /\ UNCHANGED <<pos, todo, held, cur, curNonce, execVars, mined, settled, budget>>

\* The error paths: scan logs the error and goes on with the next candidate.
\* Before a nonce is taken, and when a sent transaction's answer is lost:
RpcFails ==
    /\ pc = "gas" \/ (pc = "nonce" /\ ~nonceSet)
    /\ faults < MaxFaults /\ faults' = faults + 1
    /\ NextCandidate(todo)
    /\ UNCHANGED <<pos, todo, held, execVars, nodeVars, scans, burns, restarts>>

\* A mutation of AnswerLost: the liquidation is tried again at once.
AnswerLostRetries ==
    /\ pc = "send"
    /\ Accept
    /\ faults < MaxFaults /\ faults' = faults + 1
    /\ pc' = "gas" /\ curNonce' = 0
    /\ UNCHANGED <<pos, todo, held, cur, execVars, mined, settled, scans, burns, restarts>>

AnswerLost ==
    /\ pc = "send"
    /\ Accept
    /\ faults < MaxFaults /\ faults' = faults + 1
    /\ NextCandidate(todo)
    /\ UNCHANGED <<pos, todo, held, execVars, mined, settled, scans, burns, restarts>>

\* After a nonce is taken: SignTx fails or the transaction never reaches the node.
SubmitFails ==
    /\ pc \in {"sign", "send"}
    /\ faults < MaxFaults /\ faults' = faults + 1
    /\ burns' = burns + 1
    /\ NextCandidate(todo)
    /\ UNCHANGED <<pos, todo, held, execVars, nodeVars, scans, restarts>>

\* The node refuses a nonce that it has a transaction for.
SendRejected ==
    /\ pc = "send"
    /\ curNonce \in DOMAIN txs \/ curNonce < mined
    /\ NextCandidate(todo)
    /\ UNCHANGED <<pos, todo, held, execVars, nodeVars, budget>>

\* A mutation of Track: keyed by the executor's counter instead of the nonce sent.
TrackCounter ==
    /\ pc = "track"
    /\ pending' = [n \in DOMAIN pending \cup {nonce} |->
                     IF n = nonce THEN [borrower |-> cur.borrower, status |-> "pending"]
                     ELSE pending[n]]
    /\ NextCandidate(todo)
    /\ UNCHANGED <<pos, todo, held, nonce, nonceSet, nodeVars, budget>>

\* The transaction enters e.pending.
Track ==
    /\ pc = "track"
    /\ pending' = [n \in DOMAIN pending \cup {curNonce} |->
                     IF n = curNonce THEN [borrower |-> cur.borrower, status |-> "pending"]
                     ELSE pending[n]]
    /\ NextCandidate(todo)
    /\ UNCHANGED <<pos, todo, held, nonce, nonceSet, nodeVars, budget>>
-----------------------------------------------------------------------------
\* The node mines accepted transactions in the order of their nonces.
Mine ==
    /\ mined \in DOMAIN txs
    /\ mined' = mined + 1
    /\ UNCHANGED <<pos, scanVars, execVars, txs, settled, budget>>

\* MarkConfirmed and MarkFailed, called by whoever follows the chain once for each
\* mined transaction; a transaction that is not tracked is ignored.
Mark(n, status) ==
    /\ pc # "panic"
    /\ n \in DOMAIN txs /\ n < mined /\ n \notin settled
    /\ settled' = settled \cup {n}
    /\ pending' = [m \in DOMAIN pending |->
                     IF m = n THEN [pending[m] EXCEPT !.status = status] ELSE pending[m]]
    /\ UNCHANGED <<pos, scanVars, nonce, nonceSet, txs, mined, budget>>

\* The liquidator dies, or leaves scan because its context is cancelled, and starts
\* again with nothing: all its state is in memory.
Restart ==
    /\ restarts < MaxRestarts /\ restarts' = restarts + 1
    /\ pos' = [b \in Borrower |-> NoPosition]
    /\ pc' = "idle" /\ todo' = {} /\ cur' = NoCandidate /\ curNonce' = 0
    /\ held' = [b \in Borrower |-> Live]
    /\ nonce' = 0 /\ nonceSet' = FALSE /\ pending' = Empty
    /\ UNCHANGED <<nodeVars, scans, faults, burns>>

ScanStep == \/ RefreshAll \/ FindLiquidatable
            \/ \E b \in Borrower : PickCandidate(b)
            \/ PickEntries \/ SuggestGasPrice \/ NextNonce \/ SignTx
            \/ SendTransaction \/ SendRejected \/ Track
            \/ RpcFails \/ AnswerLost \/ SubmitFails

LiquidationNext ==
    \/ \E b \in Borrower, p \in UserPosition : SetPosition(b, p)
    \/ \E b \in Borrower : RemovePosition(b)
    \/ ScanStep
    \/ Mine
    \/ \E n \in DOMAIN txs, status \in {"confirmed", "failed"} : Mark(n, status)
    \/ Restart

LiquidationSpec == LiquidationInit /\ [][LiquidationNext]_vars

\* The node keeps mining what it can.
FairLiquidationSpec == LiquidationSpec /\ WF_vars(Mine)
-----------------------------------------------------------------------------
\* Every transaction the executor tracks is one that the node accepted, for the
\* same borrower: whatever fails, gets lost or is restarted between nextNonce and
\* the insertion into e.pending, MarkConfirmed settles the right liquidation.
TrackedAccepted ==
    \A n \in DOMAIN pending : n \in DOMAIN txs /\ pending[n].borrower = txs[n].borrower

\* The nonces the node holds have no hole unless a call failed after nextNonce:
\* nextNonce continues where the node is, after restarts, refusals, lost answers and
\* failed queries too.  A hole would block every later liquidation.
HoleFree == \A n \in DOMAIN txs : \A m \in 0..n : m \in DOMAIN txs
NonceGapFree == burns = 0 => HoleFree

\* No two transactions of one tick are for the same borrower: as scan gives up a
\* candidate that fails and never retries it, lost answers, refused nonces and
\* restarts do not multiply transactions.  The next tick may send another one.
OncePerTick ==
    \A m, n \in DOMAIN txs : m # n /\ txs[m].tick = txs[n].tick
                             => txs[m].borrower # txs[n].borrower

\* What the docs and comments say and the code does not do.

\* The design, "failures are retried with exponential backoff": every transaction that the
\* node accepted is eventually mined, whatever became of an earlier one.
SubmittedMined == \A n \in 0..(MaxScans * Cardinality(Borrower)) :
                    (n \in DOMAIN txs) ~> (n < mined)

\* The comment in scan, "Max liquidatable = 50% of debt": at no time are two unmined
\* liquidations of one borrower under way, each for half of the same debt.
NoDuplicateLiquidation ==
    \A m, n \in DOMAIN txs : m # n /\ m >= mined /\ n >= mined
                             => txs[m].borrower # txs[n].borrower

\* The comment on PendingCount, "the number of in-flight transactions": one that was
\* settled does not count.
PendingCountExact ==
    \A n \in DOMAIN pending : n \in settled => pending[n].status # "pending"

\* The comment on Run, "blocks until ctx is cancelled": no scan ends it.  Its guard
\* against empty positions is meant to keep Debts[0] and Collaterals[0] in range.
ScanSurvives == pc # "panic"

\* The comment in scan, "pick the largest debt": the entry picked is the position's largest.
LargestDebtPicked ==
    [][pc = "index" /\ pc' = "gas" =>
         \A i \in 1..Len(View(cur.borrower).debts) :
            View(cur.borrower).debts[i] <= cur'.debt]_vars
-----------------------------------------------------------------------------
\* The inductive invariant behind TrackedAccepted: between SendTransaction and
\* Track, the node already has the transaction about to be tracked.
SentAccepted == pc = "track" => curNonce \in DOMAIN txs /\ txs[curNonce].borrower = cur.borrower

\* A candidate that scan sees through the map has a position there, and the
\* candidate in hand is not among those still to visit.
CandidatesPresent ==
    /\ \A b \in Borrower : (b \in todo \/ (pc = "index" /\ b = cur.borrower)) /\ held[b] = Live
                           => pos[b] # NoPosition
    /\ pc = "index" => cur.borrower \notin todo
LiquidationInv == LiquidationTypeOK /\ CandidatesPresent /\ SentAccepted /\ TrackedAccepted

\* The one behind NonceGapFree, when no nonce is burned: n is the nonce the node
\* expects next, and it is either in hand or what the counter will hand out.
NextFree(n) == n \notin DOMAIN txs /\ \A m \in 0..(n - 1) : m \in DOMAIN txs

CounterInStep ==
    /\ pc \in {"sign", "send"} => nonceSet /\ nonce = curNonce + 1 /\ NextFree(curNonce)
    /\ nonceSet /\ pc \notin {"sign", "send"} => NextFree(nonce)

MinedAccepted == \A m \in 0..(mined - 1) : m \in DOMAIN txs

GapFree == HoleFree /\ CounterInStep /\ MinedAccepted
GapInv == burns = 0 => GapFree

\* The one behind OncePerTick: a borrower that this tick may still liquidate, because it
\* is to be visited or in hand before the send, has no transaction of this tick.
InHand == {"index", "gas", "nonce", "sign", "send", "track"}
MayStillSend(b) == \/ pc = "find" \/ b \in todo
                   \/ pc \in InHand \ {"track"} /\ b = cur.borrower

TickInv == /\ OncePerTick
           /\ \A n \in DOMAIN txs : txs[n].tick <= scans
           /\ \A b \in Borrower, n \in DOMAIN txs :
                MayStillSend(b) /\ txs[n].borrower = b => txs[n].tick < scans
           /\ pc \in InHand => cur.borrower \notin todo
=============================================================================
