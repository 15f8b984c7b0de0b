---------------------------- MODULE BlockListener ----------------------------
(***************************************************************************)
(* internal/indexer/listener: the goroutine that turns a node into a       *)
(* stream of headers.  Subscribe dials a WebSocket subscription, backfills *)
(* by number up to the head it sees, then forwards announced headers; when *)
(* the dial or the subscription fails it polls by number instead.          *)
(* The 64-slot channel to the indexer, and the header that waits in the    *)
(* goroutine's hand while it is full, are the queue `out'.  Poll's own     *)
(* channel, chained in front of it after a subscription error, is folded   *)
(* into it: two FIFO channels in a row are one.                            *)
(***************************************************************************)
EXTENDS ChainNode

CONSTANTS
    HasWS,      \* is a WebSocket URL configured for the chain?
    OutCap,     \* headers the channel (64 slots) and the goroutine hold
    MaxFaults   \* bound: failed RPC calls and broken subscriptions

ASSUME ListenerAssumption == /\ HasWS \in BOOLEAN
                             /\ OutCap \in Nat \ {0}
                             /\ MaxFaults \in Nat

VARIABLES
    lpc,      \* where the listener goroutine is
    start,    \* startBlock, the argument of Subscribe
    latest,   \* the last head number read: Subscribe's `latest', then Poll's
    next,     \* the backfill's `bn', then Poll's `nextBlock'
    wsq,      \* headers announced by the subscription and not read yet
    out,      \* headers sent to the indexer and not received yet
    sent,     \* history: the numbers this listener has put on `out'
    faults    \* failures so far

listenerVars == <<lpc, start, latest, next, wsq, out, sent, faults>>
netVars == <<chainVars, listenerVars>>

\* "off": not started; "dial": in SubscribeNewHead; "latest", "backfill", "live":
\* the three parts of Subscribe's goroutine; "poll", "fetch": waiting for a tick
\* of Poll and in the loop that a tick runs.
ListenerPC == {"off", "dial", "latest", "backfill", "live", "poll", "fetch"}
\* Mutation of Subscribed: the subscription is made after the backfill.
SubscribedLate == {"live"}
Subscribed == {"latest", "backfill", "live"}

ListenerTypeOK ==
    /\ lpc \in ListenerPC
    /\ start \in 0..(MaxHeight + 1)
    /\ latest \in 0..MaxHeight
    /\ next \in 0..(MaxHeight + 1)
    /\ wsq \in Seq(Blocks)
    /\ out \in Seq(Blocks)
    /\ Len(out) <= OutCap
    /\ sent \subseteq 1..MaxHeight
    /\ faults \in 0..MaxFaults

ListenerInit ==
    /\ lpc = "off"
    /\ start = 0 /\ latest = 0 /\ next = 0
    /\ wsq = <<>> /\ out = <<>> /\ sent = {}
    /\ faults = 0

Fault == /\ faults < MaxFaults
         /\ faults' = faults + 1

\* A header goes into the channel; the send blocks while the channel is full.
Push(b) == /\ Len(out) < OutCap
           /\ out' = Append(out, b)
           /\ sent' = sent \cup {Number(b)}
-----------------------------------------------------------------------------
\* The node: what it announces reaches the subscription's queue, if there is one.
Announce(k) ==
    /\ wsq' = IF lpc \in Subscribed THEN wsq \o Announced(chain', k) ELSE wsq
    /\ UNCHANGED <<lpc, start, latest, next, out, sent, faults>>

Mine(s) == Extend(s) /\ Announce(Len(chain))
Reorg(k, branch) == Switch(k, branch) /\ Announce(k)
-----------------------------------------------------------------------------
\* runChain calls Subscribe(ctx, s).
Open(s) == /\ lpc = "off"
           /\ lpc' = "dial"
           /\ start' = s
           /\ UNCHANGED <<latest, next, wsq, out, sent, faults>>

SubscribeNewHead ==
    /\ lpc = "dial" /\ HasWS
    /\ lpc' = "latest"
    /\ UNCHANGED <<start, latest, next, wsq, out, sent, faults>>

\* No WebSocket client, or the dial failed: Poll(ctx, startBlock).
SubscribeNewHeadFails ==
    /\ lpc = "dial"
    /\ IF HasWS THEN Fault ELSE UNCHANGED faults
    /\ lpc' = "poll"
    /\ next' = start
    /\ UNCHANGED <<start, latest, wsq, out, sent>>

BackfillStart ==
    /\ lpc = "latest"
    /\ lpc' = "backfill"
    /\ latest' = Len(chain)
    /\ next' = start
    /\ UNCHANGED <<start, wsq, out, sent, faults>>

\* LatestBlockNumber fails: latest is 0 and there is no backfill.
BackfillSkipped ==
    /\ lpc = "latest" /\ Fault
    /\ lpc' = "live"
    /\ latest' = 0
    /\ UNCHANGED <<start, next, wsq, out, sent>>

BackfillBlock ==
    /\ lpc = "backfill" /\ next <= latest
    /\ next <= Len(chain)
    /\ Push(BlockAt(chain, next))
    /\ next' = next + 1
    /\ UNCHANGED <<lpc, start, latest, wsq, faults>>

\* BlockByNumber fails (or the chain became shorter): the loop is left for good.
BackfillBreak ==
    /\ lpc = "backfill" /\ next <= latest
    /\ IF next <= Len(chain) THEN Fault ELSE UNCHANGED faults
    /\ lpc' = "live"
    /\ UNCHANGED <<start, latest, next, wsq, out, sent>>

BackfillDone ==
    /\ lpc = "backfill" /\ next > latest
    /\ lpc' = "live"
    /\ UNCHANGED <<start, latest, next, wsq, out, sent, faults>>

LiveHeader ==
    /\ lpc = "live" /\ wsq # <<>>
    /\ Push(Head(wsq))
    /\ wsq' = Tail(wsq)
    /\ UNCHANGED <<lpc, start, latest, next, faults>>

\* sub.Err() fires: poll from the block after the one the backfill ended at.
SubscriptionError ==
    /\ lpc = "live" /\ Fault
    /\ lpc' = "poll"
    /\ next' = IF latest > 0 THEN latest + 1 ELSE start
    /\ wsq' = <<>>
    /\ UNCHANGED <<start, latest, out, sent>>
-----------------------------------------------------------------------------
\* A tick of Poll.  A tick that fails, or finds no new block, changes nothing.
PollTick ==
    /\ lpc = "poll" /\ next <= Len(chain)
    /\ lpc' = "fetch"
    /\ latest' = Len(chain)
    /\ UNCHANGED <<start, next, wsq, out, sent, faults>>

PollBlock ==
    /\ lpc = "fetch" /\ next <= latest
    /\ next <= Len(chain)
    /\ Push(BlockAt(chain, next))
    /\ next' = next + 1
    /\ UNCHANGED <<lpc, start, latest, wsq, faults>>

\* Mutation of PollBreak: `continue' past the block instead of `break'.
PollBreakSkips ==
    /\ lpc = "fetch" /\ next <= latest
    /\ IF next <= Len(chain) THEN Fault ELSE UNCHANGED faults
    /\ next' = next + 1
    /\ UNCHANGED <<lpc, start, latest, wsq, out, sent>>

\* BlockByNumber fails: leave the loop, try the same block at the next tick.
PollBreak ==
    /\ lpc = "fetch" /\ next <= latest
    /\ IF next <= Len(chain) THEN Fault ELSE UNCHANGED faults
    /\ lpc' = "poll"
    /\ UNCHANGED <<start, latest, next, wsq, out, sent>>

PollDone ==
    /\ lpc = "fetch" /\ next > latest
    /\ lpc' = "poll"
    /\ UNCHANGED <<start, latest, next, wsq, out, sent, faults>>
-----------------------------------------------------------------------------
\* The indexer's end of the channel.
Receive == /\ out # <<>>
           /\ out' = Tail(out)
           /\ UNCHANGED <<lpc, start, latest, next, wsq, sent, faults>>

NodeStep == \/ \E s \in Salt : Mine(s)
            \/ \E k \in 0..MaxHeight, branch \in Blocks : Reorg(k, branch)

\* What the goroutine does with the answers of its RPC calls, errors included.
ListenerStep ==
    \/ SubscribeNewHead
    \/ SubscribeNewHeadFails
    \/ BackfillStart
    \/ BackfillSkipped
    \/ BackfillBlock
    \/ BackfillBreak
    \/ BackfillDone
    \/ LiveHeader
    \/ PollTick
    \/ PollBlock
    \/ PollBreak
    \/ PollDone

NetInit == ChainInit /\ ListenerInit
-----------------------------------------------------------------------------
\* What has been put on the channel has no hole: with block n, every block from
\* the one the listener was started at up to n has been sent (possibly on
\* another branch).  runChain moves the checkpoint to every number it receives
\* and never asks for an earlier one again, so a hole is never filled.
NoGap == \A n \in sent : start..n \subseteq sent

\* Without a subscription, or as long as no call has failed and no head was lower than an
\* earlier one, NoGap holds.  What makes it inductive: the backfill and the polling send
\* consecutive numbers; whatever is announced once the backfill has read the head is
\* covered by the backfill or by the headers announced before it, up to the head itself.
Healthy == ~HasWS \/ (faults = 0 /\ (MayShrink => reorgs = 0))

Numbers(q, i) == {Number(q[j]) : j \in 1..i}
Follows(q, from, K) == \A i \in 1..Len(q) : from..Number(q[i]) \subseteq K \cup Numbers(q, i)
Reaches(q, from, K, top) == from..top \subseteq K \cup Numbers(q, Len(q))
UpTo(q, top) == \A i \in 1..Len(q) : Number(q[i]) <= top
Backfilled == sent \cup (start..latest)

NumbersInOrder ==
    /\ lpc \in {"off", "dial", "latest"} => sent = {}
    /\ lpc \in {"backfill", "poll", "fetch"} => start <= next /\ sent = start..(next - 1)
    /\ lpc = "live" => NoGap /\ start..latest \subseteq sent

HeadReached ==
    /\ lpc \in {"off", "dial"} => wsq = <<>>
    /\ lpc = "latest" => UpTo(wsq, Len(chain))
    /\ lpc = "backfill" => latest <= Len(chain)

AnnouncedCovered ==
    lpc \in {"backfill", "live"} =>
        /\ Follows(wsq, start, Backfilled)
        /\ Reaches(wsq, start, Backfilled, Len(chain))

StreamInv ==
    Healthy => /\ lpc \notin (IF HasWS THEN {"poll", "fetch"} ELSE Subscribed)
               /\ NumbersInOrder
               /\ HeadReached
               /\ AnnouncedCovered

\* What the docs and comments say and the code does not do.

\* The comment over the backfill loop of Subscribe, "Backfill blocks between
\* startBlock and latest": when the loop is left, that is what has been sent.
BackfillComplete == lpc = "live" /\ latest > 0 => start..latest \subseteq sent
=============================================================================
