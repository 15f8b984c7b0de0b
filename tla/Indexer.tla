------------------------------- MODULE Indexer -------------------------------
(***************************************************************************)
(* internal/indexer: one chain's runChain goroutine, which receives        *)
(* headers from the BlockListener, runs the ReorgDetector, and writes      *)
(* blocks, events and the checkpoint through EventConsumer to the          *)
(* EventStore, then publishes each event to Kafka.  Every store call is a  *)
(* step of its own, may fail, and is not in a transaction with the others; *)
(* the process may stop between any two steps and keeps only the store.    *)
(* Chains share no state but the store, keyed by chain, so one is enough.  *)
(***************************************************************************)
EXTENDS BlockListener, ReorgDetector

CONSTANTS
    LogCount,    \* pool logs in every block
    Malformed,   \* the ones ParseLog rejects
    MaxOpFaults, \* bound: failed store, log and publish calls
    MaxCrashes   \* bound: process restarts

ASSUME IndexerAssumption == /\ LogCount \in Nat
                            /\ Malformed \subseteq 1..LogCount
                            /\ MaxOpFaults \in Nat
                            /\ MaxCrashes \in Nat

VARIABLES
    pc,        \* the call runChain makes next
    cur,       \* the header in hand
    fork,      \* forkBlock of the reorg it revealed, 0 if it revealed none
    got,       \* the block whose logs FilterLogs returned
    li,        \* index of the log at hand
    hashes,    \* detector.blockHashes
    blocks,    \* store: the blocks table
    events,    \* store: the events table
    sync,      \* store: the checkpoint (sync_status)
    published, \* history: the events handed to Kafka
    opFaults, crashes

memVars == <<pc, cur, fork, got, li, hashes>>
storeVars == <<blocks, events, sync, published>>
vars == <<netVars, memVars, storeVars, opFaults, crashes>>

IndexerPC == {"boot", "idle", "delEvents", "delBlocks", "rollSync",
              "saveBlock", "updSync", "filter", "logs", "publish"}

Events == [block : Blocks, index : 1..LogCount]
Event == [block |-> got, index |-> li]

IndexerTypeOK ==
    /\ ChainTypeOK
    /\ ListenerTypeOK
    /\ pc \in IndexerPC
    /\ cur \in Chains
    /\ fork \in 0..MaxHeight
    /\ got \in Chains
    /\ li \in 0..(LogCount + 1)
    /\ hashes \in BlockMaps
    /\ blocks \in BlockMaps
    /\ events \subseteq Events
    /\ sync \in 0..MaxHeight
    /\ published \subseteq Events
    /\ opFaults \in 0..MaxOpFaults
    /\ crashes \in 0..MaxCrashes

IndexerInit ==
    /\ NetInit
    /\ pc = "boot" /\ cur = <<>> /\ fork = 0 /\ got = <<>> /\ li = 0
    /\ hashes = NoBlocks
    /\ blocks = NoBlocks /\ events = {} /\ sync = 0 /\ published = {}
    /\ opFaults = 0 /\ crashes = 0

OpFault == /\ opFaults < MaxOpFaults
           /\ opFaults' = opFaults + 1

\* The header is given up: `continue' in runChain's loop.
Drop == /\ OpFault
        /\ pc' = "idle"
        /\ UNCHANGED <<netVars, cur, fork, got, li, hashes, storeVars, crashes>>
-----------------------------------------------------------------------------
\* GetSyncStatus, then Subscribe from the block after the checkpoint.
GetSyncStatus ==
    /\ pc = "boot"
    /\ pc' = "idle"
    /\ Open(sync + 1)
    /\ UNCHANGED <<chainVars, cur, fork, got, li, hashes, storeVars, opFaults, crashes>>

\* A failed GetSyncStatus returns 0 and the error is only logged.
GetSyncStatusFails ==
    /\ pc = "boot" /\ OpFault
    /\ pc' = "idle"
    /\ Open(1)
    /\ UNCHANGED <<chainVars, cur, fork, got, li, hashes, storeVars, crashes>>

\* A header is received.  Detection and, when there is no reorg, the recording
\* of the block happen in memory, in one step.
ReceiveLinked ==
    /\ pc = "idle" /\ Receive
    /\ ~DetectReorg(hashes, Head(out))
    /\ pc' = "saveBlock"
    /\ cur' = Head(out)
    /\ fork' = 0
    /\ hashes' = RecordBlock(hashes, Head(out))
    /\ UNCHANGED <<chainVars, got, li, storeVars, opFaults, crashes>>

ReceiveReorg ==
    /\ pc = "idle" /\ Receive
    /\ DetectReorg(hashes, Head(out))
    /\ pc' = "delEvents"
    /\ cur' = Head(out)
    /\ fork' = ForkBlock(hashes, Head(out))
    /\ UNCHANGED <<chainVars, got, li, hashes, storeVars, opFaults, crashes>>
-----------------------------------------------------------------------------
\* HandleReorg, then Rollback and RecordBlock.
\* Mutations of DeleteEventsFromBlock: the events of the fork block survive; the
\* blocks are deleted first.
DeleteEventsAfterBlock ==
    /\ pc = "delEvents"
    /\ pc' = "delBlocks"
    /\ events' = {e \in events : Number(e.block) <= fork}
    /\ UNCHANGED <<netVars, cur, fork, got, li, hashes, blocks, sync, published, opFaults, crashes>>

DeleteBlocksFirst ==
    /\ pc = "delEvents"
    /\ pc' = "delBlocks"
    /\ blocks' = Keep(blocks, {n \in DOMAIN blocks : n < fork})
    /\ UNCHANGED <<netVars, cur, fork, got, li, hashes, events, sync, published, opFaults, crashes>>

DeleteEventsFromBlock ==
    /\ pc = "delEvents"
    /\ pc' = "delBlocks"
    /\ events' = {e \in events : Number(e.block) < fork}
    /\ UNCHANGED <<netVars, cur, fork, got, li, hashes, blocks, sync, published, opFaults, crashes>>

\* Mutation of DeleteBlocksFromBlock: the fork block survives.
DeleteBlocksAfterBlock ==
    /\ pc = "delBlocks"
    /\ pc' = "rollSync"
    /\ blocks' = Keep(blocks, {n \in DOMAIN blocks : n <= fork})
    /\ UNCHANGED <<netVars, cur, fork, got, li, hashes, events, sync, published, opFaults, crashes>>

DeleteBlocksFromBlock ==
    /\ pc = "delBlocks"
    /\ pc' = "rollSync"
    /\ blocks' = Keep(blocks, {n \in DOMAIN blocks : n < fork})
    /\ UNCHANGED <<netVars, cur, fork, got, li, hashes, events, sync, published, opFaults, crashes>>

\* Mutation of RollSyncStatus: detector.Rollback forgotten.
RollSyncStatusOnly ==
    /\ pc = "rollSync"
    /\ pc' = "saveBlock"
    /\ sync' = IF fork > 0 THEN fork - 1 ELSE sync
    /\ hashes' = RecordBlock(hashes, cur)
    /\ UNCHANGED <<netVars, cur, fork, got, li, blocks, events, published, opFaults, crashes>>

RollSyncStatus ==
    /\ pc = "rollSync"
    /\ pc' = "saveBlock"
    /\ sync' = IF fork > 0 THEN fork - 1 ELSE sync
    /\ hashes' = RecordBlock(Rollback(hashes, fork), cur)
    /\ UNCHANGED <<netVars, cur, fork, got, li, blocks, events, published, opFaults, crashes>>

HandleReorgFails == pc \in {"delEvents", "delBlocks", "rollSync"} /\ Drop
-----------------------------------------------------------------------------
\* Mutations of ProcessBlock: the checkpoint first; the checkpoint off by one.
SaveBlockAfterSync ==
    /\ pc = "saveBlock"
    /\ pc' = "updSync"
    /\ sync' = Number(cur)
    /\ UNCHANGED <<netVars, cur, fork, got, li, hashes, blocks, events, published, opFaults, crashes>>

UpdateSyncStatusToNext ==
    /\ pc = "updSync"
    /\ pc' = "filter"
    /\ sync' = Number(cur) + 1
    /\ UNCHANGED <<netVars, cur, fork, got, li, hashes, blocks, events, published, opFaults, crashes>>

\* ProcessBlock.
SaveBlock ==
    /\ pc = "saveBlock"
    /\ pc' = "updSync"
    /\ blocks' = Put(blocks, cur)
    /\ UNCHANGED <<netVars, cur, fork, got, li, hashes, events, sync, published, opFaults, crashes>>

UpdateSyncStatus ==
    /\ pc = "updSync"
    /\ pc' = "filter"
    /\ sync' = Number(cur)
    /\ UNCHANGED <<netVars, cur, fork, got, li, hashes, blocks, events, published, opFaults, crashes>>

ProcessBlockFails == pc \in {"saveBlock", "updSync"} /\ Drop

\* The logs are asked for by number, so they are those of the block that is
\* canonical now; there are none when the chain has become shorter.
FilterLogs ==
    /\ pc = "filter"
    /\ pc' = "logs"
    /\ got' = IF Number(cur) <= Len(chain) THEN BlockAt(chain, Number(cur)) ELSE <<>>
    /\ li' = 1
    /\ UNCHANGED <<netVars, cur, fork, hashes, storeVars, opFaults, crashes>>

FilterLogsFails == pc = "filter" /\ Drop

MoreLogs == got # <<>> /\ li <= LogCount

\* ParseLog fails: `continue' in the inner loop.
SkipLog ==
    /\ pc = "logs" /\ MoreLogs /\ li \in Malformed
    /\ li' = li + 1
    /\ UNCHANGED <<netVars, pc, cur, fork, got, hashes, storeVars, opFaults, crashes>>

SaveEvent ==
    /\ pc = "logs" /\ MoreLogs /\ li \notin Malformed
    /\ pc' = "publish"
    /\ events' = events \cup {Event}
    /\ UNCHANGED <<netVars, cur, fork, got, li, hashes, blocks, sync, published, opFaults, crashes>>

SaveEventFails ==
    /\ pc = "logs" /\ MoreLogs /\ li \notin Malformed
    /\ OpFault
    /\ li' = li + 1
    /\ UNCHANGED <<netVars, pc, cur, fork, got, hashes, storeVars, crashes>>

Publish ==
    /\ pc = "publish"
    /\ pc' = "logs"
    /\ published' = published \cup {Event}
    /\ li' = li + 1
    /\ UNCHANGED <<netVars, cur, fork, got, hashes, blocks, events, sync, opFaults, crashes>>

PublishFails ==
    /\ pc = "publish" /\ OpFault
    /\ pc' = "logs"
    /\ li' = li + 1
    /\ UNCHANGED <<netVars, cur, fork, got, hashes, storeVars, crashes>>

BlockIndexed ==
    /\ pc = "logs" /\ ~MoreLogs
    /\ pc' = "idle"
    /\ got' = <<>> /\ li' = 0
    /\ UNCHANGED <<netVars, cur, fork, hashes, storeVars, opFaults, crashes>>
-----------------------------------------------------------------------------
\* The process stops, at any point, and a new one starts: the store remains.
Restart ==
    /\ crashes < MaxCrashes
    /\ crashes' = crashes + 1
    /\ pc' = "boot" /\ cur' = <<>> /\ fork' = 0 /\ got' = <<>> /\ li' = 0
    /\ hashes' = NoBlocks
    /\ lpc' = "off" /\ start' = 0 /\ latest' = 0 /\ next' = 0
    /\ wsq' = <<>> /\ out' = <<>> /\ sent' = {}
    /\ UNCHANGED <<chainVars, faults, storeVars, opFaults>>

IndexerStep ==
    \/ GetSyncStatus
    \/ GetSyncStatusFails
    \/ ReceiveLinked
    \/ ReceiveReorg
    \/ DeleteEventsFromBlock
    \/ DeleteBlocksFromBlock
    \/ RollSyncStatus
    \/ HandleReorgFails
    \/ SaveBlock
    \/ UpdateSyncStatus
    \/ ProcessBlockFails
    \/ FilterLogs
    \/ FilterLogsFails
    \/ SkipLog
    \/ SaveEvent
    \/ SaveEventFails
    \/ Publish
    \/ PublishFails
    \/ BlockIndexed

NodeMoves == NodeStep /\ UNCHANGED <<memVars, storeVars, opFaults, crashes>>

ListenerMoves == /\ ListenerStep
                 /\ UNCHANGED <<chainVars, memVars, storeVars, opFaults, crashes>>

SubscriptionDrops == /\ SubscriptionError
                     /\ UNCHANGED <<chainVars, memVars, storeVars, opFaults, crashes>>

IndexerNext ==
    \/ NodeMoves
    \/ ListenerMoves
    \/ SubscriptionDrops
    \/ IndexerStep
    \/ Restart

IndexerSpec == IndexerInit /\ [][IndexerNext]_vars

\* Both goroutines keep being scheduled and their calls return; nothing is
\* promised of the node, the subscription or the process.
FairIndexerSpec == /\ IndexerSpec
                   /\ WF_vars(ListenerMoves)
                   /\ WF_vars(IndexerStep)
-----------------------------------------------------------------------------
CanonicalBlocks == [n \in 1..Len(chain) |-> BlockAt(chain, n)]

CanonicalEvents ==
    {[block |-> BlockAt(chain, n), index |-> i] :
        n \in 1..Len(chain), i \in (1..LogCount) \ Malformed}

InSync == /\ blocks = CanonicalBlocks
          /\ events = CanonicalEvents
          /\ CanonicalEvents \subseteq published
          /\ sync = Len(chain)

\* Nothing is in flight: what the listener knows of has been indexed.
CaughtUp == /\ pc = "idle" /\ out = <<>>
            /\ \/ lpc = "live" /\ wsq = <<>>
               \/ lpc = "poll" /\ next > Len(chain)

\* Over a healthy subscription, whatever reorganisations happen and whenever
\* (during the backfill, between a header and its FilterLogs), once all the
\* announced headers are processed the store is exactly the canonical chain.
CaughtUpInSync == CaughtUp => InSync

\* ... and that does happen: when the node stops changing, the store ends up
\* equal to the chain, every event published, and stays so.
EventuallyInSync == <>[]InSync

\* HandleReorg deletes events before blocks, ProcessBlock saves the block before
\* its events: whatever fails and wherever the process stops, no event is left
\* whose block the store does not have.
EventsHaveBlocks == \A e \in events : Number(e.block) \in DOMAIN blocks

\* ProcessBlock moves the checkpoint only after the block is stored, so that a
\* restart, which resumes after the checkpoint, leaves no block out: unless a call
\* failed or the chain reorganised, no crash leaves a hole below the checkpoint.
Undisturbed == faults = 0 /\ opFaults = 0 /\ reorgs = 0
BlocksCovered == Undisturbed => 1..sync \subseteq DOMAIN blocks

\* What makes IndexerTypeOK and EventsHaveBlocks inductive: numbers asked of the
\* node are positive; past the receive there is a block in hand; the log at hand
\* is one of that height; the block of the events being saved is stored; between
\* the two deletions no event of the rolled back blocks is left.
NextPositive == /\ lpc # "off" => start >= 1
                /\ lpc \in {"backfill", "poll", "fetch"} => next >= 1

BlockInHand == pc \notin {"boot", "idle"} => cur \in Blocks

LogInHand == /\ pc \in {"logs", "publish"} => li >= 1 /\ Number(got) \in {0, Number(cur)}
             /\ pc = "publish" => MoreLogs

StoredInHand == pc \in {"updSync", "filter", "logs", "publish"} => Number(cur) \in DOMAIN blocks

EventsGone == pc = "delBlocks" => \A e \in events : Number(e.block) < fork

IndexerInv == /\ IndexerTypeOK
              /\ NextPositive
              /\ BlockInHand
              /\ LogInHand
              /\ StoredInHand
              /\ EventsGone
              /\ EventsHaveBlocks

\* Two recorded (stored) blocks of adjacent heights are parent and child: polling by
\* number across a reorganisation, runChain never puts a block next to one of another
\* branch.  It says nothing across a gap: after a rollback the parent is not fetched
\* again, and what lies below the gap may be of the abandoned branch.
Linked(f) == \A n \in DOMAIN f : n + 1 \in DOMAIN f => ParentHash(f[n + 1]) = f[n]
DetectorLinked == Linked(hashes)
StoredLinked == Linked(blocks)

\* The comment on RecordBlock, "stores a block's hash for future reorg
\* detection": the pruning never removes the block just recorded.
RecordedBlockKept ==
    pc \in {"saveBlock", "updSync", "filter"} =>
        Number(cur) \in DOMAIN hashes /\ hashes[Number(cur)] = cur

\* What makes the linkage inductive when polling: the headers in the channel carry
\* consecutive numbers and end before `next'; the detector knows only lower ones than
\* those still to come, so that a reorganisation shows at the parent; and, until a
\* restart, so does the store, whose last block is the one recorded.
Polling == lpc \in {"poll", "fetch"}
RollingBack == {"delEvents", "delBlocks", "rollSync"}
Expected == next - Len(out)   \* the number of the next header to be received

NotPolling == ~Polling =>
    /\ lpc \in {"off", "dial"} /\ pc \in {"boot", "idle"}
    /\ out = <<>> /\ hashes = NoBlocks
    /\ crashes = 0 => blocks = NoBlocks

PolledInOrder == Polling =>
    /\ \A i \in 1..Len(out) : Number(out[i]) = Expected + i - 1
    /\ \A n \in DOMAIN hashes : n < Expected
    /\ pc \notin {"boot", "idle"} => Number(cur) = Expected - 1
    /\ pc \in RollingBack => fork = Expected - 2 /\ Expected - 1 \notin DOMAIN hashes

StoredInOrder == Polling /\ crashes = 0 =>
    /\ \A n \in DOMAIN blocks : n < Expected
    /\ pc \in RollingBack \cup {"saveBlock"} => Expected - 1 \notin DOMAIN blocks
    /\ Expected - 1 \in DOMAIN blocks =>
           Expected - 1 \in DOMAIN hashes /\ hashes[Expected - 1] = blocks[Expected - 1]
    /\ pc = "saveBlock" /\ Expected - 2 \in DOMAIN blocks =>
           blocks[Expected - 2] = ParentHash(cur)

PollInv ==
    ~HasWS => /\ NotPolling
              /\ PolledInOrder
              /\ StoredInOrder
              /\ RecordedBlockKept
              /\ DetectorLinked
              /\ crashes = 0 => StoredLinked

\* What makes StoredBlockKept inductive when the window spans the chain: the
\* detector knows every stored block, and the one in hand.
WindowInv ==
    MaxBlocks >= MaxHeight /\ crashes = 0 =>
        /\ \A n \in DOMAIN blocks : n \in DOMAIN hashes /\ hashes[n] = blocks[n]
        /\ RecordedBlockKept

\* What makes BlocksCovered inductive: as long as nothing disturbs, every block on
\* its way is canonical and no reorganisation is seen; every number sent is stored, in
\* hand or in the channel, and each header follows all lower ones.
Canonical(b) == Number(b) <= Len(chain) /\ b = BlockAt(chain, Number(b))
Arrived == DOMAIN blocks \cup (IF pc = "saveBlock" THEN {Number(cur)} ELSE {})

AllCanonical == /\ \A i \in 1..Len(wsq) : Canonical(wsq[i])
                /\ \A i \in 1..Len(out) : Canonical(out[i])
                /\ \A n \in DOMAIN hashes : Canonical(hashes[n])

AllCovered ==
    /\ pc \notin RollingBack
    /\ lpc # "off" => 1..(start - 1) \subseteq DOMAIN blocks
    /\ sent \subseteq Arrived \cup Numbers(out, Len(out))
    /\ Follows(out, 1, Arrived)
    /\ pc \in {"saveBlock", "updSync"} => 1..Number(cur) \subseteq Arrived

CoverInv == Undisturbed => AllCanonical /\ AllCovered /\ BlocksCovered

\* What the docs and comments say and the code does not do.

\* The comment on DetectReorg, "checks if the incoming block indicates a chain
\* reorganization": until a restart empties the detector, a stored block is replaced by
\* another one at its height only after HandleReorg has deleted it, with its events.
StoredBlockKept ==
    [][\A n \in DOMAIN blocks :
         crashes = 0 /\ n \in DOMAIN blocks' => blocks'[n] = blocks[n]]_vars

\* The design's reorg handling, "roll back the affected blocks and re-index from
\* the fork point": the blocks rolled back are stored again once caught up.
ReindexedFromFork ==
    CaughtUp /\ fork > 0 => fork..Number(cur) \subseteq DOMAIN blocks

\* The design's resumption, "after a restart continue from the checkpoint": all
\* events of the blocks up to the checkpoint are stored when a restart reads it.
CheckpointCovers ==
    pc = "boot" => \A e \in CanonicalEvents : Number(e.block) <= sync => e \in events

\* The comment in runChain, "fetch and parse events from this block": the logs
\* handled are those of the header in hand.
LogsOfBlock == pc \in {"logs", "publish"} /\ got # <<>> => got = cur
=============================================================================
