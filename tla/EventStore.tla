----------------------------- MODULE EventStore -----------------------------
(***************************************************************************)
(* What the readers of the indexer's tables may rely on, whoever writes    *)
(* them and wherever it stops: the order in which blocks, events and the   *)
(* checkpoint change.  An event arrives after its block and leaves before  *)
(* it, the checkpoint only ever moves to a block that is stored, or, after *)
(* a truncation, to just below what was truncated.                         *)
(***************************************************************************)
EXTENDS Integers

CONSTANTS
    Block, Event,
    Height(_),      \* of a block
    BlockOf(_)      \* of an event

VARIABLES
    blocks,   \* the blocks table: at most one block of each height
    events,   \* the events table
    sync      \* the checkpoint

StoreInit == blocks = [n \in {} |-> 0] /\ events = {} /\ sync = 0

Below(n) == \A m \in DOMAIN blocks : m < n

StoreBlock(b) ==
    /\ blocks' = [n \in DOMAIN blocks \cup {Height(b)} |-> IF n = Height(b) THEN b ELSE blocks[n]]
    /\ UNCHANGED <<events, sync>>

StoreEvent(e) ==
    /\ Height(BlockOf(e)) \in DOMAIN blocks
    /\ events' = events \cup {e}
    /\ UNCHANGED <<blocks, sync>>

MoveCheckpoint(n) ==
    /\ sync' = n
    /\ UNCHANGED <<blocks, events>>

\* Events go first, then the blocks that have none left.
TruncateEvents(n) ==
    /\ events' = {e \in events : Height(BlockOf(e)) < n}
    /\ UNCHANGED <<blocks, sync>>

TruncateBlocks(n) ==
    /\ \A e \in events : Height(BlockOf(e)) < n
    /\ blocks' = [m \in {k \in DOMAIN blocks : k < n} |-> blocks[m]]
    /\ UNCHANGED <<events, sync>>

StoreNext ==
    \/ \E b \in Block : StoreBlock(b)
    \/ \E e \in Event : StoreEvent(e)
    \/ \E n \in DOMAIN blocks : MoveCheckpoint(n)
    \/ \E b \in Block : \/ TruncateEvents(Height(b))
                        \/ TruncateBlocks(Height(b))
                        \/ Below(Height(b)) /\ MoveCheckpoint(Height(b) - 1)

StoreSpec == StoreInit /\ [][StoreNext]_<<blocks, events, sync>>
=============================================================================
