-------------------------- MODULE IndexerRefinement --------------------------
(* The indexer's store implements EventStore: the tables are the same, and the *)
(* discipline is kept by the order of runChain's calls alone.                  *)
EXTENDS Indexer

EventBlock(e) == e.block

Store == INSTANCE EventStore WITH Block <- Blocks, Event <- Events,
                                  Height <- Number, BlockOf <- EventBlock

\* Whatever reorganisations, failing calls and restarts come between two calls,
\* ProcessBlock, SaveEvent and HandleReorg change the store only as EventStore
\* allows: an event never outlives its block nor precedes it, and the checkpoint
\* names a stored block when it advances and has nothing above it when it is
\* rolled back.
ImplementsEventStore == Store!StoreSpec

\* What the refinement needs beyond IndexerInv: the fork of the reorganisation being
\* handled is a height of the header in hand or below it, and once HandleReorg has
\* deleted the blocks none at or above the fork is left, so that the checkpoint may
\* be moved below it.
ForkInHand == pc \in {"delEvents", "delBlocks", "rollSync"} => fork \in 1..Number(cur)
RolledBack == pc = "rollSync" => \A n \in DOMAIN blocks : n < fork
=============================================================================
