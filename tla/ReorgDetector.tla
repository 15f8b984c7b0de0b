---------------------------- MODULE ReorgDetector ----------------------------
(***************************************************************************)
(* internal/indexer/reorg: the window of recent block hashes and the two   *)
(* comparisons that reveal a reorganisation.  A window `hashes' is a       *)
(* function from the recorded numbers to the recorded blocks.              *)
(***************************************************************************)
EXTENDS ChainNode

CONSTANTS
    MaxBlocks,  \* maxBlocks: twice the chain's confirmations
    Word        \* 2^64, the modulus of the uint64 subtraction

ASSUME DetectorAssumption == /\ MaxBlocks \in Nat \ {0}
                             /\ Word \in Nat
                             /\ Word > MaxHeight + MaxBlocks

\* The maps from block numbers to blocks, each block under its own number.
BlockMaps == {f \in UNION {[D -> Blocks] : D \in SUBSET (1..MaxHeight)} :
                 \A n \in DOMAIN f : Number(f[n]) = n}

NoBlocks == [n \in {} |-> <<>>]

Put(f, b) == [n \in DOMAIN f \cup {Number(b)} |-> IF n = Number(b) THEN b ELSE f[n]]
Keep(f, D) == [n \in DOMAIN f \cap D |-> f[n]]

\* uint64 subtraction wraps around.
Sub64(a, b) == IF a >= b THEN a - b ELSE a - b + Word

\* Mutation of RecordBlock: the operands of the subtraction swapped.
RecordBlockSwapped(hashes, b) ==
    LET all    == Put(hashes, b)
        oldest == Sub64(MaxBlocks, Number(b))
    IN  IF Cardinality(DOMAIN all) > MaxBlocks
        THEN Keep(all, {n \in DOMAIN all : n > oldest})
        ELSE all

RecordBlock(hashes, b) ==
    LET all    == Put(hashes, b)
        oldest == Sub64(Number(b), MaxBlocks)
    IN  IF Cardinality(DOMAIN all) > MaxBlocks
        THEN Keep(all, {n \in DOMAIN all : n > oldest})
        ELSE all

\* DetectReorg, its two cases: another hash recorded at this height, or (when
\* nothing is recorded there) another hash recorded for the parent.
OtherAtHeight(hashes, b) ==
    Number(b) \in DOMAIN hashes /\ hashes[Number(b)] # b

OtherParent(hashes, b) ==
    /\ Number(b) \notin DOMAIN hashes
    /\ Number(b) - 1 \in DOMAIN hashes
    /\ hashes[Number(b) - 1] # ParentHash(b)

\* Mutations of DetectReorg: only one of the two cases.
DetectReorgParentOnly(hashes, b) == OtherParent(hashes, b)
DetectReorgHeightOnly(hashes, b) == OtherAtHeight(hashes, b)

DetectReorg(hashes, b) == OtherAtHeight(hashes, b) \/ OtherParent(hashes, b)
ForkBlock(hashes, b) == IF OtherAtHeight(hashes, b) THEN Number(b) ELSE Number(b) - 1

Rollback(hashes, from) == Keep(hashes, {n \in DOMAIN hashes : n < from})
=============================================================================
