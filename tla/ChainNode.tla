------------------------------ MODULE ChainNode ------------------------------
(***************************************************************************)
(* The EVM node as the indexer sees it through chain.ChainAdapter          *)
(* (external: the code behind internal/chain/evm is an RPC client).        *)
(*                                                                         *)
(* A block hash commits to the block's whole ancestry, so a block IS its   *)
(* ancestry: the sequence of the choices ("salts") that tell it and its    *)
(* ancestors apart.  The canonical chain is such a sequence too, and its   *)
(* block at height n is its prefix of length n.  Genesis is <<>>.          *)
(***************************************************************************)
EXTENDS Integers, Sequences, FiniteSets

CONSTANTS
    Salt,       \* what distinguishes two blocks with the same parent
    MaxHeight,  \* bound: the chain never grows beyond this height
    MaxReorgs,  \* bound: number of chain reorganisations
    MaxDepth,   \* how many blocks of its chain a reorganisation abandons at most
    MayShrink   \* may a reorganisation end on a lower head?

ASSUME ChainAssumption == /\ MaxHeight \in Nat
                          /\ MaxReorgs \in Nat
                          /\ MaxDepth \in Nat
                          /\ MayShrink \in BOOLEAN

VARIABLES
    chain,   \* the node's canonical chain
    reorgs   \* reorganisations so far

chainVars == <<chain, reorgs>>

Chains == UNION {[1..n -> Salt] : n \in 0..MaxHeight}
Blocks == UNION {[1..n -> Salt] : n \in 1..MaxHeight}

Number(b) == Len(b)                        \* header.Number
ParentHash(b) == SubSeq(b, 1, Len(b) - 1)  \* header.ParentHash
BlockAt(c, n) == SubSeq(c, 1, n)           \* the block of chain c at height n

ChainTypeOK == /\ chain \in Chains
               /\ reorgs \in 0..MaxReorgs

ChainInit == /\ chain \in {c \in Chains : Len(c) <= 1}
             /\ reorgs = 0

\* The blocks a node announces when its head becomes c and the chain up to
\* height k is what it was before: every block that is new on the chain, in order.
Announced(c, k) == [i \in 1..(Len(c) - k) |-> BlockAt(c, k + i)]

\* The node adopts a block on top of its head.
Extend(s) == /\ Len(chain) < MaxHeight
             /\ chain' = Append(chain, s)
             /\ UNCHANGED reorgs

\* The node abandons its chain above height k for another branch.
Switch(k, branch) ==
    /\ reorgs < MaxReorgs
    /\ k < Len(chain)
    /\ Len(chain) - k <= MaxDepth
    /\ k + Len(branch) <= MaxHeight
    /\ MayShrink \/ k + Len(branch) >= Len(chain)
    /\ branch[1] # chain[k + 1]
    /\ chain' = BlockAt(chain, k) \o branch
    /\ reorgs' = reorgs + 1
=============================================================================
