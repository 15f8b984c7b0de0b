---------------------------- MODULE IndexerProofs ----------------------------
(***************************************************************************)
(* Proofs about Indexer for every chain height, window, number of logs,    *)
(* faults, crashes and reorganisations, with and without a WebSocket.      *)
(*   1. the types, the order of the calls and the stream's continuity;     *)
(*   2. what the store promises: it implements EventStore; in it and in    *)
(*      the detector's window neighbours are linked when polling; when no  *)
(*      block is replaced behind HandleReorg's back; the checkpoint has no *)
(*      hole below it;                                                     *)
(*   3. a store that has caught up over an undisturbed subscription is the *)
(*      node's chain.                                                      *)
(***************************************************************************)
EXTENDS IndexerRefinement, SequenceTheorems, FiniteSetTheorems, TLAPS

-----------------------------------------------------------------------------
(* Blocks, chains and maps of blocks.                                      *)

\* A block is a sequence of salts whose length is its number.
LEMMA BlockIsSeq ==
    \A b : b \in Blocks <=> b \in Seq(Salt) /\ Len(b) \in 1..MaxHeight
<1> USE ChainAssumption
<1>1. ASSUME NEW b \in Blocks
      PROVE  b \in Seq(Salt) /\ Len(b) \in 1..MaxHeight
  <2>1. PICK n \in 1..MaxHeight : b \in [1..n -> Salt]
    BY DEF Blocks
  <2> QED BY <2>1
<1>2. ASSUME NEW b \in Seq(Salt), Len(b) \in 1..MaxHeight
      PROVE  b \in Blocks
  <2>1. b \in [1..Len(b) -> Salt]
    BY LenProperties
  <2> QED BY <2>1, <1>2 DEF Blocks
<1> QED BY <1>1, <1>2

LEMMA ChainIsSeq ==
    \A c : c \in Chains <=> c \in Seq(Salt) /\ Len(c) \in 0..MaxHeight
<1> USE ChainAssumption
<1>1. ASSUME NEW b \in Chains
      PROVE  b \in Seq(Salt) /\ Len(b) \in 0..MaxHeight
  <2>1. PICK n \in 0..MaxHeight : b \in [1..n -> Salt]
    BY DEF Chains
  <2> QED BY <2>1
<1>2. ASSUME NEW b \in Seq(Salt), Len(b) \in 0..MaxHeight
      PROVE  b \in Chains
  <2>1. b \in [1..Len(b) -> Salt]
    BY LenProperties
  <2> QED BY <2>1, <1>2 DEF Chains
<1> QED BY <1>1, <1>2

LEMMA BlocksAreChains == Blocks \subseteq Chains /\ <<>> \in Chains
<1>1. Blocks \subseteq Chains
  BY BlockIsSeq, ChainIsSeq, ChainAssumption
<1>2. <<>> \in Chains
  <2>1. <<>> \in Seq(Salt) /\ Len(<<>>) = 0
    OBVIOUS
  <2>2. Len(<<>>) \in 0..MaxHeight
    BY <2>1, ChainAssumption
  <2> QED BY <2>1, <2>2, ChainIsSeq, Zenon
<1> QED BY <1>1, <1>2

\* The prefix of a chain is its block at that height.
LEMMA BlockAtType ==
    ASSUME NEW c \in Seq(Salt), NEW n \in 0..Len(c)
    PROVE  /\ BlockAt(c, n) \in Seq(Salt)
           /\ Len(BlockAt(c, n)) = n
<1>1. \A i \in 1..n : c[i] \in Salt
  BY ElementOfSeq
<1>2. n \in Int /\ 1 \in Int
  BY LenProperties
<1> QED BY <1>1, <1>2, SubSeqProperties DEF BlockAt

LEMMA AnnouncedType ==
    ASSUME NEW c \in Chains, NEW k \in Nat
    PROVE  Announced(c, k) \in Seq(Blocks)
<1>1. c \in Seq(Salt) /\ Len(c) \in 0..MaxHeight
  BY ChainIsSeq
<1>2. ASSUME NEW i \in 1..(Len(c) - k)
      PROVE  BlockAt(c, k + i) \in Blocks
  <2>1. k + i \in 1..Len(c)
    BY <1>1, ChainAssumption
  <2>2. BlockAt(c, k + i) \in Seq(Salt) /\ Len(BlockAt(c, k + i)) = k + i
    BY <1>1, <2>1, BlockAtType
  <2> QED BY <1>1, <2>1, <2>2, BlockIsSeq, ChainAssumption
<1>3. CASE Len(c) >= k
  <2>1. Len(c) - k \in Nat
    BY <1>1, <1>3, ChainAssumption
  <2> QED BY <1>2, <2>1 DEF Announced
<1>4. CASE Len(c) < k
  <2>1. 1..(Len(c) - k) = 1..0
    BY <1>1, <1>4, ChainAssumption
  <2>2. Announced(c, k) = [i \in 1..0 |-> BlockAt(c, k + i)]
    BY <2>1 DEF Announced
  <2> QED BY <2>2
<1> QED BY <1>1, <1>3, <1>4, ChainAssumption

\* What membership in BlockMaps means.
LEMMA BlockMapDef ==
    ASSUME NEW f
    PROVE  f \in BlockMaps <=>
             /\ f = [n \in DOMAIN f |-> f[n]]
             /\ DOMAIN f \subseteq 1..MaxHeight
             /\ \A n \in DOMAIN f : f[n] \in Blocks /\ Number(f[n]) = n
BY DEF BlockMaps

LEMMA PutType ==
    ASSUME NEW f \in BlockMaps, NEW b \in Blocks
    PROVE  /\ Put(f, b) \in BlockMaps
           /\ DOMAIN Put(f, b) = DOMAIN f \cup {Number(b)}
           /\ Put(f, b)[Number(b)] = b
           /\ \A n \in DOMAIN f : n # Number(b) => Put(f, b)[n] = f[n]
<1>1. Number(b) \in 1..MaxHeight
  BY BlockIsSeq DEF Number
<1>2. /\ DOMAIN f \subseteq 1..MaxHeight
      /\ \A n \in DOMAIN f : f[n] \in Blocks /\ Number(f[n]) = n
  BY BlockMapDef
<1>3. /\ DOMAIN Put(f, b) = DOMAIN f \cup {Number(b)}
      /\ Put(f, b)[Number(b)] = b
      /\ \A n \in DOMAIN f : n # Number(b) => Put(f, b)[n] = f[n]
      /\ Put(f, b) = [n \in DOMAIN Put(f, b) |-> Put(f, b)[n]]
  BY DEF Put
<1>4. Put(f, b) \in BlockMaps
  BY <1>1, <1>2, <1>3, BlockMapDef
<1> QED BY <1>3, <1>4

LEMMA KeepType ==
    ASSUME NEW f \in BlockMaps, NEW D
    PROVE  /\ Keep(f, D) \in BlockMaps
           /\ DOMAIN Keep(f, D) = DOMAIN f \cap D
           /\ \A n \in DOMAIN f \cap D : Keep(f, D)[n] = f[n]
<1>1. /\ DOMAIN f \subseteq 1..MaxHeight
      /\ \A n \in DOMAIN f : f[n] \in Blocks /\ Number(f[n]) = n
  BY BlockMapDef
<1>2. /\ DOMAIN Keep(f, D) = DOMAIN f \cap D
      /\ \A n \in DOMAIN f \cap D : Keep(f, D)[n] = f[n]
      /\ Keep(f, D) = [n \in DOMAIN Keep(f, D) |-> Keep(f, D)[n]]
  BY DEF Keep
<1>3. Keep(f, D) \in BlockMaps
  BY <1>1, <1>2, BlockMapDef
<1> QED BY <1>2, <1>3

LEMMA RecordBlockType ==
    ASSUME NEW f \in BlockMaps, NEW b \in Blocks
    PROVE  RecordBlock(f, b) \in BlockMaps
BY PutType, KeepType DEF RecordBlock

LEMMA RollbackType ==
    ASSUME NEW f \in BlockMaps, NEW n
    PROVE  Rollback(f, n) \in BlockMaps
BY KeepType DEF Rollback

LEMMA NoBlocksType == NoBlocks \in BlockMaps /\ DOMAIN NoBlocks = {}
BY BlockMapDef DEF NoBlocks
-----------------------------------------------------------------------------
(* The listener keeps its types, and asks the node for positive numbers.   *)

ListenerInv == ListenerTypeOK /\ NextPositive

LEMMA PushType ==
    ASSUME ListenerTypeOK, NEW b \in Blocks, Push(b)
    PROVE  out' \in Seq(Blocks) /\ Len(out') <= OutCap /\ sent' \subseteq 1..MaxHeight
<1> USE DEF ListenerTypeOK, Push
<1>1. Number(b) \in 1..MaxHeight
  BY BlockIsSeq DEF Number
<1>2. out' \in Seq(Blocks) /\ Len(out') = Len(out) + 1
  BY AppendProperties
<1>3. Len(out) \in Nat /\ OutCap \in Nat
  BY ListenerAssumption, LenProperties
<1>4. Len(out') <= OutCap
  BY <1>2, <1>3
<1>5. sent' \subseteq 1..MaxHeight
  BY <1>1, Zenon
<1> QED BY <1>2, <1>4, <1>5, Zenon

LEMMA NodeMovesType ==
    ASSUME ChainTypeOK, ListenerInv, NodeStep
    PROVE  ChainTypeOK' /\ ListenerInv'
<1> USE ChainAssumption
<1>0. chain \in Seq(Salt) /\ Len(chain) \in 0..MaxHeight
  BY ChainIsSeq DEF ChainTypeOK
<1>1. ASSUME chain' \in Chains, NEW k \in Nat, Announce(k)
      PROVE  ListenerInv'
  <2>1. Announced(chain', k) \in Seq(Blocks)
    BY <1>1, AnnouncedType
  <2>2. wsq' \in Seq(Blocks)
    BY <1>1, <2>1, ConcatProperties DEF Announce, ListenerInv, ListenerTypeOK
  <2> QED BY <1>1, <2>2 DEF Announce, ListenerInv, ListenerTypeOK, NextPositive
<1>2. ASSUME NEW s \in Salt, Mine(s)
      PROVE  ChainTypeOK' /\ ListenerInv'
  <2>1. chain' \in Seq(Salt) /\ Len(chain') = Len(chain) + 1
    BY <1>0, <1>2, AppendProperties DEF Mine, Extend
  <2>2. Len(chain') \in 0..MaxHeight
    BY <1>0, <1>2, <2>1 DEF Mine, Extend
  <2>3. chain' \in Chains
    BY <2>1, <2>2, ChainIsSeq
  <2> QED BY <1>0, <1>1, <1>2, <2>3 DEF Mine, Extend, ChainTypeOK
<1>3. ASSUME NEW k \in 0..MaxHeight, NEW branch \in Blocks, Reorg(k, branch)
      PROVE  ChainTypeOK' /\ ListenerInv'
  <2>1. branch \in Seq(Salt) /\ Len(branch) \in 1..MaxHeight
    BY BlockIsSeq
  <2>2. k \in 0..Len(chain)
    BY <1>0, <1>3 DEF Reorg, Switch
  <2>3. BlockAt(chain, k) \in Seq(Salt) /\ Len(BlockAt(chain, k)) = k
    BY <1>0, <2>2, BlockAtType
  <2>4. chain' \in Seq(Salt) /\ Len(chain') = k + Len(branch)
    <3>1. chain' = BlockAt(chain, k) \o branch
      BY <1>3 DEF Reorg, Switch
    <3>2. /\ BlockAt(chain, k) \o branch \in Seq(Salt)
          /\ Len(BlockAt(chain, k) \o branch) = Len(BlockAt(chain, k)) + Len(branch)
      BY <2>1, <2>3, ConcatProperties, Zenon
    <3> QED BY <2>3, <3>1, <3>2, Zenon
  <2>5. Len(chain') \in 0..MaxHeight
    BY <1>3, <2>1, <2>4 DEF Reorg, Switch
  <2>6. chain' \in Chains
    BY <2>4, <2>5, ChainIsSeq
  <2>7. reorgs' \in 0..MaxReorgs
    BY <1>3 DEF Reorg, Switch, ChainTypeOK
  <2> QED BY <1>1, <1>3, <2>6, <2>7 DEF Reorg, ChainTypeOK
<1> QED BY <1>2, <1>3 DEF NodeStep

LEMMA OpenType ==
    ASSUME ListenerInv, NEW s \in 1..(MaxHeight + 1), Open(s)
    PROVE  ListenerInv'
BY ChainAssumption DEF ListenerInv, ListenerTypeOK, NextPositive, ListenerPC, Open

LEMMA ReceiveType ==
    ASSUME ListenerInv, Receive
    PROVE  ListenerInv' /\ Head(out) \in Blocks
<1>1. /\ Head(out) \in Blocks
      /\ Tail(out) \in Seq(Blocks)
      /\ Len(Tail(out)) = Len(out) - 1
  BY HeadTailProperties DEF ListenerInv, ListenerTypeOK, Receive
<1>2. Len(out) \in Nat /\ OutCap \in Nat
  BY ListenerAssumption, LenProperties DEF ListenerInv, ListenerTypeOK
<1> QED BY <1>1, <1>2 DEF ListenerInv, ListenerTypeOK, NextPositive, Receive

LEMMA ListenerMovesType ==
    ASSUME ChainTypeOK, ListenerInv, ListenerStep \/ SubscriptionError
    PROVE  ListenerInv'
<1> USE ChainAssumption, ListenerAssumption
<1> USE DEF ListenerInv, ListenerTypeOK, NextPositive, ListenerPC, Fault
<1>0. chain \in Seq(Salt) /\ Len(chain) \in 0..MaxHeight
  BY ChainIsSeq DEF ChainTypeOK
<1>a. ASSUME next >= 1, next <= Len(chain)
      PROVE  BlockAt(chain, next) \in Blocks
  <2>1. next \in 0..Len(chain)
    BY <1>0, <1>a
  <2>2. BlockAt(chain, next) \in Seq(Salt) /\ Len(BlockAt(chain, next)) = next
    BY <1>0, <2>1, BlockAtType
  <2> QED BY <1>0, <1>a, <2>2, BlockIsSeq
<1>1. CASE SubscribeNewHead
  BY <1>1 DEF SubscribeNewHead
<1>2. CASE SubscribeNewHeadFails
  BY <1>2 DEF SubscribeNewHeadFails
<1>3. CASE BackfillStart
  BY <1>0, <1>3 DEF BackfillStart
<1>4. CASE BackfillSkipped
  BY <1>4 DEF BackfillSkipped
<1>5. CASE BackfillBlock
  <2>1. out' \in Seq(Blocks) /\ Len(out') <= OutCap /\ sent' \subseteq 1..MaxHeight
    BY <1>5, <1>a, PushType DEF BackfillBlock
  <2> QED BY <1>5, <2>1 DEF BackfillBlock
<1>6. CASE BackfillBreak
  BY <1>6 DEF BackfillBreak
<1>7. CASE BackfillDone
  BY <1>7 DEF BackfillDone
<1>8. CASE LiveHeader
  <2>1. Head(wsq) \in Blocks /\ Tail(wsq) \in Seq(Blocks)
    BY <1>8, HeadTailProperties DEF LiveHeader
  <2>2. out' \in Seq(Blocks) /\ Len(out') <= OutCap /\ sent' \subseteq 1..MaxHeight
    BY <1>8, <2>1, PushType DEF LiveHeader
  <2> QED BY <1>8, <2>1, <2>2 DEF LiveHeader
<1>9. CASE PollTick
  BY <1>0, <1>9 DEF PollTick
<1>10. CASE PollBlock
  <2>1. out' \in Seq(Blocks) /\ Len(out') <= OutCap /\ sent' \subseteq 1..MaxHeight
    BY <1>10, <1>a, PushType DEF PollBlock
  <2> QED BY <1>10, <2>1 DEF PollBlock
<1>11. CASE PollBreak
  BY <1>11 DEF PollBreak
<1>12. CASE PollDone
  BY <1>12 DEF PollDone
<1>13. CASE SubscriptionError
  BY <1>13 DEF SubscriptionError
<1> QED
  BY <1>1, <1>2, <1>3, <1>4, <1>5, <1>6, <1>7, <1>8, <1>9, <1>10, <1>11, <1>12, <1>13
     DEF ListenerStep
-----------------------------------------------------------------------------
(* The inductive invariant of the indexer.                                 *)

\* IndexerInv without what it says of the node and the listener.
MemTypeOK ==
    /\ pc \in IndexerPC
    /\ cur \in Chains
    /\ fork \in 0..MaxHeight
    /\ got \in Chains
    /\ li \in 0..(LogCount + 1)
    /\ hashes \in BlockMaps

StoreTypeOK ==
    /\ blocks \in BlockMaps
    /\ events \subseteq Events
    /\ sync \in 0..MaxHeight
    /\ published \subseteq Events

BoundsOK == /\ opFaults \in 0..MaxOpFaults
            /\ crashes \in 0..MaxCrashes

CoreInv == /\ BlockInHand
           /\ LogInHand
           /\ StoredInHand
           /\ EventsGone
           /\ EventsHaveBlocks

LEMMA IndexerInvParts ==
    IndexerInv <=> /\ ChainTypeOK /\ ListenerInv
                   /\ MemTypeOK /\ StoreTypeOK /\ BoundsOK
                   /\ CoreInv
BY DEF IndexerInv, IndexerTypeOK, ListenerInv, MemTypeOK, StoreTypeOK, BoundsOK, CoreInv

LEMMA IndexerInvPartsNext ==
    IndexerInv' <=> /\ ChainTypeOK' /\ ListenerInv'
                    /\ MemTypeOK' /\ StoreTypeOK' /\ BoundsOK'
                    /\ CoreInv'
BY DEF IndexerInv, IndexerTypeOK, ListenerInv, MemTypeOK, StoreTypeOK, BoundsOK, CoreInv

LEMMA NetUnchanged ==
    ASSUME ChainTypeOK, ListenerInv, UNCHANGED netVars
    PROVE  ChainTypeOK' /\ ListenerInv'
BY DEF netVars, chainVars, listenerVars, ChainTypeOK, ListenerInv, ListenerTypeOK, NextPositive

LEMMA OwnUnchanged ==
    ASSUME MemTypeOK, StoreTypeOK, BoundsOK, CoreInv,
           UNCHANGED <<memVars, storeVars, opFaults, crashes>>
    PROVE  MemTypeOK' /\ StoreTypeOK' /\ BoundsOK' /\ CoreInv'
BY DEF memVars, storeVars, MemTypeOK, StoreTypeOK, BoundsOK, CoreInv, BlockInHand,
       LogInHand, MoreLogs, StoredInHand, EventsGone, EventsHaveBlocks

LEMMA IndexerInvInit == IndexerInit => IndexerInv
<1> SUFFICES ASSUME IndexerInit PROVE IndexerInv
  OBVIOUS
<1> USE ChainAssumption, ListenerAssumption, IndexerAssumption DEF IndexerInit, NetInit
<1>1. ChainTypeOK
  BY DEF ChainInit, ChainTypeOK
<1>2. ListenerInv
  BY EmptySeq DEF ListenerInit, ListenerInv, ListenerTypeOK, NextPositive, ListenerPC
<1>3. MemTypeOK
  BY BlocksAreChains, NoBlocksType DEF MemTypeOK, IndexerPC
<1>4. StoreTypeOK
  BY NoBlocksType DEF StoreTypeOK
<1>5. BoundsOK
  BY DEF BoundsOK
<1>6. CoreInv
  BY DEF CoreInv, BlockInHand, LogInHand, StoredInHand, EventsGone, EventsHaveBlocks
<1> QED BY <1>1, <1>2, <1>3, <1>4, <1>5, <1>6, IndexerInvParts

\* The steps of runChain.
LEMMA IndexerStepInv ==
    ASSUME IndexerInv, IndexerStep
    PROVE  IndexerInv'
<1> USE ChainAssumption, IndexerAssumption
<1>a. /\ ChainTypeOK /\ ListenerInv
      /\ MemTypeOK /\ StoreTypeOK /\ BoundsOK
      /\ CoreInv
  BY IndexerInvParts
<1> USE DEF MemTypeOK, StoreTypeOK, BoundsOK, IndexerPC, storeVars, OpFault
<1>b. ASSUME UNCHANGED netVars, MemTypeOK', StoreTypeOK', BoundsOK', CoreInv'
      PROVE  IndexerInv'
  BY <1>a, <1>b, NetUnchanged, IndexerInvPartsNext
<1>n. \A b \in Blocks : Number(b) \in 1..MaxHeight
  BY BlockIsSeq DEF Number
<1>e. \A e \in Events : e.block \in Blocks
  BY DEF Events
<1>d. ASSUME pc # "boot", Drop PROVE IndexerInv'
  <2>1. MemTypeOK' /\ StoreTypeOK' /\ BoundsOK' /\ UNCHANGED netVars
    BY <1>a, <1>d DEF Drop
  <2>2. CoreInv'
    BY <1>a, <1>d DEF Drop, CoreInv, BlockInHand, LogInHand, StoredInHand, EventsGone,
                      EventsHaveBlocks
  <2> QED BY <2>1, <2>2, <1>b
<1>1. CASE GetSyncStatus \/ GetSyncStatusFails
  <2>1. ListenerInv'
    BY <1>1, <1>a, OpenType DEF GetSyncStatus, GetSyncStatusFails
  <2>2. ChainTypeOK'
    BY <1>1, <1>a DEF GetSyncStatus, GetSyncStatusFails, chainVars, ChainTypeOK
  <2>3. MemTypeOK' /\ StoreTypeOK' /\ BoundsOK'
    BY <1>1, <1>a DEF GetSyncStatus, GetSyncStatusFails
  <2>4. CoreInv'
    BY <1>1, <1>a DEF GetSyncStatus, GetSyncStatusFails, CoreInv, BlockInHand, LogInHand,
                      StoredInHand, EventsGone, EventsHaveBlocks
  <2> QED BY <2>1, <2>2, <2>3, <2>4, IndexerInvPartsNext
<1>2. CASE ReceiveLinked \/ ReceiveReorg
  <2>1. ListenerInv' /\ Head(out) \in Blocks
    BY <1>2, <1>a, ReceiveType DEF ReceiveLinked, ReceiveReorg
  <2>2. ChainTypeOK'
    BY <1>2, <1>a DEF ReceiveLinked, ReceiveReorg, chainVars, ChainTypeOK
  <2>3. RecordBlock(hashes, Head(out)) \in BlockMaps
    BY <1>a, <2>1, RecordBlockType
  <2>4. ForkBlock(hashes, Head(out)) \in 0..MaxHeight
    BY <2>1, <1>n DEF ForkBlock
  <2>5. MemTypeOK' /\ StoreTypeOK' /\ BoundsOK'
    BY <1>2, <1>a, <2>1, <2>3, <2>4, BlocksAreChains DEF ReceiveLinked, ReceiveReorg
  <2>6. CoreInv'
    BY <1>2, <1>a, <2>1 DEF ReceiveLinked, ReceiveReorg, CoreInv, BlockInHand, LogInHand,
                            StoredInHand, EventsGone, EventsHaveBlocks
  <2> QED BY <2>1, <2>2, <2>5, <2>6, IndexerInvPartsNext
<1>3. CASE DeleteEventsFromBlock
  <2>1. MemTypeOK' /\ StoreTypeOK' /\ BoundsOK' /\ UNCHANGED netVars
    BY <1>3, <1>a DEF DeleteEventsFromBlock
  <2>2. CoreInv'
    BY <1>3, <1>a DEF DeleteEventsFromBlock, CoreInv, BlockInHand, LogInHand, StoredInHand,
                      EventsGone, EventsHaveBlocks
  <2> QED BY <2>1, <2>2, <1>b
<1>4. CASE DeleteBlocksFromBlock
  <2>1. /\ blocks' \in BlockMaps
        /\ DOMAIN blocks' = DOMAIN blocks \cap {n \in DOMAIN blocks : n < fork}
    BY <1>4, <1>a, KeepType DEF DeleteBlocksFromBlock
  <2>2. MemTypeOK' /\ StoreTypeOK' /\ BoundsOK' /\ UNCHANGED netVars
    BY <1>4, <1>a, <2>1 DEF DeleteBlocksFromBlock
  <2>3. EventsHaveBlocks'
    BY <1>4, <1>a, <2>1 DEF DeleteBlocksFromBlock, CoreInv, EventsGone, EventsHaveBlocks
  <2>4. CoreInv'
    BY <1>4, <1>a, <2>3 DEF DeleteBlocksFromBlock, CoreInv, BlockInHand, LogInHand,
                            StoredInHand, EventsGone
  <2> QED BY <2>2, <2>4, <1>b
<1>5. CASE RollSyncStatus
  <2>1. cur \in Blocks
    BY <1>5, <1>a DEF RollSyncStatus, CoreInv, BlockInHand
  <2>2. hashes' \in BlockMaps
    BY <1>5, <1>a, <2>1, RecordBlockType, RollbackType DEF RollSyncStatus
  <2>3. MemTypeOK' /\ StoreTypeOK' /\ BoundsOK' /\ UNCHANGED netVars
    BY <1>5, <1>a, <2>2 DEF RollSyncStatus
  <2>4. CoreInv'
    BY <1>5, <1>a DEF RollSyncStatus, CoreInv, BlockInHand, LogInHand, StoredInHand,
                      EventsGone, EventsHaveBlocks
  <2> QED BY <2>3, <2>4, <1>b
<1>6. CASE SaveBlock
  <2>1. cur \in Blocks
    BY <1>6, <1>a DEF SaveBlock, CoreInv, BlockInHand
  <2>2. blocks' \in BlockMaps /\ DOMAIN blocks' = DOMAIN blocks \cup {Number(cur)}
    BY <1>6, <1>a, <2>1, PutType DEF SaveBlock
  <2>3. MemTypeOK' /\ StoreTypeOK' /\ BoundsOK' /\ UNCHANGED netVars
    BY <1>6, <1>a, <2>2 DEF SaveBlock
  <2>4. EventsHaveBlocks'
    BY <1>6, <1>a, <2>2 DEF SaveBlock, CoreInv, EventsHaveBlocks
  <2>5. CoreInv'
    BY <1>6, <1>a, <2>2, <2>4 DEF SaveBlock, CoreInv, BlockInHand, LogInHand, StoredInHand,
                                  EventsGone
  <2> QED BY <2>3, <2>5, <1>b
<1>7. CASE UpdateSyncStatus
  <2>1. Number(cur) \in 1..MaxHeight
    BY <1>7, <1>a, <1>n DEF UpdateSyncStatus, CoreInv, BlockInHand
  <2>2. MemTypeOK' /\ StoreTypeOK' /\ BoundsOK' /\ UNCHANGED netVars
    BY <1>7, <1>a, <2>1 DEF UpdateSyncStatus
  <2>3. CoreInv'
    BY <1>7, <1>a DEF UpdateSyncStatus, CoreInv, BlockInHand, LogInHand, StoredInHand,
                      EventsGone, EventsHaveBlocks
  <2> QED BY <2>2, <2>3, <1>b
<1>8. CASE FilterLogs
  <2>1. chain \in Seq(Salt) /\ Len(chain) \in 0..MaxHeight
    BY <1>a, ChainIsSeq DEF ChainTypeOK
  <2>2. cur \in Blocks /\ Number(cur) \in 1..MaxHeight
    BY <1>8, <1>a, <1>n DEF FilterLogs, CoreInv, BlockInHand
  <2>3. got' \in Chains /\ Number(got') \in {0, Number(cur)}
    <3>1. CASE Number(cur) <= Len(chain)
      <4>1. Number(cur) \in 0..Len(chain)
        BY <2>1, <2>2, <3>1
      <4>2. got' = BlockAt(chain, Number(cur))
        BY <1>8, <3>1 DEF FilterLogs
      <4>3. got' \in Seq(Salt) /\ Len(got') = Number(cur)
        BY <2>1, <4>1, <4>2, BlockAtType
      <4>4. Len(got') \in 0..MaxHeight
        BY <2>2, <4>3
      <4> QED BY <4>3, <4>4, ChainIsSeq DEF Number
    <3>2. CASE ~(Number(cur) <= Len(chain))
      <4>1. got' = <<>> /\ Len(<<>>) = 0
        BY <1>8, <3>2 DEF FilterLogs
      <4> QED BY <4>1, BlocksAreChains DEF Number
    <3> QED BY <3>1, <3>2
  <2>4. MemTypeOK' /\ StoreTypeOK' /\ BoundsOK' /\ UNCHANGED netVars
    BY <1>8, <1>a, <2>3 DEF FilterLogs
  <2>5. CoreInv'
    BY <1>8, <1>a, <2>3 DEF FilterLogs, CoreInv, BlockInHand, LogInHand, StoredInHand,
                            EventsGone, EventsHaveBlocks
  <2> QED BY <2>4, <2>5, <1>b
<1>9. CASE SkipLog \/ SaveEventFails
  <2>1. MemTypeOK' /\ StoreTypeOK' /\ BoundsOK' /\ UNCHANGED netVars
    BY <1>9, <1>a DEF SkipLog, SaveEventFails, MoreLogs
  <2>2. CoreInv'
    BY <1>9, <1>a DEF SkipLog, SaveEventFails, CoreInv, BlockInHand, LogInHand, StoredInHand,
                      EventsGone, EventsHaveBlocks
  <2> QED BY <2>1, <2>2, <1>b
<1>10. CASE SaveEvent
  <2>1. got \in Seq(Salt) /\ Len(got) \in 0..MaxHeight /\ got # <<>>
    BY <1>10, <1>a, ChainIsSeq DEF SaveEvent, MoreLogs
  <2>2. Len(got) \in 1..MaxHeight
    BY <2>1, EmptySeq
  <2>3. got \in Blocks /\ Number(got) = Number(cur)
    BY <1>10, <1>a, <2>1, <2>2, BlockIsSeq DEF SaveEvent, CoreInv, LogInHand, Number
  <2>4. li \in 1..LogCount
    BY <1>10, <1>a DEF SaveEvent, MoreLogs, CoreInv, LogInHand
  <2>5. Event \in Events /\ Event.block = got
    BY <2>3, <2>4 DEF Event, Events
  <2>6. MemTypeOK' /\ StoreTypeOK' /\ BoundsOK' /\ UNCHANGED netVars
    BY <1>10, <1>a, <2>5 DEF SaveEvent
  <2>7. EventsHaveBlocks'
    BY <1>10, <1>a, <2>3, <2>5 DEF SaveEvent, CoreInv, StoredInHand, EventsHaveBlocks
  <2>8. CoreInv'
    BY <1>10, <1>a, <2>7 DEF SaveEvent, CoreInv, BlockInHand, LogInHand, MoreLogs,
                             StoredInHand, EventsGone
  <2> QED BY <2>6, <2>8, <1>b
<1>11. CASE Publish \/ PublishFails
  <2>1. got \in Seq(Salt) /\ Len(got) \in 0..MaxHeight /\ got # <<>>
    BY <1>11, <1>a, ChainIsSeq DEF Publish, PublishFails, CoreInv, LogInHand, MoreLogs
  <2>2. Len(got) \in 1..MaxHeight
    BY <2>1, EmptySeq
  <2>3. got \in Blocks /\ li \in 1..LogCount
    BY <1>11, <1>a, <2>1, <2>2, BlockIsSeq
       DEF Publish, PublishFails, CoreInv, LogInHand, MoreLogs
  <2>4. Event \in Events
    BY <2>3 DEF Event, Events
  <2>5. MemTypeOK' /\ StoreTypeOK' /\ BoundsOK' /\ UNCHANGED netVars
    BY <1>11, <1>a, <2>3, <2>4 DEF Publish, PublishFails
  <2>6. CoreInv'
    BY <1>11, <1>a, <2>3 DEF Publish, PublishFails, CoreInv, BlockInHand, LogInHand,
                             StoredInHand, EventsGone, EventsHaveBlocks
  <2> QED BY <2>5, <2>6, <1>b
<1>12. CASE BlockIndexed
  <2>1. MemTypeOK' /\ StoreTypeOK' /\ BoundsOK' /\ UNCHANGED netVars
    BY <1>12, <1>a, BlocksAreChains DEF BlockIndexed
  <2>2. CoreInv'
    BY <1>12, <1>a DEF BlockIndexed, CoreInv, BlockInHand, LogInHand, StoredInHand,
                       EventsGone, EventsHaveBlocks
  <2> QED BY <2>1, <2>2, <1>b
<1>13. CASE HandleReorgFails \/ ProcessBlockFails \/ FilterLogsFails
  BY <1>13, <1>d DEF HandleReorgFails, ProcessBlockFails, FilterLogsFails
<1> QED
  BY <1>1, <1>2, <1>3, <1>4, <1>5, <1>6, <1>7, <1>8, <1>9, <1>10, <1>11, <1>12, <1>13
     DEF IndexerStep

\* Every step of the system.
LEMMA IndexerNextInv ==
    ASSUME IndexerInv, [IndexerNext]_vars
    PROVE  IndexerInv'
<1>a. /\ ChainTypeOK /\ ListenerInv
      /\ MemTypeOK /\ StoreTypeOK /\ BoundsOK
      /\ CoreInv
  BY IndexerInvParts
<1>1. CASE NodeMoves
  <2>1. ChainTypeOK' /\ ListenerInv'
    BY <1>1, <1>a, NodeMovesType DEF NodeMoves
  <2>2. MemTypeOK' /\ StoreTypeOK' /\ BoundsOK' /\ CoreInv'
    BY <1>1, <1>a, OwnUnchanged DEF NodeMoves
  <2> QED BY <2>1, <2>2, IndexerInvPartsNext
<1>2. CASE ListenerMoves \/ SubscriptionDrops
  <2>1. ListenerInv'
    BY <1>2, <1>a, ListenerMovesType DEF ListenerMoves, SubscriptionDrops
  <2>2. ChainTypeOK'
    BY <1>2, <1>a DEF ListenerMoves, SubscriptionDrops, chainVars, ChainTypeOK
  <2>3. MemTypeOK' /\ StoreTypeOK' /\ BoundsOK' /\ CoreInv'
    BY <1>2, <1>a, OwnUnchanged DEF ListenerMoves, SubscriptionDrops
  <2> QED BY <2>1, <2>2, <2>3, IndexerInvPartsNext
<1>3. CASE IndexerStep
  BY <1>3, IndexerStepInv
<1>4. CASE Restart
  <2> USE ChainAssumption, ListenerAssumption, IndexerAssumption
  <2>1. ChainTypeOK'
    BY <1>4, <1>a DEF Restart, chainVars, ChainTypeOK
  <2>2. ListenerInv'
    BY <1>4, <1>a, EmptySeq DEF Restart, ListenerInv, ListenerTypeOK, NextPositive, ListenerPC
  <2>3. MemTypeOK'
    BY <1>4, BlocksAreChains, NoBlocksType DEF Restart, MemTypeOK, IndexerPC
  <2>4. StoreTypeOK' /\ BoundsOK'
    BY <1>4, <1>a DEF Restart, storeVars, StoreTypeOK, BoundsOK
  <2>5. CoreInv'
    BY <1>4, <1>a DEF Restart, storeVars, CoreInv, BlockInHand, LogInHand, StoredInHand,
                      EventsGone, EventsHaveBlocks
  <2> QED BY <2>1, <2>2, <2>3, <2>4, <2>5, IndexerInvPartsNext
<1>5. CASE UNCHANGED vars
  <2>1. UNCHANGED netVars /\ UNCHANGED <<memVars, storeVars, opFaults, crashes>>
    BY <1>5 DEF vars
  <2> QED BY <1>a, <2>1, NetUnchanged, OwnUnchanged, IndexerInvPartsNext
<1> QED BY <1>1, <1>2, <1>3, <1>4, <1>5 DEF IndexerNext

THEOREM IndexerInvariant == IndexerSpec => []IndexerInv
<1>1. IndexerInit => IndexerInv
  BY IndexerInvInit
<1>2. IndexerInv /\ [IndexerNext]_vars => IndexerInv'
  BY IndexerNextInv
<1> QED BY <1>1, <1>2, PTL DEF IndexerSpec

\* Type correctness of the node, the listener, the indexer's memory and the
\* store, for any number of reorganisations, faults and restarts.
THEOREM IndexerTypeCorrect == IndexerSpec => []IndexerTypeOK
<1>1. IndexerInv => IndexerTypeOK
  BY DEF IndexerInv
<1> QED BY <1>1, IndexerInvariant, PTL

\* No event without its block, wherever a store call fails or the process stops:
\* HandleReorg deletes events before blocks, ProcessBlock stores the block first.
THEOREM NoOrphanEvents == IndexerSpec => []EventsHaveBlocks
<1>1. IndexerInv => EventsHaveBlocks
  BY DEF IndexerInv
<1> QED BY <1>1, IndexerInvariant, PTL
-----------------------------------------------------------------------------
(* The stream of headers has no hole.                                      *)

LEMMA ConcatAt ==
    ASSUME NEW S, NEW q \in Seq(S), NEW a \in Seq(S)
    PROVE  /\ q \o a \in Seq(S)
           /\ Len(q \o a) = Len(q) + Len(a)
           /\ \A i \in 1..Len(q) : (q \o a)[i] = q[i]
           /\ \A i \in 1..Len(a) : (q \o a)[Len(q) + i] = a[i]
<1>1. Len(q) \in Nat /\ Len(a) \in Nat
  BY LenProperties
<1>2. /\ q \o a \in Seq(S)
      /\ Len(q \o a) = Len(q) + Len(a)
      /\ \A i \in 1..(Len(q) + Len(a)) :
            (q \o a)[i] = IF i <= Len(q) THEN q[i] ELSE a[i - Len(q)]
  BY ConcatProperties, Zenon
<1>3. ASSUME NEW i \in 1..Len(q) PROVE (q \o a)[i] = q[i]
  BY <1>1, <1>2
<1>4. ASSUME NEW i \in 1..Len(a) PROVE (q \o a)[Len(q) + i] = a[i]
  <2>1. /\ Len(q) + i \in 1..(Len(q) + Len(a))
        /\ ~(Len(q) + i <= Len(q)) /\ Len(q) + i - Len(q) = i
    BY <1>1
  <2> QED BY <1>2, <2>1
<1> QED BY <1>2, <1>3, <1>4

\* The announcement of the blocks above height k, one number after the other.
LEMMA AnnouncedAt ==
    ASSUME NEW c \in Chains, NEW k \in 0..Len(c)
    PROVE  /\ Len(Announced(c, k)) = Len(c) - k
           /\ \A i \in 1..(Len(c) - k) :
                 /\ Announced(c, k)[i] = BlockAt(c, k + i)
                 /\ Number(Announced(c, k)[i]) = k + i
<1>1. c \in Seq(Salt) /\ Len(c) \in Nat /\ k \in Nat /\ Len(c) - k \in Nat
  BY ChainIsSeq, ChainAssumption
<1>2. Len(Announced(c, k)) = Len(c) - k
  BY <1>1 DEF Announced
<1>3. ASSUME NEW i \in 1..(Len(c) - k)
      PROVE  Announced(c, k)[i] = BlockAt(c, k + i) /\ Number(Announced(c, k)[i]) = k + i
  <2>1. Announced(c, k)[i] = BlockAt(c, k + i)
    BY DEF Announced
  <2>2. k + i \in 0..Len(c)
    BY <1>1
  <2>3. Len(BlockAt(c, k + i)) = k + i
    BY <1>1, <2>2, BlockAtType
  <2> QED BY <2>1, <2>3 DEF Number
<1> QED BY <1>2, <1>3

\* The two prefixes of a sequence that was cut at k and continued agree up to k.
LEMMA PrefixKept ==
    ASSUME NEW c \in Seq(Salt), NEW d \in Seq(Salt), NEW k \in 0..Len(c), k <= Len(d),
           \A i \in 1..k : d[i] = c[i],
           NEW n \in 0..k
    PROVE  BlockAt(d, n) = BlockAt(c, n)
<1>1. /\ n \in Int /\ 1 \in Int /\ k \in Nat
      /\ Len(c) \in Nat /\ Len(d) \in Nat
      /\ n \in 0..Len(c) /\ n \in 0..Len(d)
  BY LenProperties
<1>2. /\ BlockAt(c, n) \in Seq(Salt) /\ Len(BlockAt(c, n)) = n
      /\ BlockAt(d, n) \in Seq(Salt) /\ Len(BlockAt(d, n)) = n
  BY <1>1, BlockAtType
<1>3. ASSUME NEW i \in 1..n
      PROVE  BlockAt(d, n)[i] = BlockAt(c, n)[i]
  BY <1>1, <1>3 DEF BlockAt
<1> QED BY <1>2, <1>3, SeqEqual

\* What the node may do: keep its chain up to some height k, announce what is above it,
\* and not end lower unless it may shrink.  Without a reorganisation k is the head.
LEMMA NodeKeepsPrefix ==
    ASSUME ChainTypeOK, NodeStep
    PROVE  /\ chain' \in Chains /\ reorgs' \in Nat /\ reorgs' >= reorgs
           /\ \E k \in 0..Len(chain) :
                /\ Announce(k)
                /\ k < Len(chain')
                /\ MayShrink => reorgs' > reorgs \/ Len(chain') >= Len(chain)
                /\ ~MayShrink => Len(chain') >= Len(chain)
                /\ reorgs' = reorgs => k = Len(chain)
                /\ Len(chain) - k <= MaxDepth
                /\ \A n \in 0..k : BlockAt(chain', n) = BlockAt(chain, n)
<1> USE ChainAssumption
<1>0. chain \in Seq(Salt) /\ Len(chain) \in 0..MaxHeight /\ reorgs \in Nat
  BY ChainIsSeq DEF ChainTypeOK
<1>1. CASE \E s \in Salt : Mine(s)
  <2>1. PICK s \in Salt : Mine(s)
    BY <1>1
  <2>2. /\ chain' \in Seq(Salt) /\ Len(chain') = Len(chain) + 1
        /\ \A i \in 1..Len(chain) : chain'[i] = chain[i]
    BY <1>0, <2>1, AppendProperties DEF Mine, Extend
  <2>3. chain' \in Chains
    <3>1. Len(chain') \in 0..MaxHeight
      BY <1>0, <2>1, <2>2 DEF Mine, Extend
    <3> QED BY <2>2, <3>1, ChainIsSeq
  <2>4. \A n \in 0..Len(chain) : BlockAt(chain', n) = BlockAt(chain, n)
    BY <1>0, <2>2, PrefixKept
  <2>5. Len(chain) \in 0..Len(chain) /\ Announce(Len(chain)) /\ reorgs' = reorgs
    BY <1>0, <2>1 DEF Mine, Extend
  <2> QED BY <1>0, <2>2, <2>3, <2>4, <2>5
<1>2. CASE \E k \in 0..MaxHeight, branch \in Blocks : Reorg(k, branch)
  <2>1. PICK k \in 0..MaxHeight, branch \in Blocks : Reorg(k, branch)
    BY <1>2
  <2>2. branch \in Seq(Salt) /\ Len(branch) \in 1..MaxHeight
    BY BlockIsSeq
  <2>3. /\ k < Len(chain) /\ k \in 0..Len(chain)
        /\ chain' = BlockAt(chain, k) \o branch
        /\ reorgs' = reorgs + 1 /\ Announce(k)
        /\ k + Len(branch) <= MaxHeight
        /\ MayShrink \/ k + Len(branch) >= Len(chain)
        /\ Len(chain) - k <= MaxDepth
    BY <1>0, <2>1 DEF Reorg, Switch
  <2>4. BlockAt(chain, k) \in Seq(Salt) /\ Len(BlockAt(chain, k)) = k
    BY <1>0, <2>3, BlockAtType
  <2>5. /\ chain' \in Seq(Salt) /\ Len(chain') = k + Len(branch)
        /\ \A i \in 1..k : chain'[i] = BlockAt(chain, k)[i]
    <3>1. PICK p \in Seq(Salt) : p = BlockAt(chain, k)
      BY <2>4
    <3>2. /\ p \o branch \in Seq(Salt) /\ Len(p \o branch) = Len(p) + Len(branch)
          /\ \A i \in 1..Len(p) : (p \o branch)[i] = p[i]
      BY <2>2, ConcatAt, Zenon
    <3>3. chain' = p \o branch /\ Len(p) = k
      BY <2>3, <2>4, <3>1
    <3> QED BY <3>1, <3>2, <3>3, Zenon
  <2>6. \A i \in 1..k : chain'[i] = chain[i]
    BY <1>0, <2>3, <2>5 DEF BlockAt
  <2>7. chain' \in Chains
    <3>1. Len(chain') \in 0..MaxHeight
      BY <2>2, <2>3, <2>5
    <3> QED BY <2>5, <3>1, ChainIsSeq
  <2>8. k <= Len(chain') /\ k < Len(chain')
    BY <2>2, <2>5
  <2>9. \A n \in 0..k : BlockAt(chain', n) = BlockAt(chain, n)
    BY <1>0, <2>3, <2>5, <2>6, <2>8, PrefixKept
  <2> QED BY <1>0, <2>2, <2>3, <2>5, <2>7, <2>8, <2>9
<1> QED BY <1>1, <1>2 DEF NodeStep

\* The queue r after the announcement of chain d above k was appended to q.
Appended(r, q, d, k) ==
    /\ Len(r) = Len(q) + (Len(d) - k)
    /\ \A i \in 1..Len(q) : r[i] = q[i]
    /\ \A i \in 1..(Len(d) - k) : r[Len(q) + i] = BlockAt(d, k + i)
    /\ \A i \in 1..(Len(d) - k) : Number(r[Len(q) + i]) = k + i

LEMMA AnnouncedQueue ==
    ASSUME NEW q \in Seq(Blocks), NEW d \in Chains, NEW k \in 0..Len(d)
    PROVE  Appended(q \o Announced(d, k), q, d, k)
<1>1. Len(d) \in Nat /\ Len(q) \in Nat /\ k \in Nat
  BY ChainIsSeq, ChainAssumption, LenProperties
<1>2. /\ Len(Announced(d, k)) = Len(d) - k
      /\ \A i \in 1..(Len(d) - k) : /\ Announced(d, k)[i] = BlockAt(d, k + i)
                                    /\ Number(Announced(d, k)[i]) = k + i
  BY AnnouncedAt, Zenon
<1>3. PICK a \in Seq(Blocks) : a = Announced(d, k)
  BY <1>1, AnnouncedType
<1>4. /\ Len(q \o a) = Len(q) + Len(a)
      /\ \A i \in 1..Len(q) : (q \o a)[i] = q[i]
      /\ \A i \in 1..Len(a) : (q \o a)[Len(q) + i] = a[i]
  BY ConcatAt
<1>5. PICK r : r = q \o a
  OBVIOUS
<1>6. Appended(r, q, d, k)
  BY <1>1, <1>2, <1>3, <1>4, <1>5 DEF Appended
<1> QED BY <1>3, <1>5, <1>6, Zenon

\* An announcement is covered by what was announced before it and by itself.
LEMMA AnnounceCovers ==
    ASSUME NEW q \in Seq(Blocks), NEW c \in Chains, NEW d \in Chains,
           NEW k \in 0..Len(c), k <= Len(d), NEW from \in Nat, NEW K,
           Follows(q, from, K), Reaches(q, from, K, Len(c)),
           NEW r, Appended(r, q, d, k)
    PROVE  Follows(r, from, K) /\ Reaches(r, from, K, Len(d))
<1>1. Len(c) \in Nat /\ Len(d) \in Nat /\ Len(q) \in Nat /\ k \in 0..Len(d)
  BY ChainIsSeq, ChainAssumption, LenProperties
<1>3. /\ Len(r) = Len(q) + (Len(d) - k)
      /\ \A i \in 1..Len(q) : r[i] = q[i]
      /\ \A i \in 1..(Len(d) - k) : Number(r[Len(q) + i]) = k + i
  BY DEF Appended
<1>5. ASSUME NEW i \in 1..Len(q)
      PROVE  Numbers(r, i) = Numbers(q, i)
  <2>1. \A j \in 1..i : r[j] = q[j]
    BY <1>1, <1>3, <1>5
  <2> QED BY <2>1 DEF Numbers
<1>6. ASSUME NEW i \in 0..(Len(d) - k), NEW m \in from..(k + i)
      PROVE  m \in K \cup Numbers(r, Len(q) + i)
  <2>1. CASE m <= k
    <3>1. m \in K \cup Numbers(q, Len(q))
      <4>1. m \in from..Len(c)
        BY <1>1, <1>6, <2>1
      <4> QED BY <4>1 DEF Reaches
    <3>2. Numbers(q, Len(q)) \subseteq Numbers(r, Len(q) + i)
      <4> SUFFICES ASSUME NEW j \in 1..Len(q)
                   PROVE  Number(q[j]) \in Numbers(r, Len(q) + i)
        BY DEF Numbers
      <4>1. j \in 1..(Len(q) + i) /\ r[j] = q[j]
        BY <1>1, <1>3
      <4> QED BY <4>1 DEF Numbers
    <3> QED BY <3>1, <3>2
  <2>2. CASE m > k
    <3>1. m - k \in 1..i /\ m - k \in 1..(Len(d) - k) /\ Len(q) + (m - k) \in 1..(Len(q) + i)
      BY <1>1, <1>6, <2>2
    <3>2. Number(r[Len(q) + (m - k)]) = m
      <4>1. Number(r[Len(q) + (m - k)]) = k + (m - k)
        BY <1>3, <3>1
      <4> QED BY <1>1, <4>1
    <3> QED BY <3>1, <3>2 DEF Numbers
  <2> QED BY <1>1, <1>6, <2>1, <2>2
<1>7. ASSUME NEW i \in 1..Len(r)
      PROVE  from..Number(r[i]) \subseteq K \cup Numbers(r, i)
  <2>1. CASE i \in 1..Len(q)
    BY <1>1, <1>3, <1>5, <2>1 DEF Follows
  <2>2. CASE i > Len(q)
    <3>1. PICK j \in 1..(Len(d) - k) : i = Len(q) + j
      <4>1. i - Len(q) \in 1..(Len(d) - k) /\ i = Len(q) + (i - Len(q))
        BY <1>1, <1>3, <2>2
      <4> QED BY <4>1
    <3>2. Number(r[i]) = k + j /\ j \in 0..(Len(d) - k)
      BY <1>1, <1>3, <3>1
    <3> QED BY <1>6, <3>1, <3>2
  <2> QED BY <1>1, <1>3, <2>1, <2>2
<1>8. from..Len(d) \subseteq K \cup Numbers(r, Len(r))
  <2>1. /\ Len(d) - k \in 0..(Len(d) - k)
        /\ k + (Len(d) - k) = Len(d) /\ Len(q) + (Len(d) - k) = Len(r)
    BY <1>1, <1>3
  <2> QED BY <1>6, <2>1
<1> QED BY <1>7, <1>8 DEF Follows, Reaches

LEMMA AnnounceUpTo ==
    ASSUME NEW q \in Seq(Blocks), NEW d \in Chains, NEW k \in 0..Len(d),
           NEW top \in Nat, top <= Len(d), UpTo(q, top),
           NEW r, Appended(r, q, d, k)
    PROVE  UpTo(r, Len(d))
<1> SUFFICES ASSUME NEW i \in 1..Len(r)
             PROVE  Number(r[i]) <= Len(d)
  BY DEF UpTo
<1>1. Len(d) \in Nat /\ Len(q) \in Nat
  BY ChainIsSeq, ChainAssumption, LenProperties
<1>2. /\ Len(r) = Len(q) + (Len(d) - k)
      /\ \A j \in 1..Len(q) : r[j] = q[j]
      /\ \A j \in 1..(Len(d) - k) : Number(r[Len(q) + j]) = k + j
  BY DEF Appended
<1>3. CASE i \in 1..Len(q)
  <2>1. q[i] \in Blocks /\ Number(q[i]) \in Nat /\ Number(q[i]) <= top
    BY <1>3, ElementOfSeq, BlockIsSeq DEF UpTo, Number
  <2> QED BY <1>1, <1>2, <1>3, <2>1
<1>4. CASE i > Len(q)
  <2>1. PICK j \in 1..(Len(d) - k) : i = Len(q) + j
    <3>1. i - Len(q) \in 1..(Len(d) - k) /\ i = Len(q) + (i - Len(q))
      BY <1>1, <1>2, <1>4
    <3> QED BY <3>1
  <2>2. Number(r[i]) = k + j /\ k + j <= Len(d)
    BY <1>1, <1>2, <2>1
  <2> QED BY <2>2
<1> QED BY <1>1, <1>3, <1>4

\* A header that leaves a queue goes with the first of the numbers.
LEMMA NumbersOfTail ==
    ASSUME NEW q \in Seq(Blocks), q # <<>>, NEW i \in 1..Len(q)
    PROVE  Numbers(q, i) = {Number(Head(q))} \cup Numbers(Tail(q), i - 1)
<1>1. /\ Len(q) \in Nat \ {0} /\ Head(q) = q[1]
      /\ Len(Tail(q)) = Len(q) - 1
      /\ \A j \in 1..Len(Tail(q)) : Tail(q)[j] = q[j + 1]
  BY HeadTailProperties, EmptySeq, LenProperties
<1>2. ASSUME NEW j \in 1..i
      PROVE  Number(q[j]) \in {Number(Head(q))} \cup Numbers(Tail(q), i - 1)
  <2>1. CASE j = 1
    BY <1>1, <2>1
  <2>2. CASE j > 1
    <3>1. j - 1 \in 1..(i - 1) /\ j - 1 \in 1..Len(Tail(q)) /\ (j - 1) + 1 = j
      BY <1>1, <2>2
    <3>2. Tail(q)[j - 1] = q[j]
      BY <1>1, <3>1
    <3> QED BY <3>1, <3>2 DEF Numbers
  <2> QED BY <1>1, <2>1, <2>2
<1>3. ASSUME NEW j \in 1..(i - 1)
      PROVE  Number(Tail(q)[j]) \in Numbers(q, i)
  <2>1. j + 1 \in 1..i /\ j \in 1..Len(Tail(q))
    BY <1>1
  <2> QED BY <1>1, <2>1 DEF Numbers
<1>4. Number(Head(q)) \in Numbers(q, i)
  BY <1>1 DEF Numbers
<1> QED BY <1>2, <1>3, <1>4 DEF Numbers

\* The head of a covered queue moves to the covered side; the rest stays covered.
LEMMA TailCovered ==
    ASSUME NEW q \in Seq(Blocks), q # <<>>, NEW from \in Nat, NEW K, NEW J,
           K \cup {Number(Head(q))} \subseteq J,
           Follows(q, from, K)
    PROVE  /\ from..Number(Head(q)) \subseteq J
           /\ Follows(Tail(q), from, J)
           /\ K \cup Numbers(q, Len(q)) \subseteq J \cup Numbers(Tail(q), Len(Tail(q)))
<1>1. /\ Len(q) \in Nat \ {0} /\ Head(q) = q[1]
      /\ Len(Tail(q)) = Len(q) - 1
      /\ \A j \in 1..Len(Tail(q)) : Tail(q)[j] = q[j + 1]
  BY HeadTailProperties, EmptySeq, LenProperties
<1>2. from..Number(Head(q)) \subseteq J
  <2>1. 1 \in 1..Len(q)
    BY <1>1
  <2>2. Numbers(q, 1) = {Number(Head(q))}
    BY <1>1 DEF Numbers
  <2> QED BY <1>1, <2>1, <2>2 DEF Follows
<1>3. ASSUME NEW i \in 1..Len(Tail(q))
      PROVE  from..Number(Tail(q)[i]) \subseteq J \cup Numbers(Tail(q), i)
  <2>1. i + 1 \in 1..Len(q) /\ Tail(q)[i] = q[i + 1] /\ (i + 1) - 1 = i
    BY <1>1
  <2>2. Numbers(q, i + 1) = {Number(Head(q))} \cup Numbers(Tail(q), i)
    BY <2>1, NumbersOfTail
  <2>3. from..Number(q[i + 1]) \subseteq K \cup Numbers(q, i + 1)
    BY <2>1 DEF Follows
  <2> QED BY <2>1, <2>2, <2>3, Zenon
<1>4. K \cup Numbers(q, Len(q)) \subseteq J \cup Numbers(Tail(q), Len(Tail(q)))
  <2>1. Len(q) \in 1..Len(q)
    BY <1>1
  <2>2. Numbers(q, Len(q)) = {Number(Head(q))} \cup Numbers(Tail(q), Len(Tail(q)))
    BY <1>1, <2>1, NumbersOfTail
  <2> QED BY <2>2
<1> QED BY <1>2, <1>3, <1>4 DEF Follows

LEMMA StreamFrame ==
    ASSUME StreamInv, UNCHANGED <<chainVars, lpc, start, latest, next, wsq, sent, faults>>
    PROVE  StreamInv'
BY DEF chainVars, StreamInv, Healthy, NumbersInOrder, HeadReached, AnnouncedCovered,
       Backfilled, Follows, Reaches, UpTo, Numbers, NoGap

\* The node: what is announced continues what was announced.
LEMMA NodeStream ==
    ASSUME ChainTypeOK, ListenerInv, StreamInv, NodeStep
    PROVE  StreamInv'
<1> SUFFICES ASSUME Healthy'
             PROVE  /\ lpc' \notin (IF HasWS THEN {"poll", "fetch"} ELSE Subscribed)
                    /\ NumbersInOrder' /\ HeadReached' /\ AnnouncedCovered'
  BY DEF StreamInv
<1>1. /\ chain' \in Chains /\ chain \in Chains
      /\ reorgs \in Nat /\ reorgs' \in Nat /\ reorgs' >= reorgs
  BY NodeKeepsPrefix, ChainAssumption DEF ChainTypeOK
<1>2. PICK k \in 0..Len(chain) :
        /\ Announce(k)
        /\ k < Len(chain')
        /\ MayShrink => reorgs' > reorgs \/ Len(chain') >= Len(chain)
        /\ ~MayShrink => Len(chain') >= Len(chain)
  BY NodeKeepsPrefix
<1>3. /\ UNCHANGED <<lpc, start, latest, next, sent, faults>>
      /\ wsq \in Seq(Blocks) /\ start \in Nat
      /\ Len(chain) \in Nat /\ Len(chain') \in Nat
  BY <1>1, <1>2, ChainIsSeq, ChainAssumption DEF Announce, ListenerInv, ListenerTypeOK
<1>4. Healthy
  BY <1>1, <1>3 DEF Healthy
<1>5. /\ lpc' \notin (IF HasWS THEN {"poll", "fetch"} ELSE Subscribed)
      /\ NumbersInOrder'
  BY <1>3, <1>4 DEF StreamInv, NumbersInOrder, NoGap
<1>6. CASE lpc \notin Subscribed
  <2>1. wsq' = wsq
    BY <1>2, <1>6 DEF Announce
  <2> QED BY <1>3, <1>4, <1>5, <1>6, <2>1 DEF Subscribed, StreamInv, HeadReached, AnnouncedCovered
<1>7. CASE lpc \in Subscribed
  <2>2. Len(chain') >= Len(chain)
    BY <1>1, <1>2, <1>3, <1>4, <1>7 DEF StreamInv, Healthy
  <2>3. k \in 0..Len(chain') /\ k <= Len(chain')
    BY <1>2, <1>3
  <2>1. Appended(wsq', wsq, chain', k)
    <3>1. wsq' = wsq \o Announced(chain', k)
      BY <1>2, <1>7 DEF Announce
    <3>2. Appended(wsq \o Announced(chain', k), wsq, chain', k)
      BY <1>1, <1>3, <2>3, AnnouncedQueue
    <3> QED BY <3>1, <3>2
  <2>4. HeadReached'
    <3>1. CASE lpc = "latest"
      <4>1. UpTo(wsq, Len(chain))
        BY <1>4, <3>1 DEF StreamInv, HeadReached
      <4>2. UpTo(wsq', Len(chain'))
        BY <1>1, <1>3, <2>1, <2>2, <2>3, <4>1, AnnounceUpTo
      <4> QED BY <1>3, <3>1, <4>2 DEF HeadReached, UpTo
    <3>2. CASE lpc = "backfill"
      BY <1>3, <1>4, <2>2, <3>2 DEF StreamInv, HeadReached, ListenerInv, ListenerTypeOK
    <3> QED BY <1>3, <1>7, <3>1, <3>2 DEF HeadReached, Subscribed
  <2>5. AnnouncedCovered'
    <3> SUFFICES ASSUME lpc \in {"backfill", "live"}
                 PROVE  AnnouncedCovered'
      BY <1>3 DEF AnnouncedCovered
    <3>1. Follows(wsq, start, Backfilled) /\ Reaches(wsq, start, Backfilled, Len(chain))
      BY <1>4 DEF StreamInv, AnnouncedCovered
    <3>2. Follows(wsq', start, Backfilled) /\ Reaches(wsq', start, Backfilled, Len(chain'))
      BY <1>1, <1>3, <2>1, <2>3, <3>1, AnnounceCovers
    <3>3. Backfilled' = Backfilled /\ start' = start
      BY <1>3 DEF Backfilled
    <3> QED BY <3>2, <3>3 DEF AnnouncedCovered, Follows, Reaches, Numbers
  <2> QED BY <1>5, <2>4, <2>5
<1> QED BY <1>6, <1>7

\* The listener: the backfill and the polling count, the live loop forwards what is
\* covered.  A failed call ends the healthy stream, unless there is no subscription.
LEMMA ListenerStream ==
    ASSUME ChainTypeOK, ListenerInv, StreamInv, UNCHANGED chainVars,
           ListenerStep \/ SubscriptionError
    PROVE  StreamInv'
<1> USE ChainAssumption, ListenerAssumption
<1> SUFFICES ASSUME Healthy'
             PROVE  /\ lpc' \notin (IF HasWS THEN {"poll", "fetch"} ELSE Subscribed)
                    /\ NumbersInOrder' /\ HeadReached' /\ AnnouncedCovered'
  BY DEF StreamInv
<1>0. /\ chain' = chain /\ reorgs' = reorgs /\ Len(chain) \in Nat /\ chain \in Seq(Salt)
      /\ start \in Nat /\ next \in Nat /\ latest \in Nat /\ faults \in Nat
      /\ wsq \in Seq(Blocks)
  BY ChainIsSeq DEF chainVars, ChainTypeOK, ListenerInv, ListenerTypeOK
<1>1. Healthy /\ (HasWS => faults' = 0 /\ faults = 0)
  <2>1. faults' = faults \/ faults' = faults + 1
    BY DEF ListenerStep, SubscribeNewHead, SubscribeNewHeadFails, BackfillStart, BackfillSkipped,
       BackfillBlock, BackfillBreak, BackfillDone, LiveHeader, PollTick, PollBlock, PollBreak,
       PollDone, SubscriptionError, Fault
  <2> QED BY <1>0, <2>1 DEF Healthy
<1>2. /\ lpc \notin (IF HasWS THEN {"poll", "fetch"} ELSE Subscribed)
      /\ NumbersInOrder /\ HeadReached /\ AnnouncedCovered
  BY <1>1 DEF StreamInv
<1>f. HasWS => ~Fault
  BY <1>0, <1>1 DEF Fault
<1> USE DEF Subscribed
<1>3. ASSUME next \in start..Len(chain), sent = start..(next - 1), Push(BlockAt(chain, next)),
             next' = next + 1, start' = start
      PROVE  start' <= next' /\ sent' = start'..(next' - 1)
  <2>1. Number(BlockAt(chain, next)) = next
    <3>1. next \in 0..Len(chain)
      BY <1>0, <1>3
    <3> QED BY <1>0, <3>1, BlockAtType DEF Number
  <2>2. sent' = (start..(next - 1)) \cup {next}
    BY <1>3, <2>1 DEF Push
  <2> QED BY <1>0, <1>3, <2>2
<1>4. CASE SubscribeNewHead
  <2>1. UpTo(wsq', Len(chain'))
    BY <1>2, <1>4 DEF SubscribeNewHead, HeadReached, UpTo
  <2> QED BY <1>0, <1>2, <1>4, <2>1 DEF SubscribeNewHead, NumbersInOrder, HeadReached, AnnouncedCovered,
                                        UpTo
<1>5. CASE SubscribeNewHeadFails
  <2>1. ~HasWS
    BY <1>5, <1>f DEF SubscribeNewHeadFails
  <2>2. sent' = {} /\ start' = start /\ next' = start /\ lpc' = "poll"
    BY <1>2, <1>5 DEF SubscribeNewHeadFails, NumbersInOrder
  <2>3. start'..(next' - 1) = {}
    BY <1>0, <2>2
  <2> QED BY <1>0, <2>1, <2>2, <2>3 DEF NumbersInOrder, HeadReached, AnnouncedCovered
<1>6. CASE BackfillStart
  <2>1. /\ lpc' = "backfill" /\ sent' = {} /\ start' = start /\ next' = start /\ wsq' = wsq
        /\ latest' = Len(chain)
    BY <1>2, <1>6 DEF BackfillStart, NumbersInOrder
  <2>2. start'..(next' - 1) = {}
    BY <1>0, <2>1
  <2>3. UpTo(wsq, Len(chain))
    BY <1>2, <1>6 DEF BackfillStart, HeadReached
  <2>4. Follows(wsq', start', Backfilled')
    <3> SUFFICES ASSUME NEW i \in 1..Len(wsq), NEW n \in start..Number(wsq[i])
                 PROVE  n \in start..Len(chain)
      BY <2>1 DEF Follows, Backfilled
    <3>1. wsq[i] \in Blocks /\ Number(wsq[i]) \in Nat /\ Number(wsq[i]) <= Len(chain)
      BY <1>0, <2>3, ElementOfSeq, BlockIsSeq DEF UpTo, Number
    <3> QED BY <1>0, <3>1
  <2>5. Reaches(wsq', start', Backfilled', Len(chain'))
    BY <1>0, <2>1 DEF Reaches, Backfilled
  <2>6. AnnouncedCovered'
    BY <2>4, <2>5 DEF AnnouncedCovered, Follows, Reaches, Numbers
  <2> QED BY <1>0, <1>2, <1>6, <2>1, <2>2, <2>6 DEF BackfillStart, NumbersInOrder, HeadReached
<1>7. CASE BackfillSkipped
  BY <1>2, <1>7, <1>f DEF BackfillSkipped
<1>8. CASE BackfillBlock
  <2>1. /\ lpc = "backfill" /\ lpc' = "backfill" /\ next <= latest /\ next <= Len(chain)
        /\ Push(BlockAt(chain, next)) /\ next' = next + 1
        /\ UNCHANGED <<start, latest, wsq, faults>>
    BY <1>8 DEF BackfillBlock
  <2>2. start <= next /\ sent = start..(next - 1) /\ latest <= Len(chain)
    BY <1>2, <2>1 DEF NumbersInOrder, HeadReached
  <2>3. start' <= next' /\ sent' = start'..(next' - 1)
    BY <1>0, <1>3, <2>1, <2>2
  <2>4. Backfilled' = Backfilled
    BY <1>0, <2>1, <2>2, <2>3 DEF Backfilled
  <2>5. AnnouncedCovered'
    BY <1>0, <1>2, <2>1, <2>4 DEF AnnouncedCovered, Follows, Reaches, Numbers
  <2> QED BY <1>0, <1>2, <2>1, <2>2, <2>3, <2>5 DEF NumbersInOrder, HeadReached
<1>9. CASE BackfillBreak
  BY <1>0, <1>2, <1>9, <1>f DEF BackfillBreak, HeadReached
<1>10. CASE BackfillDone
  <2>1. /\ lpc = "backfill" /\ lpc' = "live" /\ next > latest
        /\ UNCHANGED <<start, latest, next, wsq, out, sent, faults>>
    BY <1>10 DEF BackfillDone
  <2>2. sent = start..(next - 1)
    BY <1>2, <2>1 DEF NumbersInOrder
  <2>3. (start..latest \subseteq sent) /\ NoGap
    BY <1>0, <2>1, <2>2 DEF NoGap
  <2>4. NumbersInOrder'
    BY <2>1, <2>3 DEF NumbersInOrder, NoGap
  <2>5. AnnouncedCovered'
    BY <1>0, <1>2, <2>1 DEF AnnouncedCovered, Backfilled, Follows, Reaches, Numbers
  <2> QED BY <1>2, <2>1, <2>4, <2>5 DEF HeadReached
<1>11. CASE LiveHeader
  <2>1. /\ lpc = "live" /\ lpc' = "live" /\ wsq # <<>>
        /\ wsq' = Tail(wsq) /\ sent' = sent \cup {Number(Head(wsq))}
        /\ UNCHANGED <<start, latest, next, faults>>
    BY <1>11 DEF LiveHeader, Push
  <2>2. /\ NoGap /\ start..latest \subseteq sent
        /\ Follows(wsq, start, Backfilled)
        /\ Reaches(wsq, start, Backfilled, Len(chain))
    BY <1>2, <2>1 DEF NumbersInOrder, AnnouncedCovered
  <2>3. Backfilled = sent /\ Backfilled' = sent'
    BY <2>1, <2>2 DEF Backfilled
  <2>4. /\ start..Number(Head(wsq)) \subseteq sent'
        /\ Follows(Tail(wsq), start, sent')
        /\ sent \cup Numbers(wsq, Len(wsq)) \subseteq sent' \cup Numbers(Tail(wsq), Len(Tail(wsq)))
    BY <1>0, <2>1, <2>2, <2>3, TailCovered
  <2>5. Follows(wsq', start', Backfilled') /\ Reaches(wsq', start', Backfilled', Len(chain'))
    BY <1>0, <2>1, <2>2, <2>3, <2>4 DEF Reaches
  <2>6. AnnouncedCovered'
    BY <2>5 DEF AnnouncedCovered, Follows, Reaches, Numbers
  <2>7. NumbersInOrder'
    BY <2>1, <2>2, <2>4 DEF NumbersInOrder, NoGap
  <2> QED BY <1>2, <2>1, <2>6, <2>7 DEF HeadReached
<1>12. CASE PollTick \/ PollBreak \/ PollDone
  BY <1>0, <1>2, <1>12
     DEF PollTick, PollBreak, PollDone, NumbersInOrder, HeadReached, AnnouncedCovered
<1>13. CASE PollBlock
  <2>1. /\ lpc = "fetch" /\ lpc' = "fetch" /\ next <= Len(chain)
        /\ Push(BlockAt(chain, next)) /\ next' = next + 1
        /\ UNCHANGED <<start, latest, wsq, faults>>
    BY <1>13 DEF PollBlock
  <2>2. start <= next /\ sent = start..(next - 1)
    BY <1>2, <2>1 DEF NumbersInOrder
  <2>3. start' <= next' /\ sent' = start'..(next' - 1)
    BY <1>0, <1>3, <2>1, <2>2
  <2> QED BY <1>2, <2>1, <2>3 DEF NumbersInOrder, HeadReached, AnnouncedCovered
<1>14. CASE SubscriptionError
  BY <1>2, <1>14, <1>f DEF SubscriptionError
<1> QED
  BY <1>4, <1>5, <1>6, <1>7, <1>8, <1>9, <1>10, <1>11, <1>12, <1>13, <1>14 DEF ListenerStep

LEMMA StreamStep ==
    ASSUME IndexerInv, StreamInv, [IndexerNext]_vars
    PROVE  StreamInv'
<1>a. ChainTypeOK /\ ListenerInv
  BY IndexerInvParts
<1>1. CASE NodeMoves
  BY <1>1, <1>a, NodeStream DEF NodeMoves
<1>2. CASE ListenerMoves \/ SubscriptionDrops
  BY <1>2, <1>a, ListenerStream DEF ListenerMoves, SubscriptionDrops
<1>3. CASE GetSyncStatus \/ GetSyncStatusFails
  BY <1>3 DEF GetSyncStatus, GetSyncStatusFails, Open, chainVars, StreamInv, Healthy, Subscribed,
              NumbersInOrder, HeadReached, AnnouncedCovered
<1>4. CASE Restart
  BY <1>4 DEF Restart, chainVars, StreamInv, Healthy, Subscribed, NumbersInOrder, HeadReached,
              AnnouncedCovered
<1>5. ASSUME IndexerStep, ~(GetSyncStatus \/ GetSyncStatusFails)
      PROVE  UNCHANGED <<chainVars, lpc, start, latest, next, wsq, sent, faults>>
  BY <1>5 DEF IndexerStep, ReceiveLinked, ReceiveReorg, Receive, DeleteEventsFromBlock,
     DeleteBlocksFromBlock, RollSyncStatus, HandleReorgFails, SaveBlock, UpdateSyncStatus,
     ProcessBlockFails, FilterLogs, FilterLogsFails, SkipLog, SaveEvent, SaveEventFails, Publish,
     PublishFails, BlockIndexed, Drop, netVars, listenerVars
<1>6. CASE UNCHANGED vars
  BY <1>6, StreamFrame DEF vars, netVars, listenerVars
<1> QED BY <1>1, <1>2, <1>3, <1>4, <1>5, <1>6, StreamFrame DEF IndexerNext

LEMMA StreamInit == IndexerInit => StreamInv
BY DEF IndexerInit, NetInit, ListenerInit, StreamInv, Subscribed, NumbersInOrder, HeadReached,
       AnnouncedCovered

\* The headers reach runChain without a hole when polling, whatever fails, reorganises,
\* shrinks or restarts; and over a subscription until a call fails or the head gets lower.
\* The checkpoint follows the headers, so nothing below it is left out.
THEOREM StreamHasNoHole == IndexerSpec => [](Healthy => NoGap)
<1>1. IndexerInit => StreamInv
  BY StreamInit
<1>2. IndexerInv /\ StreamInv /\ [IndexerNext]_vars => StreamInv'
  BY StreamStep
<1>3. IndexerInv /\ StreamInv => (Healthy => NoGap)
  <2> SUFFICES ASSUME IndexerInv, StreamInv, Healthy PROVE NoGap
    OBVIOUS
  <2>1. NumbersInOrder /\ lpc \in ListenerPC /\ start \in Nat /\ next \in Nat
    BY IndexerInvParts, ChainAssumption DEF StreamInv, ListenerInv, ListenerTypeOK
  <2>2. CASE lpc \in {"off", "dial", "latest"}
    BY <2>1, <2>2 DEF NumbersInOrder, NoGap
  <2>3. CASE lpc \in {"backfill", "poll", "fetch"}
    BY <2>1, <2>3 DEF NumbersInOrder, NoGap
  <2>4. CASE lpc = "live"
    BY <2>1, <2>4 DEF NumbersInOrder
  <2> QED BY <2>1, <2>2, <2>3, <2>4 DEF ListenerPC
<1> QED BY IndexerInvariant, <1>1, <1>2, <1>3, PTL DEF IndexerSpec

-----------------------------------------------------------------------------
(* What the steps of the whole system leave alone.                         *)

\* The node and the listener change neither the indexer's memory nor the store.
LEMMA OutsideFrame ==
    ASSUME NodeMoves \/ ListenerMoves \/ SubscriptionDrops
    PROVE  UNCHANGED <<memVars, storeVars, opFaults, crashes>>
BY DEF NodeMoves, ListenerMoves, SubscriptionDrops

\* A dropped header and the steps that only read or publish leave the tables alone.
QuietStep ==
    \/ GetSyncStatus \/ GetSyncStatusFails \/ ReceiveLinked \/ ReceiveReorg
    \/ HandleReorgFails \/ ProcessBlockFails \/ FilterLogs \/ FilterLogsFails
    \/ SkipLog \/ SaveEventFails \/ Publish \/ PublishFails \/ BlockIndexed

LEMMA QuietFrame == QuietStep => UNCHANGED <<blocks, events, sync>>
BY DEF QuietStep, GetSyncStatus, GetSyncStatusFails, ReceiveLinked, ReceiveReorg,
       HandleReorgFails, ProcessBlockFails, FilterLogs, FilterLogsFails, SkipLog,
       SaveEventFails, Publish, PublishFails, BlockIndexed, Drop, storeVars
-----------------------------------------------------------------------------
(* The fork of the reorganisation at hand.                                 *)

\* DetectReorg names a height of the block's own ancestry.
LEMMA ForkBlockRange ==
    ASSUME NEW f \in BlockMaps, NEW b \in Blocks, DetectReorg(f, b)
    PROVE  ForkBlock(f, b) \in 1..Number(b)
<1>1. Number(b) \in 1..MaxHeight /\ DOMAIN f \subseteq 1..MaxHeight
  BY BlockIsSeq, BlockMapDef DEF Number
<1>2. CASE OtherAtHeight(f, b)
  BY <1>1, <1>2, ChainAssumption DEF ForkBlock
<1>3. CASE OtherParent(f, b) /\ ~OtherAtHeight(f, b)
  BY <1>1, <1>3, ChainAssumption DEF ForkBlock, OtherParent
<1> QED BY <1>2, <1>3 DEF DetectReorg

RefinementInv == ForkInHand /\ RolledBack

LEMMA RefinementInvStep ==
    ASSUME IndexerInv, RefinementInv, [IndexerNext]_vars
    PROVE  RefinementInv'
<1> USE DEF RefinementInv, ForkInHand, RolledBack
<1>a. /\ ChainTypeOK /\ ListenerInv
      /\ MemTypeOK /\ StoreTypeOK
  BY IndexerInvParts
<1>1. CASE UNCHANGED <<memVars, storeVars>>
  BY <1>1 DEF memVars, storeVars
<1>2. CASE pc' \notin {"delEvents", "delBlocks", "rollSync"}
  BY <1>2
<1>3. CASE ReceiveReorg
  <2>1. Head(out) \in Blocks
    BY <1>3, <1>a, ReceiveType DEF ReceiveReorg
  <2>2. fork' \in 1..Number(cur') /\ pc' = "delEvents"
    BY <1>3, <1>a, <2>1, ForkBlockRange DEF ReceiveReorg, MemTypeOK
  <2> QED BY <2>2
<1>4. CASE DeleteEventsFromBlock
  BY <1>4 DEF DeleteEventsFromBlock
<1>5. CASE DeleteBlocksFromBlock
  <2>1. DOMAIN blocks' = DOMAIN blocks \cap {n \in DOMAIN blocks : n < fork}
    BY <1>5, <1>a, KeepType DEF DeleteBlocksFromBlock, StoreTypeOK
  <2> QED BY <1>5, <2>1 DEF DeleteBlocksFromBlock
<1>6. ASSUME IndexerStep, ~ReceiveReorg, ~DeleteEventsFromBlock, ~DeleteBlocksFromBlock
      PROVE  pc' \notin {"delEvents", "delBlocks", "rollSync"}
  BY <1>6 DEF IndexerStep, GetSyncStatus, GetSyncStatusFails, ReceiveLinked,
     RollSyncStatus, HandleReorgFails, SaveBlock, UpdateSyncStatus, ProcessBlockFails,
     FilterLogs, FilterLogsFails, SkipLog, SaveEvent, SaveEventFails, Publish, PublishFails,
     BlockIndexed, Drop
<1>7. CASE Restart
  BY <1>7 DEF Restart
<1>8. CASE UNCHANGED vars
  BY <1>1, <1>8 DEF vars
<1> QED BY <1>1, <1>2, <1>3, <1>4, <1>5, <1>6, <1>7, <1>8, OutsideFrame DEF IndexerNext
-----------------------------------------------------------------------------
(* Every step of the indexer is a step of the store or changes none of its *)
(* tables.                                                                 *)

LEMMA InitRefines == IndexerInit => Store!StoreInit
<1>1. NoBlocks = [n \in {} |-> 0]
  BY DEF NoBlocks
<1> QED BY <1>1 DEF IndexerInit, Store!StoreInit

\* The block of the header's ancestry at a height that it covers.
LEMMA AncestorAt ==
    ASSUME NEW b \in Blocks, NEW n \in 1..Number(b)
    PROVE  \E a \in Blocks : Number(a) = n
<1>1. b \in Seq(Salt) /\ Len(b) \in 1..MaxHeight
  BY BlockIsSeq
<1>2. n \in 0..Len(b) /\ n \in 1..MaxHeight
  BY <1>1, ChainAssumption DEF Number
<1>3. BlockAt(b, n) \in Seq(Salt) /\ Len(BlockAt(b, n)) = n
  BY <1>1, <1>2, BlockAtType
<1> QED BY <1>2, <1>3, BlockIsSeq DEF Number

LEMMA StepRefines ==
    ASSUME IndexerInv, RefinementInv, [IndexerNext]_vars
    PROVE  [Store!StoreNext]_<<blocks, events, sync>>
<1>a. /\ ChainTypeOK /\ ListenerInv
      /\ MemTypeOK /\ StoreTypeOK
      /\ CoreInv
  BY IndexerInvParts
<1>1. CASE UNCHANGED <<blocks, events, sync>>
  BY <1>1
<1>2. ASSUME pc \in {"delEvents", "delBlocks", "rollSync"}
      PROVE  \E b \in Blocks : Number(b) = fork
  BY <1>2, <1>a, AncestorAt DEF CoreInv, BlockInHand, RefinementInv, ForkInHand
<1>3. CASE DeleteEventsFromBlock
  <2>1. PICK b \in Blocks : Number(b) = fork
    BY <1>2, <1>3 DEF DeleteEventsFromBlock
  <2>2. Store!TruncateEvents(Number(b))
    BY <1>3, <2>1 DEF DeleteEventsFromBlock, Store!TruncateEvents, EventBlock
  <2> QED BY <2>2 DEF Store!StoreNext
<1>4. CASE DeleteBlocksFromBlock
  <2>1. PICK b \in Blocks : Number(b) = fork
    BY <1>2, <1>4 DEF DeleteBlocksFromBlock
  <2>2. blocks' = [m \in {k \in DOMAIN blocks : k < fork} |-> blocks[m]]
    BY <1>4 DEF DeleteBlocksFromBlock, Keep
  <2>3. Store!TruncateBlocks(Number(b))
    BY <1>4, <1>a, <2>1, <2>2
       DEF DeleteBlocksFromBlock, Store!TruncateBlocks, EventBlock, CoreInv, EventsGone
  <2> QED BY <2>3 DEF Store!StoreNext
<1>5. CASE RollSyncStatus
  <2>1. PICK b \in Blocks : Number(b) = fork
    BY <1>2, <1>5 DEF RollSyncStatus
  <2>2. fork > 0
    BY <2>1, BlockIsSeq DEF Number
  <2>3. Store!Below(Number(b)) /\ Store!MoveCheckpoint(Number(b) - 1)
    BY <1>5, <2>1, <2>2 DEF RollSyncStatus, RefinementInv, RolledBack, Store!Below, Store!MoveCheckpoint
  <2> QED BY <2>3 DEF Store!StoreNext
<1>6. CASE SaveBlock
  <2>1. cur \in Blocks
    BY <1>6, <1>a DEF SaveBlock, CoreInv, BlockInHand
  <2>2. Store!StoreBlock(cur)
    BY <1>6 DEF SaveBlock, Put, Store!StoreBlock
  <2> QED BY <2>1, <2>2 DEF Store!StoreNext
<1>7. CASE UpdateSyncStatus
  <2>1. Number(cur) \in DOMAIN blocks
    BY <1>7, <1>a DEF UpdateSyncStatus, CoreInv, StoredInHand
  <2>2. Store!MoveCheckpoint(Number(cur))
    BY <1>7 DEF UpdateSyncStatus, Store!MoveCheckpoint
  <2> QED BY <2>1, <2>2 DEF Store!StoreNext
<1>8. CASE SaveEvent
  <2>1. got \in Seq(Salt) /\ Len(got) \in 0..MaxHeight /\ got # <<>>
    BY <1>8, <1>a, ChainIsSeq DEF SaveEvent, MoreLogs, MemTypeOK
  <2>2. Len(got) \in 1..MaxHeight
    BY <2>1, EmptySeq
  <2>3. got \in Blocks /\ Number(got) = Number(cur)
    BY <1>8, <1>a, <2>1, <2>2, BlockIsSeq DEF SaveEvent, CoreInv, LogInHand, Number
  <2>4. li \in 1..LogCount
    BY <1>8, <1>a, IndexerAssumption DEF SaveEvent, MoreLogs, MemTypeOK, CoreInv, LogInHand
  <2>5. Event \in Events /\ Event.block = got
    BY <2>3, <2>4 DEF Event, Events
  <2>6. Store!StoreEvent(Event)
    BY <1>8, <1>a, <2>3, <2>5 DEF SaveEvent, Store!StoreEvent, EventBlock, CoreInv, StoredInHand
  <2> QED BY <2>5, <2>6 DEF Store!StoreNext
<1>9. CASE QuietStep
  BY <1>1, <1>9, QuietFrame
<1>10. CASE Restart
  BY <1>1, <1>10 DEF Restart, storeVars
<1>11. CASE NodeMoves \/ ListenerMoves \/ SubscriptionDrops
  BY <1>1, <1>11, OutsideFrame DEF storeVars
<1>12. CASE UNCHANGED vars
  BY <1>1, <1>12 DEF vars, storeVars
<1> QED
  BY <1>3, <1>4, <1>5, <1>6, <1>7, <1>8, <1>9, <1>10, <1>11, <1>12
     DEF IndexerNext, IndexerStep, QuietStep

\* The order of runChain's store calls keeps the contract of EventStore, wherever a
\* call fails, the chain reorganises or the process stops: ProcessBlock stores the
\* block before the checkpoint and the events, HandleReorg deletes in the opposite
\* order and rolls the checkpoint back last.
THEOREM IndexerImplementsEventStore == IndexerSpec => ImplementsEventStore
<1>1. IndexerInit => RefinementInv
  BY DEF IndexerInit, RefinementInv, ForkInHand, RolledBack
<1>2. IndexerInv /\ RefinementInv /\ [IndexerNext]_vars => RefinementInv'
  BY RefinementInvStep
<1>3. IndexerInit => Store!StoreInit
  BY InitRefines
<1>4. IndexerInv /\ RefinementInv /\ [IndexerNext]_vars => [Store!StoreNext]_<<blocks, events, sync>>
  BY StepRefines
<1> QED
  BY IndexerInvariant, <1>1, <1>2, <1>3, <1>4, PTL
     DEF IndexerSpec, ImplementsEventStore, Store!StoreSpec

\* EventStore alone keeps each event's block: a reader of the tables may rely on it whatever
\* else writes them, as long as it stores and truncates in EventStore's order.
THEOREM EventStoreKeepsBlocks == Store!StoreSpec => []EventsHaveBlocks
<1>1. Store!StoreInit => EventsHaveBlocks
  BY DEF Store!StoreInit, EventsHaveBlocks
<1>2. EventsHaveBlocks /\ [Store!StoreNext]_<<blocks, events, sync>> => EventsHaveBlocks'
  <2> SUFFICES ASSUME EventsHaveBlocks, [Store!StoreNext]_<<blocks, events, sync>>
               PROVE  EventsHaveBlocks'
    OBVIOUS
  <2>1. ASSUME NEW b \in Blocks, Store!StoreBlock(b)
        PROVE  EventsHaveBlocks'
    BY <2>1 DEF EventsHaveBlocks, Store!StoreBlock
  <2>2. ASSUME NEW e \in Events, Store!StoreEvent(e)
        PROVE  EventsHaveBlocks'
    BY <2>2 DEF EventsHaveBlocks, Store!StoreEvent, EventBlock
  <2>3. ASSUME NEW n, Store!MoveCheckpoint(n)
        PROVE  EventsHaveBlocks'
    BY <2>3 DEF EventsHaveBlocks, Store!MoveCheckpoint
  <2>4. ASSUME NEW n, Store!TruncateEvents(n)
        PROVE  EventsHaveBlocks'
    BY <2>4 DEF EventsHaveBlocks, Store!TruncateEvents
  <2>5. ASSUME NEW n, Store!TruncateBlocks(n)
        PROVE  EventsHaveBlocks'
    BY <2>5 DEF EventsHaveBlocks, Store!TruncateBlocks, EventBlock
  <2>6. CASE UNCHANGED <<blocks, events, sync>>
    BY <2>6 DEF EventsHaveBlocks
  <2> QED BY <2>1, <2>2, <2>3, <2>4, <2>5, <2>6 DEF Store!StoreNext
<1> QED BY <1>1, <1>2, PTL DEF Store!StoreSpec
-----------------------------------------------------------------------------
(* The detector's window.                                                  *)

\* RecordBlock adds the block, changes no other entry and may forget some.
LEMMA RecordedEntries ==
    ASSUME NEW f \in BlockMaps, NEW b \in Blocks
    PROVE  /\ DOMAIN RecordBlock(f, b) \subseteq DOMAIN f \cup {Number(b)}
           /\ \A n \in DOMAIN RecordBlock(f, b) :
                 RecordBlock(f, b)[n] = IF n = Number(b) THEN b ELSE f[n]
<1>1. PICK g \in BlockMaps : g = Put(f, b)
  BY PutType
<1>2. /\ DOMAIN g = DOMAIN f \cup {Number(b)}
      /\ \A n \in DOMAIN g : g[n] = IF n = Number(b) THEN b ELSE f[n]
  BY <1>1, PutType
<1>3. ASSUME NEW D
      PROVE  /\ DOMAIN Keep(g, D) \subseteq DOMAIN g
             /\ \A n \in DOMAIN Keep(g, D) : Keep(g, D)[n] = g[n]
  <2>1. /\ DOMAIN Keep(g, D) = DOMAIN g \cap D
        /\ \A n \in DOMAIN g \cap D : Keep(g, D)[n] = g[n]
    BY KeepType, Zenon
  <2> QED BY <2>1
<1>4. PICK h : h = RecordBlock(f, b)
  OBVIOUS
<1>5. h = g \/ \E D : h = Keep(g, D)
  BY <1>1, <1>4 DEF RecordBlock
<1>6. DOMAIN h \subseteq DOMAIN g /\ \A n \in DOMAIN h : h[n] = g[n]
  BY <1>3, <1>5
<1> QED BY <1>2, <1>4, <1>6

\* A window with all its numbers in 1..k holds at most k blocks.
LEMMA WindowSize ==
    ASSUME NEW k \in Nat, NEW D, D \subseteq 1..k
    PROVE  Cardinality(D) \in Nat /\ Cardinality(D) <= k
<1>1. IsFiniteSet(1..k) /\ Cardinality(1..k) = k
  <2>1. /\ IsFiniteSet(1..k)
        /\ Cardinality(1..k) = IF 1 > k THEN 0 ELSE k - 1 + 1
    BY FS_Interval
  <2> QED BY <2>1
<1>2. IsFiniteSet(D) /\ Cardinality(D) <= Cardinality(1..k)
  BY <1>1, FS_Subset
<1>3. Cardinality(D) \in Nat
  BY <1>2, FS_CardinalityType
<1> QED BY <1>1, <1>2, <1>3

\* The pruning never removes a block above all recorded ones: when it prunes, the
\* subtraction does not wrap around.
LEMMA RecordKeepsHighest ==
    ASSUME NEW f \in BlockMaps, NEW b \in Blocks, \A n \in DOMAIN f : n < Number(b)
    PROVE  Number(b) \in DOMAIN RecordBlock(f, b)
<1> USE DetectorAssumption, ChainAssumption
<1>1. /\ Put(f, b) \in BlockMaps
      /\ DOMAIN Put(f, b) = DOMAIN f \cup {Number(b)}
  BY PutType
<1>2. Number(b) \in 1..MaxHeight /\ DOMAIN f \subseteq 1..MaxHeight
  BY BlockIsSeq, BlockMapDef DEF Number
<1>3. CASE Cardinality(DOMAIN Put(f, b)) > MaxBlocks
  <2>1. DOMAIN Put(f, b) \subseteq 1..Number(b)
    BY <1>1, <1>2
  <2>2. Number(b) > MaxBlocks
    BY <1>2, <1>3, <2>1, WindowSize
  <2>3. Number(b) > Sub64(Number(b), MaxBlocks)
    BY <1>2, <2>2 DEF Sub64
  <2>4. Number(b) \in DOMAIN Put(f, b) \cap
                        {n \in DOMAIN Put(f, b) : n > Sub64(Number(b), MaxBlocks)}
    BY <1>1, <2>3
  <2>5. RecordBlock(f, b) = Keep(Put(f, b), {n \in DOMAIN Put(f, b) : n > Sub64(Number(b), MaxBlocks)})
    BY <1>3 DEF RecordBlock
  <2> QED BY <1>1, <2>4, <2>5, KeepType
<1>4. CASE ~(Cardinality(DOMAIN Put(f, b)) > MaxBlocks)
  BY <1>1, <1>4 DEF RecordBlock
<1> QED BY <1>3, <1>4

\* A window as large as the chain forgets nothing.
LEMMA RecordKeepsAll ==
    ASSUME MaxBlocks >= MaxHeight, NEW f \in BlockMaps, NEW b \in Blocks
    PROVE  RecordBlock(f, b) = Put(f, b)
<1>1. DOMAIN Put(f, b) \subseteq 1..MaxHeight
  BY PutType, BlockMapDef
<1>2. Cardinality(DOMAIN Put(f, b)) \in Nat /\ Cardinality(DOMAIN Put(f, b)) <= MaxHeight
  BY <1>1, WindowSize, ChainAssumption
<1>3. ~(Cardinality(DOMAIN Put(f, b)) > MaxBlocks)
  BY <1>2, DetectorAssumption, ChainAssumption
<1> QED BY <1>3 DEF RecordBlock

\* Recording above a linked window keeps it linked when the parent, if it is known, is
\* the recorded one.
LEMMA RecordLinked ==
    ASSUME NEW f \in BlockMaps, NEW b \in Blocks, Linked(f),
           \A n \in DOMAIN f : n < Number(b),
           Number(b) - 1 \in DOMAIN f => f[Number(b) - 1] = ParentHash(b)
    PROVE  Linked(RecordBlock(f, b))
<1>1. /\ DOMAIN RecordBlock(f, b) \subseteq DOMAIN f \cup {Number(b)}
      /\ \A n \in DOMAIN RecordBlock(f, b) :
            RecordBlock(f, b)[n] = IF n = Number(b) THEN b ELSE f[n]
  BY RecordedEntries
<1>2. Number(b) \in Nat /\ DOMAIN f \subseteq Nat
  BY BlockIsSeq, BlockMapDef, ChainAssumption DEF Number
<1> SUFFICES ASSUME NEW n \in DOMAIN RecordBlock(f, b), n + 1 \in DOMAIN RecordBlock(f, b)
             PROVE  ParentHash(RecordBlock(f, b)[n + 1]) = RecordBlock(f, b)[n]
  BY DEF Linked
<1>3. CASE n + 1 = Number(b)
  <2>1. n # Number(b) /\ n = Number(b) - 1 /\ n \in DOMAIN f
    BY <1>1, <1>2, <1>3
  <2> QED BY <1>1, <1>3, <2>1
<1>4. CASE n + 1 # Number(b)
  <2>1. n + 1 \in DOMAIN f /\ n # Number(b) /\ n \in DOMAIN f
    BY <1>1, <1>2, <1>4
  <2> QED BY <1>1, <1>4, <2>1 DEF Linked
<1> QED BY <1>3, <1>4

\* So does storing a block.
LEMMA PutLinked ==
    ASSUME NEW f \in BlockMaps, NEW b \in Blocks, Linked(f),
           \A n \in DOMAIN f : n < Number(b),
           Number(b) - 1 \in DOMAIN f => f[Number(b) - 1] = ParentHash(b)
    PROVE  Linked(Put(f, b))
<1>1. /\ DOMAIN Put(f, b) = DOMAIN f \cup {Number(b)}
      /\ \A n \in DOMAIN Put(f, b) : Put(f, b)[n] = IF n = Number(b) THEN b ELSE f[n]
  BY PutType
<1>2. Number(b) \in Nat /\ DOMAIN f \subseteq Nat
  BY BlockIsSeq, BlockMapDef, ChainAssumption DEF Number
<1> SUFFICES ASSUME NEW n \in DOMAIN Put(f, b), n + 1 \in DOMAIN Put(f, b)
             PROVE  ParentHash(Put(f, b)[n + 1]) = Put(f, b)[n]
  BY DEF Linked
<1>3. CASE n + 1 = Number(b)
  <2>1. n # Number(b) /\ n = Number(b) - 1 /\ n \in DOMAIN f
    BY <1>1, <1>2, <1>3
  <2> QED BY <1>1, <1>3, <2>1
<1>4. CASE n + 1 # Number(b)
  <2>1. n + 1 \in DOMAIN f /\ n # Number(b) /\ n \in DOMAIN f
    BY <1>1, <1>2, <1>4
  <2> QED BY <1>1, <1>4, <2>1 DEF Linked
<1> QED BY <1>3, <1>4

LEMMA KeepLinked ==
    ASSUME NEW f \in BlockMaps, Linked(f), NEW D
    PROVE  Linked(Keep(f, D))
<1>1. /\ DOMAIN Keep(f, D) = DOMAIN f \cap D
      /\ \A n \in DOMAIN f \cap D : Keep(f, D)[n] = f[n]
  BY KeepType, Zenon
<1> QED BY <1>1 DEF Linked
-----------------------------------------------------------------------------
(* Polling: one header after the other.                                    *)

\* Steps that neither receive nor change the detector or the blocks.
LEMMA PollFrame ==
    ASSUME PollInv, ~HasWS,
           UNCHANGED <<next, out, cur, fork, hashes, blocks>>,
           crashes' = crashes,
           lpc' = lpc \/ (Polling /\ Polling') \/ (lpc = "off" /\ lpc' = "dial"),
           pc' = pc \/ pc' \notin RollingBack \cup {"saveBlock"}
                    \/ (pc \in RollingBack /\ pc' \in {"delBlocks", "rollSync"}),
           pc' \notin {"boot", "idle"} => pc \notin {"boot", "idle"},
           pc' \in {"updSync", "filter"} => pc \in {"saveBlock", "updSync", "filter"}
    PROVE  PollInv'
<1> USE DEF PollInv, Polling, RollingBack
<1>1. NotPolling'
  BY DEF NotPolling
<1>2. PolledInOrder'
  BY DEF NotPolling, PolledInOrder, Expected
<1>3. StoredInOrder'
  BY DEF NotPolling, StoredInOrder, Expected
<1>4. RecordedBlockKept'
  BY DEF NotPolling, RecordedBlockKept
<1>5. DetectorLinked' /\ (crashes' = 0 => StoredLinked')
  BY DEF DetectorLinked, StoredLinked, Linked
<1> QED BY <1>1, <1>2, <1>3, <1>4, <1>5
\* The listener, and the node, which it does not hear.
LEMMA PollListener ==
    ASSUME ChainTypeOK, ListenerInv, PollInv, ~HasWS, ListenerStep \/ SubscriptionError,
           UNCHANGED <<chainVars, memVars, storeVars, opFaults, crashes>>
    PROVE  PollInv'
<1> USE ChainAssumption DEF Polling
<1>0. /\ Len(chain) \in Nat /\ chain \in Seq(Salt)
      /\ start \in Nat /\ next \in Nat /\ out \in Seq(Blocks)
      /\ UNCHANGED <<pc, cur, fork, hashes, blocks, crashes>>
  BY ChainIsSeq DEF ChainTypeOK, ListenerInv, ListenerTypeOK, memVars, storeVars
<1>1. lpc \in {"off", "dial", "poll", "fetch"}
  BY DEF PollInv, NotPolling
<1>2. CASE SubscribeNewHeadFails
  <2>1. /\ lpc' = "poll" /\ next' = start /\ out' = <<>> /\ pc' \in {"boot", "idle"}
        /\ hashes' = NoBlocks /\ (crashes' = 0 => blocks' = NoBlocks)
    BY <1>0, <1>2 DEF SubscribeNewHeadFails, PollInv, NotPolling
  <2>2. DOMAIN NoBlocks = {} /\ Len(<<>>) = 0
    BY NoBlocksType
  <2>3. NotPolling' /\ PolledInOrder' /\ StoredInOrder' /\ RecordedBlockKept'
    BY <2>1, <2>2 DEF NotPolling, PolledInOrder, StoredInOrder, RecordedBlockKept, Expected,
                      RollingBack
  <2>4. DetectorLinked' /\ (crashes' = 0 => StoredLinked')
    BY <2>1, <2>2 DEF DetectorLinked, StoredLinked, Linked
  <2> QED BY <2>3, <2>4 DEF PollInv
<1>3. CASE PollTick \/ PollBreak \/ PollDone
  BY <1>0, <1>3, PollFrame DEF PollTick, PollBreak, PollDone
<1>4. CASE PollBlock
  <2>1. /\ lpc = "fetch" /\ lpc' = "fetch" /\ next <= Len(chain) /\ next \in 0..Len(chain)
        /\ out' = Append(out, BlockAt(chain, next)) /\ next' = next + 1
    BY <1>0, <1>4 DEF PollBlock, Push
  <2>2. BlockAt(chain, next) \in Blocks /\ Number(BlockAt(chain, next)) = next
    <3>1. BlockAt(chain, next) \in Seq(Salt) /\ Len(BlockAt(chain, next)) = next
      BY <1>0, <2>1, BlockAtType
    <3>2. next >= 1 /\ Len(chain) <= MaxHeight
      BY <2>1, ChainIsSeq DEF ListenerInv, NextPositive, ChainTypeOK
    <3> QED BY <1>0, <2>1, <3>1, <3>2, BlockIsSeq DEF Number
  <2>3. /\ Len(out') = Len(out) + 1 /\ Len(out) \in Nat
        /\ \A i \in 1..Len(out) : out'[i] = out[i]
        /\ out'[Len(out) + 1] = BlockAt(chain, next)
    BY <1>0, <2>1, <2>2, AppendProperties, LenProperties
  <2>4. Expected' = Expected /\ Expected \in Int
    <3>1. \A m, k \in Nat : (m + 1) - (k + 1) = m - k /\ m - k \in Int
      OBVIOUS
    <3>2. PICK m \in Nat : m = next /\ next' = m + 1
      BY <1>0, <2>1
    <3>3. PICK k \in Nat : k = Len(out) /\ Len(out') = k + 1
      BY <2>3
    <3>4. next' - Len(out') = next - Len(out) /\ next - Len(out) \in Int
      BY <3>1, <3>2, <3>3
    <3> QED BY <3>4 DEF Expected
  <2>5. \A i \in 1..Len(out') : Number(out'[i]) = Expected' + i - 1
    <3>1. \A i \in 1..Len(out) : Number(out[i]) = Expected + i - 1
      BY <2>1 DEF PollInv, PolledInOrder
    <3>2. Expected + (Len(out) + 1) - 1 = next
      BY <1>0, <2>3 DEF Expected
    <3> TAKE i \in 1..Len(out')
    <3>3. CASE i \in 1..Len(out)
      BY <2>3, <2>4, <3>1, <3>3
    <3>4. CASE i = Len(out) + 1
      BY <2>2, <2>3, <2>4, <3>2, <3>4
    <3> QED BY <2>3, <3>3, <3>4
  <2>6. PolledInOrder'
    BY <1>0, <2>1, <2>4, <2>5 DEF PollInv, PolledInOrder
  <2>7. StoredInOrder'
    BY <1>0, <2>1, <2>4 DEF PollInv, StoredInOrder
  <2>8. RecordedBlockKept' /\ DetectorLinked' /\ (crashes' = 0 => StoredLinked')
    BY <1>0 DEF PollInv, RecordedBlockKept, DetectorLinked, StoredLinked, Linked
  <2> QED BY <2>1, <2>6, <2>7, <2>8 DEF PollInv, NotPolling
<1> QED
  BY <1>1, <1>2, <1>3, <1>4
     DEF ListenerStep, SubscribeNewHead, BackfillStart, BackfillSkipped, BackfillBlock,
         BackfillBreak, BackfillDone, LiveHeader, SubscriptionError

\* A header is received: its number is the expected one, above all the detector knows.
LEMMA PollReceive ==
    ASSUME IndexerInv, PollInv, ~HasWS, ReceiveLinked \/ ReceiveReorg
    PROVE  PollInv'
<1> USE ChainAssumption DEF Polling
<1>a. ListenerInv /\ MemTypeOK /\ StoreTypeOK
  BY IndexerInvParts
<1>0. /\ next \in Nat /\ out \in Seq(Blocks) /\ Len(out) \in Nat
      /\ hashes \in BlockMaps /\ blocks \in BlockMaps
  BY <1>a, LenProperties DEF ListenerInv, ListenerTypeOK, MemTypeOK, StoreTypeOK
<1>1. /\ pc = "idle" /\ out # <<>> /\ out' = Tail(out)
      /\ UNCHANGED <<lpc, next, blocks, crashes>>
      /\ cur' = Head(out)
  BY DEF ReceiveLinked, ReceiveReorg, Receive, storeVars
<1>2. lpc \in {"poll", "fetch"}
  BY <1>1 DEF PollInv, NotPolling
<1>3. PICK b \in Blocks : b = Head(out)
  BY <1>0, <1>1, HeadTailProperties
<1>4. /\ b = out[1] /\ Len(out') = Len(out) - 1 /\ Len(out) \in Nat \ {0}
      /\ \A i \in 1..Len(out') : out'[i] = out[i + 1]
  BY <1>0, <1>1, <1>3, HeadTailProperties, EmptySeq
<1>5. Expected' = Expected + 1 /\ Expected \in Int /\ Expected' - 1 = Expected
      /\ Expected' - 2 = Expected - 1
  BY <1>0, <1>1, <1>4 DEF Expected
<1>6. /\ \A i \in 1..Len(out) : Number(out[i]) = Expected + i - 1
      /\ \A n \in DOMAIN hashes : n < Expected
      /\ crashes = 0 => /\ \A n \in DOMAIN blocks : n < Expected
                        /\ Expected - 1 \in DOMAIN blocks =>
                             /\ Expected - 1 \in DOMAIN hashes
                             /\ hashes[Expected - 1] = blocks[Expected - 1]
      /\ DetectorLinked /\ (crashes = 0 => StoredLinked)
  BY <1>2 DEF PollInv, PolledInOrder, StoredInOrder
<1>7. Number(b) = Expected /\ Number(b) - 1 = Expected - 1 /\ Number(b) \notin DOMAIN hashes
  BY <1>4, <1>5, <1>6
<1>8. \A i \in 1..Len(out') : Number(out'[i]) = Expected' + i - 1
  <2> TAKE i \in 1..Len(out')
  <2>1. i + 1 \in 1..Len(out) /\ out'[i] = out[i + 1] /\ i \in Int
    BY <1>4
  <2>2. Number(out[i + 1]) = Expected + (i + 1) - 1
    BY <1>6, <2>1
  <2> QED BY <1>5, <2>1, <2>2
<1>9. DOMAIN hashes \subseteq Int /\ DOMAIN blocks \subseteq Int
  BY <1>0, BlockMapDef
<1>10. CASE ReceiveLinked
  <2>1. /\ hashes' = RecordBlock(hashes, b) /\ pc' = "saveBlock" /\ cur' = b
        /\ ~DetectReorg(hashes, b)
    BY <1>3, <1>10 DEF ReceiveLinked
  <2>2. /\ DOMAIN hashes' \subseteq DOMAIN hashes \cup {Number(b)}
        /\ \A n \in DOMAIN hashes' : hashes'[n] = IF n = Number(b) THEN b ELSE hashes[n]
        /\ Number(b) \in DOMAIN hashes'
    BY <1>0, <1>6, <1>7, <2>1, RecordedEntries, RecordKeepsHighest
  <2>3. Number(b) - 1 \in DOMAIN hashes => hashes[Number(b) - 1] = ParentHash(b)
    BY <1>7, <2>1 DEF DetectReorg, OtherParent
  <2>4. DetectorLinked'
    BY <1>0, <1>6, <1>7, <2>1, <2>3, RecordLinked DEF DetectorLinked
  <2>5. RecordedBlockKept'
    BY <2>1, <2>2 DEF RecordedBlockKept
  <2>6. PolledInOrder'
    BY <1>2, <1>5, <1>6, <1>7, <1>8, <1>9, <2>1, <2>2 DEF PolledInOrder, RollingBack
  <2>7. StoredInOrder'
    <3> SUFFICES ASSUME crashes = 0 PROVE StoredInOrder'
      BY <1>1 DEF StoredInOrder
    <3>1. \A n \in DOMAIN blocks' : n < Expected'
      BY <1>1, <1>5, <1>6, <1>9
    <3>2. Expected' - 1 \notin DOMAIN blocks'
      BY <1>1, <1>5, <1>6
    <3>3. Expected' - 2 \in DOMAIN blocks' => blocks'[Expected' - 2] = ParentHash(cur')
      BY <1>1, <1>5, <1>6, <1>7, <2>1, <2>3
    <3> QED BY <3>1, <3>2, <3>3 DEF StoredInOrder
  <2>8. crashes' = 0 => StoredLinked'
    BY <1>1, <1>6 DEF StoredLinked, Linked
  <2> QED BY <1>1, <1>2, <2>4, <2>5, <2>6, <2>7, <2>8 DEF PollInv, NotPolling
<1>11. CASE ReceiveReorg
  <2>1. hashes' = hashes /\ pc' = "delEvents" /\ cur' = b /\ fork' = ForkBlock(hashes, b)
    BY <1>3, <1>11 DEF ReceiveReorg
  <2>2. fork' = Expected - 1
    BY <1>7, <2>1 DEF ForkBlock, OtherAtHeight
  <2>3. PolledInOrder'
    BY <1>2, <1>5, <1>6, <1>7, <1>8, <1>9, <2>1, <2>2 DEF PolledInOrder, RollingBack
  <2>4. StoredInOrder'
    BY <1>1, <1>2, <1>5, <1>6, <1>9, <2>1 DEF StoredInOrder
  <2>5. RecordedBlockKept' /\ DetectorLinked' /\ (crashes' = 0 => StoredLinked')
    BY <1>1, <1>6, <2>1 DEF RecordedBlockKept, DetectorLinked, StoredLinked, Linked
  <2> QED BY <1>1, <1>2, <2>3, <2>4, <2>5 DEF PollInv, NotPolling
<1> QED BY <1>10, <1>11
\* HandleReorg's last step: the parent of the header in hand is forgotten with the rest
\* of its branch, so recording the header links it to nothing.
LEMMA PollRollback ==
    ASSUME IndexerInv, RefinementInv, PollInv, ~HasWS, RollSyncStatus
    PROVE  PollInv'
<1> USE ChainAssumption DEF Polling
<1>a. ListenerInv /\ MemTypeOK /\ StoreTypeOK /\ CoreInv
  BY IndexerInvParts
<1>0. /\ next \in Nat /\ Len(out) \in Nat /\ Expected \in Int
      /\ hashes \in BlockMaps /\ blocks \in BlockMaps
      /\ DOMAIN hashes \subseteq Int /\ DOMAIN blocks \subseteq Int
  BY <1>a, LenProperties, BlockMapDef
     DEF ListenerInv, ListenerTypeOK, MemTypeOK, StoreTypeOK, Expected
<1>1. /\ pc = "rollSync" /\ pc' = "saveBlock"
      /\ hashes' = RecordBlock(Rollback(hashes, fork), cur)
      /\ UNCHANGED <<lpc, next, out, cur, blocks, crashes>>
      /\ cur \in Blocks
  BY <1>a DEF RollSyncStatus, netVars, listenerVars, CoreInv, BlockInHand
<1>2. lpc \in {"poll", "fetch"}
  BY <1>1 DEF PollInv, NotPolling
<1>3. /\ \A i \in 1..Len(out) : Number(out[i]) = Expected + i - 1
      /\ \A n \in DOMAIN hashes : n < Expected
      /\ Number(cur) = Expected - 1
      /\ fork = Expected - 2
  BY <1>1, <1>2 DEF PollInv, PolledInOrder, RollingBack
<1>4. PICK f \in BlockMaps : f = Rollback(hashes, fork)
  BY <1>0, RollbackType
<1>5. (\A n \in DOMAIN f : n < fork) /\ Linked(f)
  <2>1. DOMAIN f = DOMAIN hashes \cap {n \in DOMAIN hashes : n < fork}
    BY <1>0, <1>4, KeepType DEF Rollback
  <2>2. Linked(f)
    BY <1>0, <1>4, KeepLinked DEF Rollback, PollInv, DetectorLinked
  <2> QED BY <2>1, <2>2
<1>6. /\ \A n \in DOMAIN f : n < Number(cur)
      /\ Number(cur) - 1 \notin DOMAIN f
  <2>1. DOMAIN f \subseteq Int
    BY BlockMapDef
  <2> QED BY <1>0, <1>3, <1>5, <2>1
<1>7. /\ DOMAIN hashes' \subseteq DOMAIN f \cup {Number(cur)}
      /\ \A n \in DOMAIN hashes' : hashes'[n] = IF n = Number(cur) THEN cur ELSE f[n]
      /\ Number(cur) \in DOMAIN hashes'
  BY <1>1, <1>4, <1>6, RecordedEntries, RecordKeepsHighest
<1>8. DetectorLinked'
  BY <1>1, <1>4, <1>5, <1>6, RecordLinked DEF DetectorLinked
<1>9. RecordedBlockKept'
  BY <1>1, <1>7 DEF RecordedBlockKept
<1>10. Expected' = Expected
  BY <1>1 DEF Expected
<1>11. PolledInOrder'
  <2>1. \A n \in DOMAIN hashes' : n < Expected'
    <3>1. DOMAIN f \subseteq Int
      BY BlockMapDef
    <3> QED BY <1>0, <1>3, <1>6, <1>7, <1>10, <3>1
  <2> QED BY <1>1, <1>2, <1>3, <1>10, <2>1 DEF PolledInOrder, RollingBack
<1>12. StoredInOrder'
  <2> SUFFICES ASSUME crashes = 0 PROVE StoredInOrder'
    BY <1>1 DEF StoredInOrder
  <2>1. /\ \A n \in DOMAIN blocks : n < Expected
        /\ Expected - 1 \notin DOMAIN blocks
    BY <1>1, <1>2 DEF PollInv, StoredInOrder, RollingBack
  <2>2. Expected - 2 \notin DOMAIN blocks
    BY <1>0, <1>1, <1>3 DEF RefinementInv, RolledBack
  <2> QED BY <1>1, <1>10, <2>1, <2>2 DEF StoredInOrder
<1>13. crashes' = 0 => StoredLinked'
  BY <1>1 DEF PollInv, StoredLinked
<1> QED BY <1>1, <1>2, <1>8, <1>9, <1>11, <1>12, <1>13 DEF PollInv, NotPolling

\* The blocks table: deleting from the fork on, and saving the block in hand.
LEMMA PollBlocks ==
    ASSUME IndexerInv, PollInv, ~HasWS, DeleteBlocksFromBlock \/ SaveBlock
    PROVE  PollInv'
<1> USE ChainAssumption DEF Polling
<1>a. ListenerInv /\ MemTypeOK /\ StoreTypeOK /\ CoreInv
  BY IndexerInvParts
<1>0. /\ next \in Nat /\ Len(out) \in Nat /\ Expected \in Int
      /\ hashes \in BlockMaps /\ blocks \in BlockMaps
  BY <1>a, LenProperties DEF ListenerInv, ListenerTypeOK, MemTypeOK, StoreTypeOK, Expected
<1>1. /\ UNCHANGED <<lpc, next, out, cur, fork, hashes, crashes>>
      /\ pc \in {"delBlocks", "saveBlock"} /\ cur \in Blocks
      /\ pc' \notin {"boot", "idle", "saveBlock"}
      /\ pc' \in RollingBack => pc \in RollingBack
      /\ pc' = "updSync" => pc = "saveBlock"
      /\ pc' # "filter"
  BY <1>a DEF DeleteBlocksFromBlock, SaveBlock, netVars, listenerVars, CoreInv, BlockInHand,
              RollingBack
<1>2. lpc \in {"poll", "fetch"}
  BY <1>1 DEF PollInv, NotPolling
<1>3. Expected' = Expected
  BY <1>1 DEF Expected
<1>4. PolledInOrder'
  BY <1>1, <1>2, <1>3 DEF PollInv, PolledInOrder
<1>5. RecordedBlockKept' /\ DetectorLinked'
  BY <1>1 DEF PollInv, RecordedBlockKept, DetectorLinked
<1>6. NotPolling'
  BY <1>1, <1>2 DEF NotPolling
<1>7. SUFFICES ASSUME crashes = 0 PROVE StoredInOrder' /\ StoredLinked'
  BY <1>1, <1>4, <1>5, <1>6 DEF PollInv, StoredInOrder
<1>8. /\ \A n \in DOMAIN blocks : n < Expected
      /\ Expected - 1 \notin DOMAIN blocks
      /\ pc = "saveBlock" /\ Expected - 2 \in DOMAIN blocks => blocks[Expected - 2] = ParentHash(cur)
      /\ Number(cur) = Expected - 1
      /\ StoredLinked
  BY <1>1, <1>2, <1>7 DEF PollInv, StoredInOrder, PolledInOrder, RollingBack
<1>9. CASE DeleteBlocksFromBlock
  <2>1. blocks' = Keep(blocks, {n \in DOMAIN blocks : n < fork})
    BY <1>9 DEF DeleteBlocksFromBlock
  <2>2. DOMAIN blocks' \subseteq DOMAIN blocks
    BY <1>0, <2>1, KeepType
  <2>3. StoredLinked'
    BY <1>0, <1>8, <2>1, KeepLinked DEF StoredLinked
  <2>4. StoredInOrder'
    BY <1>1, <1>3, <1>8, <2>2 DEF StoredInOrder
  <2> QED BY <2>3, <2>4
<1>10. CASE SaveBlock
  <2>1. blocks' = Put(blocks, cur) /\ pc = "saveBlock" /\ pc' = "updSync"
    BY <1>10 DEF SaveBlock
  <2>2. /\ DOMAIN blocks' = DOMAIN blocks \cup {Number(cur)}
        /\ blocks'[Number(cur)] = cur
    BY <1>0, <1>1, <2>1, PutType
  <2>3. /\ \A n \in DOMAIN blocks : n < Number(cur)
        /\ Number(cur) - 1 = Expected - 2
    <3>1. DOMAIN blocks \subseteq Int
      BY <1>0, BlockMapDef
    <3> QED BY <1>0, <1>8, <3>1
  <2>4. StoredLinked'
    BY <1>0, <1>1, <1>8, <2>1, <2>3, PutLinked DEF StoredLinked
  <2>5. Number(cur) \in DOMAIN hashes /\ hashes[Number(cur)] = cur
    BY <2>1 DEF PollInv, RecordedBlockKept
  <2>6. StoredInOrder'
    BY <1>0, <1>1, <1>3, <1>8, <2>1, <2>2, <2>5 DEF StoredInOrder, RollingBack
  <2> QED BY <2>4, <2>6
<1> QED BY <1>9, <1>10

LEMMA PollStep ==
    ASSUME IndexerInv, RefinementInv, PollInv, [IndexerNext]_vars
    PROVE  PollInv'
<1> SUFFICES ASSUME ~HasWS PROVE PollInv'
  BY DEF PollInv
<1>a. ChainTypeOK /\ ListenerInv /\ MemTypeOK
  BY IndexerInvParts
<1>1. CASE NodeMoves
  BY <1>1, PollFrame DEF NodeMoves, NodeStep, Mine, Reorg, Announce, memVars, storeVars
<1>2. CASE ListenerMoves \/ SubscriptionDrops
  BY <1>2, <1>a, PollListener DEF ListenerMoves, SubscriptionDrops
<1>3. CASE ReceiveLinked \/ ReceiveReorg
  BY <1>3, PollReceive
<1>4. CASE RollSyncStatus
  BY <1>4, PollRollback
<1>5. CASE DeleteBlocksFromBlock \/ SaveBlock
  BY <1>5, PollBlocks
<1>6. CASE GetSyncStatus \/ GetSyncStatusFails
  BY <1>6, PollFrame DEF GetSyncStatus, GetSyncStatusFails, Open, storeVars, RollingBack
<1>7. CASE DeleteEventsFromBlock \/ UpdateSyncStatus \/ FilterLogs \/ BlockIndexed
  BY <1>7, PollFrame DEF DeleteEventsFromBlock, UpdateSyncStatus, FilterLogs, BlockIndexed,
     netVars, listenerVars, storeVars, RollingBack
<1>8. CASE SkipLog \/ SaveEvent \/ SaveEventFails \/ Publish \/ PublishFails
  BY <1>8, PollFrame DEF SkipLog, SaveEvent, SaveEventFails, Publish, PublishFails,
     netVars, listenerVars, storeVars, RollingBack
<1>9. CASE HandleReorgFails \/ ProcessBlockFails \/ FilterLogsFails
  BY <1>9, PollFrame DEF HandleReorgFails, ProcessBlockFails, FilterLogsFails, Drop,
     netVars, listenerVars, storeVars, RollingBack
<1>10. CASE Restart
  <2>1. /\ lpc' = "off" /\ pc' = "boot" /\ out' = <<>> /\ hashes' = NoBlocks
        /\ crashes' # 0 /\ DOMAIN NoBlocks = {}
    BY <1>10, NoBlocksType, IndexerInvParts DEF Restart, BoundsOK
  <2> QED BY <2>1 DEF PollInv, NotPolling, PolledInOrder, StoredInOrder, RecordedBlockKept,
                      DetectorLinked, Linked, Polling
<1>11. CASE UNCHANGED vars
  BY <1>11, PollFrame DEF vars, netVars, listenerVars, memVars, storeVars, RollingBack
<1> QED
  BY <1>1, <1>2, <1>3, <1>4, <1>5, <1>6, <1>7, <1>8, <1>9, <1>10, <1>11
     DEF IndexerNext, IndexerStep

LEMMA PollInvariant == IndexerSpec => []PollInv
<1>1. IndexerInit => RefinementInv /\ PollInv
  BY NoBlocksType
     DEF IndexerInit, NetInit, ListenerInit, RefinementInv, ForkInHand, RolledBack, PollInv,
         NotPolling, PolledInOrder, StoredInOrder, RecordedBlockKept, DetectorLinked, StoredLinked,
         Linked, Polling
<1>2. IndexerInv /\ RefinementInv /\ [IndexerNext]_vars => RefinementInv'
  BY RefinementInvStep
<1>3. IndexerInv /\ RefinementInv /\ PollInv /\ [IndexerNext]_vars => PollInv'
  BY PollStep
<1> QED BY IndexerInvariant, <1>1, <1>2, <1>3, PTL DEF IndexerSpec

\* Polling by number across reorganisations of any depth, failing calls and restarts:
\* blocks of adjacent heights in the detector's window are always parent and child.
THEOREM PolledNeighboursLinked == IndexerSpec => [](~HasWS => DetectorLinked)
<1>1. PollInv => (~HasWS => DetectorLinked)
  BY DEF PollInv
<1> QED BY <1>1, PollInvariant, PTL

\* ... and holds the block in hand: the pruning of RecordBlock, whose bound is a uint64,
\* never empties a window that polling fills.
THEOREM PolledBlockIsRecorded == IndexerSpec => [](~HasWS => RecordedBlockKept)
<1>1. PollInv => (~HasWS => RecordedBlockKept)
  BY DEF PollInv
<1> QED BY <1>1, PollInvariant, PTL

\* So are stored blocks of adjacent heights, until a restart empties the window, although a
\* window may be a single block and any store call may fail.  Across the gap that a rollback
\* leaves, nothing is claimed (see ReindexedFromFork).
THEOREM PolledStoredNeighboursLinked ==
    IndexerSpec => [](~HasWS /\ crashes = 0 => StoredLinked)
<1>1. PollInv => (~HasWS /\ crashes = 0 => StoredLinked)
  BY DEF PollInv
<1> QED BY <1>1, PollInvariant, PTL
-----------------------------------------------------------------------------
(* A window that spans the chain: stored blocks are not replaced.          *)

LEMMA WindowStep ==
    ASSUME MaxBlocks >= MaxHeight, IndexerInv, RefinementInv, WindowInv, [IndexerNext]_vars
    PROVE  WindowInv'
<1> USE DEF WindowInv
<1> SUFFICES ASSUME crashes' = 0
             PROVE  /\ \A n \in DOMAIN blocks' : n \in DOMAIN hashes' /\ hashes'[n] = blocks'[n]
                    /\ RecordedBlockKept'
  OBVIOUS
<1>a. ListenerInv /\ MemTypeOK /\ StoreTypeOK /\ BoundsOK /\ CoreInv
  BY IndexerInvParts
<1>0. hashes \in BlockMaps /\ blocks \in BlockMaps /\ crashes \in Nat
  BY <1>a, IndexerAssumption DEF MemTypeOK, StoreTypeOK, BoundsOK
<1>1. ~Restart
  BY <1>0 DEF Restart
<1>2. crashes = 0
  BY <1>1, OutsideFrame
     DEF IndexerNext, IndexerStep, vars, GetSyncStatus, GetSyncStatusFails, ReceiveLinked,
         ReceiveReorg, DeleteEventsFromBlock, DeleteBlocksFromBlock, RollSyncStatus,
         HandleReorgFails, SaveBlock, UpdateSyncStatus, ProcessBlockFails, FilterLogs,
         FilterLogsFails, SkipLog, SaveEvent, SaveEventFails, Publish, PublishFails,
         BlockIndexed, Drop
<1>3. /\ \A n \in DOMAIN blocks : n \in DOMAIN hashes /\ hashes[n] = blocks[n]
      /\ RecordedBlockKept
  BY <1>2
<1>4. ASSUME UNCHANGED <<cur, hashes, blocks>>,
             pc' \in {"saveBlock", "updSync", "filter"} => pc \in {"saveBlock", "updSync", "filter"}
      PROVE  /\ \A n \in DOMAIN blocks' : n \in DOMAIN hashes' /\ hashes'[n] = blocks'[n]
             /\ RecordedBlockKept'
  BY <1>3, <1>4 DEF RecordedBlockKept
<1>5. CASE ReceiveLinked
  <2>1. Head(out) \in Blocks
    BY <1>5, <1>a, ReceiveType DEF ReceiveLinked
  <2>2. PICK b \in Blocks : b = Head(out)
    BY <2>1
  <2>3. /\ hashes' = Put(hashes, b) /\ blocks' = blocks /\ cur' = b
        /\ ~OtherAtHeight(hashes, b)
    BY <1>0, <1>5, <2>2, RecordKeepsAll DEF ReceiveLinked, DetectReorg, storeVars
  <2>4. /\ DOMAIN hashes' = DOMAIN hashes \cup {Number(b)}
        /\ hashes'[Number(b)] = b
        /\ \A n \in DOMAIN hashes : n # Number(b) => hashes'[n] = hashes[n]
    BY <1>0, <2>3, PutType
  <2>5. \A n \in DOMAIN hashes : hashes'[n] = hashes[n]
    BY <2>3, <2>4 DEF OtherAtHeight
  <2> QED BY <1>3, <2>3, <2>4, <2>5 DEF RecordedBlockKept
<1>6. CASE ReceiveReorg
  BY <1>3, <1>6 DEF ReceiveReorg, storeVars, RecordedBlockKept
<1>7. CASE DeleteBlocksFromBlock
  <2>1. /\ DOMAIN blocks' \subseteq DOMAIN blocks
        /\ \A n \in DOMAIN blocks' : blocks'[n] = blocks[n]
    BY <1>0, <1>7, KeepType DEF DeleteBlocksFromBlock
  <2> QED BY <1>3, <1>7, <2>1 DEF DeleteBlocksFromBlock, RecordedBlockKept
<1>8. CASE RollSyncStatus
  <2>1. /\ cur \in Blocks /\ cur' = cur /\ blocks' = blocks
        /\ fork \in 1..Number(cur) /\ Number(cur) \in Nat
        /\ \A n \in DOMAIN blocks : n < fork
    BY <1>8, <1>a, BlockIsSeq
       DEF RollSyncStatus, CoreInv, BlockInHand, RefinementInv, ForkInHand, RolledBack, Number
  <2>2. PICK f \in BlockMaps : f = Rollback(hashes, fork)
    BY <1>0, RollbackType
  <2>3. /\ DOMAIN f = DOMAIN hashes \cap {n \in DOMAIN hashes : n < fork}
        /\ \A n \in DOMAIN f : f[n] = hashes[n]
    <3>1. PICK D : D = {n \in DOMAIN hashes : n < fork}
      OBVIOUS
    <3>2. /\ DOMAIN Keep(hashes, D) = DOMAIN hashes \cap D
          /\ \A n \in DOMAIN hashes \cap D : Keep(hashes, D)[n] = hashes[n]
      BY <1>0, KeepType, Zenon
    <3>3. f = Keep(hashes, D)
      BY <2>2, <3>1 DEF Rollback
    <3> QED BY <3>1, <3>2, <3>3
  <2>4. hashes' = Put(f, cur)
    BY <1>8, <2>1, <2>2, RecordKeepsAll DEF RollSyncStatus
  <2>5. /\ DOMAIN hashes' = DOMAIN f \cup {Number(cur)}
        /\ hashes'[Number(cur)] = cur
        /\ \A n \in DOMAIN f : n # Number(cur) => hashes'[n] = f[n]
    BY <2>1, <2>4, PutType
  <2>6. ASSUME NEW n \in DOMAIN blocks
        PROVE  n \in DOMAIN hashes' /\ hashes'[n] = blocks[n]
    <3>1. n \in Nat /\ n # Number(cur) /\ n \in DOMAIN f
      <4>1. n \in Nat
        BY <1>0, BlockMapDef
      <4> QED BY <1>3, <2>1, <2>3, <4>1
    <3> QED BY <1>3, <2>3, <2>5, <3>1
  <2> QED BY <2>1, <2>5, <2>6 DEF RecordedBlockKept
<1>9. CASE SaveBlock
  <2>1. /\ cur \in Blocks /\ cur' = cur /\ hashes' = hashes /\ blocks' = Put(blocks, cur)
        /\ Number(cur) \in DOMAIN hashes /\ hashes[Number(cur)] = cur
    BY <1>3, <1>9, <1>a DEF SaveBlock, CoreInv, BlockInHand, RecordedBlockKept
  <2>2. /\ DOMAIN blocks' = DOMAIN blocks \cup {Number(cur)}
        /\ blocks'[Number(cur)] = cur
        /\ \A n \in DOMAIN blocks : n # Number(cur) => blocks'[n] = blocks[n]
    BY <1>0, <2>1, PutType
  <2> QED BY <1>3, <2>1, <2>2 DEF RecordedBlockKept
<1>10. CASE NodeMoves \/ ListenerMoves \/ SubscriptionDrops \/ UNCHANGED vars
  BY <1>4, <1>10, OutsideFrame DEF vars, memVars, storeVars
<1>11. ASSUME IndexerStep, ~ReceiveLinked, ~ReceiveReorg, ~DeleteBlocksFromBlock,
              ~RollSyncStatus, ~SaveBlock
       PROVE  /\ UNCHANGED <<cur, hashes, blocks>>
              /\ pc' \in {"saveBlock", "updSync", "filter"} =>
                     pc \in {"saveBlock", "updSync", "filter"}
  BY <1>11 DEF IndexerStep, GetSyncStatus, GetSyncStatusFails, DeleteEventsFromBlock,
     HandleReorgFails, UpdateSyncStatus, ProcessBlockFails, FilterLogs, FilterLogsFails, SkipLog,
     SaveEvent, SaveEventFails, Publish, PublishFails, BlockIndexed, Drop, storeVars
<1> QED
  BY <1>1, <1>4, <1>5, <1>6, <1>7, <1>8, <1>9, <1>10, <1>11 DEF IndexerNext

\* What a step may do to a stored block.
BlockKept == \A n \in DOMAIN blocks :
                crashes = 0 /\ n \in DOMAIN blocks' => blocks'[n] = blocks[n]

LEMMA BlockKeptStep ==
    ASSUME MaxBlocks >= MaxHeight \/ ~HasWS,
           IndexerInv, PollInv, WindowInv, IndexerNext
    PROVE  BlockKept
<1>a. StoreTypeOK /\ CoreInv
  BY IndexerInvParts
<1>0. blocks \in BlockMaps
  BY <1>a DEF StoreTypeOK
<1>1. CASE UNCHANGED blocks
  BY <1>1 DEF BlockKept
<1>2. CASE DeleteBlocksFromBlock
  BY <1>0, <1>2, KeepType DEF DeleteBlocksFromBlock, BlockKept
<1>3. CASE SaveBlock
  <2>1. /\ pc = "saveBlock" /\ cur \in Blocks /\ blocks' = Put(blocks, cur)
    BY <1>3, <1>a DEF SaveBlock, CoreInv, BlockInHand
  <2>2. /\ DOMAIN blocks' = DOMAIN blocks \cup {Number(cur)}
        /\ blocks'[Number(cur)] = cur
        /\ \A n \in DOMAIN blocks : n # Number(cur) => blocks'[n] = blocks[n]
    BY <1>0, <2>1, PutType
  <2>3. ASSUME crashes = 0, Number(cur) \in DOMAIN blocks
        PROVE  blocks[Number(cur)] = cur
    <3>1. CASE MaxBlocks >= MaxHeight
      BY <2>1, <2>3, <3>1 DEF WindowInv, RecordedBlockKept
    <3>2. CASE ~HasWS
      BY <2>1, <2>3, <3>2
         DEF PollInv, NotPolling, PolledInOrder, StoredInOrder, Polling, RollingBack
    <3> QED BY <3>1, <3>2
  <2> QED BY <2>2, <2>3 DEF BlockKept
<1>4. ASSUME ~DeleteBlocksFromBlock, ~SaveBlock
      PROVE  UNCHANGED blocks
  BY <1>4, OutsideFrame, QuietFrame
     DEF IndexerNext, IndexerStep, QuietStep, DeleteEventsFromBlock, RollSyncStatus,
         UpdateSyncStatus, SaveEvent, Restart, storeVars
<1> QED BY <1>1, <1>2, <1>3, <1>4

\* Until a restart, no stored block is replaced by another at its height unless HandleReorg
\* deleted it first: over a subscription when the window spans the chain, whatever repeats,
\* overtakes or fails; and when polling, with any window.
THEOREM NoSilentReplacement ==
    ASSUME MaxBlocks >= MaxHeight \/ ~HasWS
    PROVE  IndexerSpec => StoredBlockKept
<1>1. IndexerInit => RefinementInv /\ WindowInv
  BY NoBlocksType
     DEF IndexerInit, RefinementInv, ForkInHand, RolledBack, WindowInv, RecordedBlockKept
<1>2. IndexerInv /\ RefinementInv /\ [IndexerNext]_vars => RefinementInv'
  BY RefinementInvStep
<1>3. IndexerInv /\ RefinementInv /\ WindowInv /\ [IndexerNext]_vars => WindowInv'
  <2>1. CASE MaxBlocks >= MaxHeight
    BY <2>1, WindowStep
  <2>2. CASE ~(MaxBlocks >= MaxHeight)
    BY <2>2 DEF WindowInv
  <2> QED BY <2>1, <2>2
<1>4. IndexerInv /\ PollInv /\ WindowInv /\ [IndexerNext]_vars => [BlockKept]_vars
  BY BlockKeptStep
<1>5. IndexerSpec => [][BlockKept]_vars
  BY IndexerInvariant, PollInvariant, <1>1, <1>2, <1>3, <1>4, PTL DEF IndexerSpec
<1> QED BY <1>5 DEF StoredBlockKept, BlockKept
-----------------------------------------------------------------------------
(* Nothing is left out below the checkpoint.                               *)

\* Prefixes of a prefix.
LEMMA PrefixOfPrefix ==
    ASSUME NEW c \in Seq(Salt), NEW n \in 0..Len(c), NEW m \in 0..n
    PROVE  BlockAt(BlockAt(c, n), m) = BlockAt(c, m)
<1>1. Len(c) \in Nat
  BY LenProperties
<1>2. PICK d \in Seq(Salt) : d = BlockAt(c, n) /\ Len(d) = n
  BY BlockAtType
<1>3. \A i \in 1..n : d[i] = c[i]
  BY <1>1, <1>2 DEF BlockAt
<1>4. n \in 0..Len(c) /\ n <= Len(d) /\ n \in Nat
  BY <1>1, <1>2
<1> QED BY <1>2, <1>3, <1>4, PrefixKept

\* No reorganisation is seen in a window of canonical blocks when the header is canonical.
LEMMA CanonicalLinked ==
    ASSUME ChainTypeOK, NEW f \in BlockMaps, \A n \in DOMAIN f : Canonical(f[n]),
           NEW b \in Blocks, Canonical(b)
    PROVE  ~DetectReorg(f, b)
<1>1. /\ \A n \in DOMAIN f : Number(f[n]) = n /\ f[n] = BlockAt(chain, n)
      /\ Number(b) \in 1..MaxHeight /\ Number(b) <= Len(chain) /\ b = BlockAt(chain, Number(b))
      /\ chain \in Seq(Salt) /\ Len(chain) \in Nat
  BY BlockMapDef, BlockIsSeq, ChainIsSeq, ChainAssumption DEF Canonical, Number, ChainTypeOK
<1>2. ~OtherAtHeight(f, b)
  BY <1>1 DEF OtherAtHeight
<1>3. ParentHash(b) = BlockAt(chain, Number(b) - 1)
  <2>1. PICK n \in 1..Len(chain) : n = Number(b)
    BY <1>1, ChainAssumption
  <2>2. n \in 0..Len(chain) /\ n - 1 \in 0..n
    BY <1>1
  <2>3. BlockAt(BlockAt(chain, n), n - 1) = BlockAt(chain, n - 1)
    BY <1>1, <2>2, PrefixOfPrefix
  <2>4. ParentHash(b) = BlockAt(b, n - 1)
    BY <2>1 DEF ParentHash, BlockAt, Number
  <2> QED BY <1>1, <2>1, <2>3, <2>4
<1>4. ~OtherParent(f, b)
  BY <1>1, <1>3 DEF OtherParent
<1> QED BY <1>2, <1>4 DEF DetectReorg
\* What the listener sends is canonical and follows all lower numbers.
LEMMA PushCovered ==
    ASSUME out \in Seq(Blocks), NEW b \in Blocks, Push(b), NoGap', start' = start, start \in Nat,
           NEW A, 1..(start - 1) \subseteq A,
           sent \subseteq A \cup Numbers(out, Len(out)),
           Follows(out, 1, A)
    PROVE  /\ sent' \subseteq A \cup Numbers(out', Len(out'))
           /\ Follows(out', 1, A)
<1>1. PICK q \in Seq(Blocks) : q = out
  OBVIOUS
<1>2. PICK r : r = out'
  OBVIOUS
<1>3. r = Append(q, b) /\ sent' = sent \cup {Number(b)}
  BY <1>1, <1>2 DEF Push
<1>4. /\ Len(r) = Len(q) + 1 /\ Len(q) \in Nat
      /\ \A i \in 1..Len(q) : r[i] = q[i]
      /\ r[Len(q) + 1] = b
  BY <1>3, AppendProperties, LenProperties
<1>5. ASSUME NEW i \in 1..Len(q)
      PROVE  Numbers(r, i) = Numbers(q, i)
  <2>1. \A j \in 1..i : r[j] = q[j]
    BY <1>4
  <2> QED BY <2>1 DEF Numbers
<1>6. Numbers(q, Len(q)) \cup {Number(b)} \subseteq Numbers(r, Len(r))
  <2>1. ASSUME NEW j \in 1..Len(q) PROVE Number(q[j]) \in Numbers(r, Len(r))
    <3>1. j \in 1..Len(r) /\ r[j] = q[j]
      BY <1>4
    <3> QED BY <3>1 DEF Numbers
  <2>2. Number(b) \in Numbers(r, Len(r))
    <3>1. Len(r) \in 1..Len(r) /\ r[Len(r)] = b
      BY <1>4
    <3> QED BY <3>1 DEF Numbers
  <2> QED BY <2>1, <2>2 DEF Numbers
<1>7. sent' \subseteq A \cup Numbers(r, Len(r))
  BY <1>1, <1>3, <1>6
<1>8. 1..Number(b) \subseteq A \cup Numbers(r, Len(r))
  <2>1. start..Number(b) \subseteq sent'
    BY <1>3 DEF NoGap
  <2>2. Number(b) \in Nat
    BY BlockIsSeq DEF Number
  <2> SUFFICES ASSUME NEW n \in 1..Number(b)
               PROVE  n \in A \cup Numbers(r, Len(r))
    OBVIOUS
  <2>3. n \in 1..(start - 1) \/ n \in start..Number(b)
    BY <2>2
  <2> QED BY <1>7, <2>1, <2>3
<1>9. ASSUME NEW i \in 1..Len(r)
      PROVE  1..Number(r[i]) \subseteq A \cup Numbers(r, i)
  <2>1. CASE i \in 1..Len(q)
    BY <1>1, <1>4, <1>5, <2>1 DEF Follows
  <2>2. CASE i = Len(r)
    <3>1. r[i] = b
      BY <1>4, <2>2
    <3> QED BY <1>8, <2>2, <3>1
  <2> QED BY <1>4, <2>1, <2>2
<1> QED BY <1>2, <1>7, <1>9 DEF Follows

\* A block that is canonical stays so while the chain only grows.
LEMMA NodeCover ==
    ASSUME ChainTypeOK, ListenerInv, NodeStep, AllCanonical, reorgs' = 0,
           hashes' = hashes, hashes \in BlockMaps
    PROVE  AllCanonical'
<1>1. /\ chain' \in Chains /\ chain \in Seq(Salt) /\ Len(chain) \in Nat /\ Len(chain') \in Nat
      /\ reorgs = 0
  BY NodeKeepsPrefix, ChainIsSeq, ChainAssumption DEF ChainTypeOK
<1>2. PICK k \in 0..Len(chain) :
        /\ Announce(k)
        /\ k < Len(chain')
        /\ reorgs' = reorgs => k = Len(chain)
        /\ \A n \in 0..k : BlockAt(chain', n) = BlockAt(chain, n)
  BY NodeKeepsPrefix
<1>3. k = Len(chain) /\ k \in 0..Len(chain') /\ k <= Len(chain')
  BY <1>1, <1>2
<1>4. ASSUME NEW b \in Blocks, Canonical(b)
      PROVE  Number(b) <= Len(chain') /\ b = BlockAt(chain', Number(b))
  <2>1. Number(b) \in 0..k
    BY <1>3, <1>4, BlockIsSeq DEF Canonical, Number
  <2> QED BY <1>1, <1>2, <1>3, <1>4, <2>1 DEF Canonical
<1>5. /\ out' = out /\ out \in Seq(Blocks) /\ wsq \in Seq(Blocks)
      /\ \A i \in 1..Len(out) : out[i] \in Blocks
      /\ \A i \in 1..Len(wsq) : wsq[i] \in Blocks
      /\ \A n \in DOMAIN hashes : hashes[n] \in Blocks
  BY <1>2, ElementOfSeq, BlockMapDef DEF Announce, ListenerInv, ListenerTypeOK
<1>6. ASSUME NEW i \in 1..Len(wsq')
      PROVE  Number(wsq'[i]) <= Len(chain') /\ wsq'[i] = BlockAt(chain', Number(wsq'[i]))
  <2>1. CASE wsq' = wsq
    BY <1>4, <1>5, <2>1 DEF AllCanonical
  <2>2. CASE wsq' = wsq \o Announced(chain', k)
    <3>1. Appended(wsq \o Announced(chain', k), wsq, chain', k)
      BY <1>1, <1>3, <1>5, AnnouncedQueue
    <3>2. Appended(wsq', wsq, chain', k)
      BY <2>2, <3>1
    <3>3. /\ Len(wsq') = Len(wsq) + (Len(chain') - k) /\ Len(wsq) \in Nat
          /\ \A j \in 1..Len(wsq) : wsq'[j] = wsq[j]
          /\ \A j \in 1..(Len(chain') - k) : /\ wsq'[Len(wsq) + j] = BlockAt(chain', k + j)
                                             /\ Number(wsq'[Len(wsq) + j]) = k + j
      BY <1>5, <3>2, LenProperties DEF Appended
    <3>4. CASE i \in 1..Len(wsq)
      BY <1>4, <1>5, <3>3, <3>4 DEF AllCanonical
    <3>5. CASE i > Len(wsq)
      <4>1. PICK j \in 1..(Len(chain') - k) : i = Len(wsq) + j
        <5>1. i - Len(wsq) \in 1..(Len(chain') - k) /\ i = Len(wsq) + (i - Len(wsq))
          BY <1>1, <3>3, <3>5
        <5> QED BY <5>1
      <4> QED BY <1>1, <1>3, <3>3, <4>1
    <3> QED BY <3>3, <3>4, <3>5
  <2> QED BY <1>2, <2>1, <2>2 DEF Announce
<1> QED BY <1>4, <1>5, <1>6 DEF AllCanonical, Canonical
\* The listener, as long as nothing fails.
LEMMA ListenerCover ==
    ASSUME ChainTypeOK, ListenerInv, StreamInv', AllCanonical, AllCovered, Undisturbed',
           ListenerStep \/ SubscriptionError,
           UNCHANGED <<chainVars, memVars, storeVars, opFaults, crashes>>
    PROVE  AllCanonical' /\ AllCovered'
<1> USE ChainAssumption
<1>0. /\ chain' = chain /\ Len(chain) \in 0..MaxHeight /\ chain \in Seq(Salt)
      /\ start \in Nat /\ next \in Nat /\ out \in Seq(Blocks) /\ wsq \in Seq(Blocks)
      /\ UNCHANGED <<pc, cur, hashes, blocks>>
  BY ChainIsSeq DEF chainVars, ChainTypeOK, ListenerInv, ListenerTypeOK, memVars, storeVars
<1>1. ASSUME UNCHANGED <<out, sent, start>>, wsq' = wsq, lpc # "off", lpc' # "off"
      PROVE  AllCanonical' /\ AllCovered'
  BY <1>0, <1>1 DEF AllCanonical, Canonical, AllCovered, Arrived, Follows, Numbers
<1>2. ASSUME NEW b \in Blocks, Push(b), Canonical(b), start' = start, lpc # "off", NoGap',
             \A i \in 1..Len(wsq') : Canonical(wsq'[i])
      PROVE  AllCanonical' /\ AllCovered'
  <2>1. Arrived' = Arrived
    BY <1>0 DEF Arrived
  <2>2. 1..(start - 1) \subseteq Arrived
    BY <1>2 DEF AllCovered, Arrived
  <2>3. sent \subseteq Arrived \cup Numbers(out, Len(out)) /\ Follows(out, 1, Arrived)
    BY DEF AllCovered
  <2>4. PICK A : A = Arrived
    OBVIOUS
  <2>5. sent' \subseteq A \cup Numbers(out', Len(out')) /\ Follows(out', 1, A)
    BY <1>0, <1>2, <2>2, <2>3, <2>4, PushCovered
  <2>6. AllCovered'
    BY <1>0, <1>2, <2>1, <2>4, <2>5 DEF AllCovered, Follows, Numbers
  <2>7. \A i \in 1..Len(out') : Canonical(out'[i])
    <3>1. /\ Len(out') = Len(out) + 1 /\ Len(out) \in Nat
          /\ \A i \in 1..Len(out) : out'[i] = out[i]
          /\ out'[Len(out) + 1] = b
      BY <1>0, <1>2, AppendProperties, LenProperties DEF Push
    <3> TAKE i \in 1..Len(out')
    <3>2. CASE i \in 1..Len(out)
      BY <3>1, <3>2 DEF AllCanonical
    <3>3. CASE i = Len(out) + 1
      BY <1>2, <3>1, <3>3
    <3> QED BY <3>1, <3>2, <3>3
  <2> QED BY <1>0, <1>2, <2>6, <2>7 DEF AllCanonical, Canonical
<1>3. CASE SubscribeNewHead \/ SubscribeNewHeadFails \/ BackfillStart \/ BackfillSkipped
           \/ BackfillBreak \/ BackfillDone \/ PollTick \/ PollBreak \/ PollDone
  BY <1>1, <1>3 DEF SubscribeNewHead, SubscribeNewHeadFails, BackfillStart, BackfillSkipped,
                    BackfillBreak, BackfillDone, PollTick, PollBreak, PollDone
<1>4. StreamInv' => (lpc' \in {"backfill", "fetch", "live"} => NoGap')
  <2> SUFFICES ASSUME lpc' \in {"backfill", "fetch", "live"} PROVE NoGap'
    OBVIOUS
  <2>1. NumbersInOrder'
    BY DEF Undisturbed, StreamInv, Healthy
  <2>2. CASE lpc' = "live"
    BY <2>1, <2>2 DEF NumbersInOrder
  <2>3. CASE lpc' \in {"backfill", "fetch"}
    <3>1. sent' = start'..(next' - 1) /\ start' \in Nat /\ next' \in Nat
      BY <2>1, <2>3, ListenerMovesType DEF NumbersInOrder, ListenerInv, ListenerTypeOK
    <3>2. PICK lo \in Nat, hi \in Nat : lo = start' /\ hi = next'
      BY <3>1
    <3>3. \A n \in lo..(hi - 1) : lo..n \subseteq lo..(hi - 1)
      OBVIOUS
    <3> QED BY <3>1, <3>2, <3>3 DEF NoGap
  <2> QED BY <2>2, <2>3
<1>5. CASE BackfillBlock \/ PollBlock
  <2>1. /\ lpc \in {"backfill", "fetch"} /\ lpc' = lpc /\ next <= Len(chain)
        /\ Push(BlockAt(chain, next)) /\ UNCHANGED <<start, wsq>>
    BY <1>5 DEF BackfillBlock, PollBlock
  <2>2. next >= 1 /\ next \in 0..Len(chain)
    BY <1>0, <2>1 DEF ListenerInv, NextPositive
  <2>3. BlockAt(chain, next) \in Seq(Salt) /\ Len(BlockAt(chain, next)) = next
    BY <1>0, <2>2, BlockAtType
  <2>4. BlockAt(chain, next) \in Blocks
    BY <1>0, <2>2, <2>3, BlockIsSeq
  <2>5. Canonical(BlockAt(chain, next))
    BY <2>1, <2>3 DEF Canonical, Number
  <2> QED BY <1>2, <1>4, <2>1, <2>4, <2>5 DEF AllCanonical
<1>6. CASE LiveHeader
  <2>1. /\ lpc = "live" /\ lpc' = "live" /\ wsq # <<>> /\ wsq' = Tail(wsq)
        /\ Push(Head(wsq)) /\ start' = start
    BY <1>6 DEF LiveHeader
  <2>2. /\ Head(wsq) \in Blocks /\ Head(wsq) = wsq[1] /\ 1 \in 1..Len(wsq)
        /\ \A i \in 1..Len(wsq') : i + 1 \in 1..Len(wsq) /\ wsq'[i] = wsq[i + 1]
    BY <1>0, <2>1, HeadTailProperties, LenProperties, EmptySeq
  <2>3. Canonical(Head(wsq)) /\ \A i \in 1..Len(wsq') : Canonical(wsq'[i])
    BY <2>2 DEF AllCanonical
  <2> QED BY <1>2, <1>4, <2>1, <2>2, <2>3
<1>7. CASE SubscriptionError
  <2>1. faults' = faults + 1 /\ faults \in Nat /\ faults' = 0
    BY <1>7, ListenerAssumption
       DEF SubscriptionError, Fault, Undisturbed, ListenerInv, ListenerTypeOK
  <2> QED BY <2>1
<1> QED BY <1>3, <1>5, <1>6, <1>7 DEF ListenerStep

\* Every step of the system, as long as nothing fails and the chain only grows.
LEMMA CoverStep ==
    ASSUME IndexerInv, StreamInv, StreamInv', CoverInv, [IndexerNext]_vars
    PROVE  CoverInv'
<1> SUFFICES ASSUME Undisturbed'
             PROVE  AllCanonical' /\ AllCovered' /\ BlocksCovered'
  BY DEF CoverInv
<1> USE ChainAssumption, IndexerAssumption
<1>a. /\ ChainTypeOK /\ ListenerInv /\ MemTypeOK /\ StoreTypeOK /\ BoundsOK
      /\ CoreInv
  BY IndexerInvParts
<1>0. /\ hashes \in BlockMaps /\ blocks \in BlockMaps
      /\ faults \in Nat /\ opFaults \in Nat /\ reorgs \in Nat
      /\ faults' = 0 /\ opFaults' = 0 /\ reorgs' = 0
  BY <1>a, ListenerAssumption
     DEF MemTypeOK, StoreTypeOK, BoundsOK, ChainTypeOK, ListenerInv, ListenerTypeOK, Undisturbed
<1>1. ~OpFault
  BY <1>0 DEF OpFault
<1>2. Undisturbed
  <2>1. faults <= faults'
    <3>1. faults' = faults \/ faults' = faults + 1
      BY DEF IndexerNext, IndexerStep, NodeMoves, NodeStep, Mine, Reorg, Announce, ListenerMoves,
         SubscriptionDrops, ListenerStep, SubscribeNewHead, SubscribeNewHeadFails, BackfillStart,
         BackfillSkipped, BackfillBlock, BackfillBreak, BackfillDone, LiveHeader, PollTick,
         PollBlock, PollBreak, PollDone, SubscriptionError, Fault, Restart, GetSyncStatus,
         GetSyncStatusFails, Open, ReceiveLinked, ReceiveReorg, Receive, DeleteEventsFromBlock,
         DeleteBlocksFromBlock, RollSyncStatus, HandleReorgFails, SaveBlock, UpdateSyncStatus,
         ProcessBlockFails, FilterLogs, FilterLogsFails, SkipLog, SaveEvent, SaveEventFails,
         Publish, PublishFails, BlockIndexed, Drop, vars, netVars, listenerVars
    <3> QED BY <1>0, <3>1
  <2>2. opFaults <= opFaults'
    <3>1. opFaults' = opFaults \/ opFaults' = opFaults + 1
      BY OutsideFrame DEF IndexerNext, IndexerStep, Restart, GetSyncStatus,
         GetSyncStatusFails, ReceiveLinked, ReceiveReorg, DeleteEventsFromBlock,
         DeleteBlocksFromBlock, RollSyncStatus, HandleReorgFails, SaveBlock, UpdateSyncStatus,
         ProcessBlockFails, FilterLogs, FilterLogsFails, SkipLog, SaveEvent, SaveEventFails,
         Publish, PublishFails, BlockIndexed, Drop, OpFault, vars
    <3> QED BY <1>0, <3>1
  <2>3. reorgs <= reorgs'
    <3>1. CASE NodeMoves
      BY <1>a, <3>1, NodeKeepsPrefix DEF NodeMoves
    <3>2. CASE ~NodeMoves
      <4>1. reorgs' = reorgs
        BY <3>2 DEF IndexerNext, IndexerStep, ListenerMoves, SubscriptionDrops, Restart,
         GetSyncStatus, GetSyncStatusFails, ReceiveLinked, ReceiveReorg, DeleteEventsFromBlock,
         DeleteBlocksFromBlock, RollSyncStatus, HandleReorgFails, SaveBlock, UpdateSyncStatus,
         ProcessBlockFails, FilterLogs, FilterLogsFails, SkipLog, SaveEvent, SaveEventFails,
         Publish, PublishFails, BlockIndexed, Drop, vars, netVars, chainVars
      <4> QED BY <1>0, <4>1
    <3> QED BY <3>1, <3>2
  <2> QED BY <1>0, <2>1, <2>2, <2>3 DEF Undisturbed
<1>3. AllCanonical /\ AllCovered /\ (1..sync \subseteq DOMAIN blocks)
  BY <1>2 DEF CoverInv, BlocksCovered
<1>4. ASSUME UNCHANGED <<chainVars, lpc, start, wsq, out, sent, hashes, blocks, sync, cur>>,
             pc' = pc \/ (/\ pc' \notin RollingBack \cup {"saveBlock", "updSync"}
                          /\ pc # "saveBlock")
      PROVE  AllCanonical' /\ AllCovered' /\ BlocksCovered'
  <2>1. Arrived' = Arrived
    BY <1>4 DEF Arrived
  <2>2. AllCanonical' /\ BlocksCovered'
    BY <1>3, <1>4 DEF AllCanonical, Canonical, chainVars, BlocksCovered
  <2>3. AllCovered'
    BY <1>3, <1>4, <2>1 DEF AllCovered, Follows, Numbers
  <2> QED BY <2>2, <2>3
<1>5. CASE NodeMoves
  <2>1. NodeStep /\ UNCHANGED <<pc, cur, hashes, blocks, sync>>
    BY <1>5 DEF NodeMoves, memVars, storeVars
  <2>2. AllCanonical'
    BY <1>0, <1>3, <1>a, <2>1, NodeCover
  <2>3. UNCHANGED <<lpc, start, out, sent>>
    BY <2>1 DEF NodeStep, Mine, Reorg, Announce
  <2>4. Arrived' = Arrived
    BY <2>1 DEF Arrived
  <2>5. AllCovered' /\ BlocksCovered'
    BY <1>3, <2>1, <2>3, <2>4 DEF AllCovered, Follows, Numbers, BlocksCovered
  <2> QED BY <2>2, <2>5
<1>6. CASE ListenerMoves \/ SubscriptionDrops
  <2>1. AllCanonical' /\ AllCovered'
    BY <1>3, <1>6, <1>a, ListenerCover DEF ListenerMoves, SubscriptionDrops
  <2>2. BlocksCovered'
    BY <1>3, <1>6 DEF ListenerMoves, SubscriptionDrops, storeVars, BlocksCovered
  <2> QED BY <2>1, <2>2
<1>7. CASE GetSyncStatus
  <2>1. /\ UNCHANGED <<chainVars, wsq, out, sent, hashes, blocks, sync, cur>>
        /\ pc = "boot" /\ pc' = "idle" /\ start' = sync + 1 /\ sync \in Nat
    BY <1>7, <1>a DEF GetSyncStatus, Open, storeVars, StoreTypeOK
  <2>2. Arrived' = Arrived
    BY <2>1 DEF Arrived
  <2>3. 1..(start' - 1) \subseteq DOMAIN blocks'
    BY <1>3, <2>1
  <2>4. AllCanonical' /\ BlocksCovered'
    BY <1>3, <2>1 DEF AllCanonical, Canonical, chainVars, BlocksCovered
  <2>5. AllCovered'
    BY <1>3, <2>1, <2>2, <2>3 DEF AllCovered, Follows, Numbers, RollingBack
  <2> QED BY <2>4, <2>5
<1>8. CASE ReceiveLinked
  <2>1. /\ pc = "idle" /\ pc' = "saveBlock" /\ out # <<>> /\ out' = Tail(out) /\ cur' = Head(out)
        /\ UNCHANGED <<chainVars, lpc, start, wsq, sent, blocks, sync>>
        /\ hashes' = RecordBlock(hashes, Head(out))
    BY <1>8 DEF ReceiveLinked, Receive, storeVars
  <2>2. PICK q \in Seq(Blocks) : q = out
    BY <1>a DEF ListenerInv, ListenerTypeOK
  <2>3. PICK b \in Blocks : b = Head(q)
    BY <2>1, <2>2, HeadTailProperties
  <2>4. /\ b = q[1] /\ 1 \in 1..Len(q)
        /\ \A i \in 1..Len(Tail(q)) : i + 1 \in 1..Len(q) /\ Tail(q)[i] = q[i + 1]
    BY <2>1, <2>2, <2>3, HeadTailProperties, LenProperties, EmptySeq
  <2>5. AllCanonical'
    <3>1. \A i \in 1..Len(q) : Canonical(q[i])
      BY <1>3, <2>2 DEF AllCanonical
    <3>2. /\ DOMAIN hashes' \subseteq DOMAIN hashes \cup {Number(b)}
          /\ \A n \in DOMAIN hashes' : hashes'[n] = IF n = Number(b) THEN b ELSE hashes[n]
      BY <1>0, <2>1, <2>2, <2>3, RecordedEntries
    <3>3. \A n \in DOMAIN hashes' : Canonical(hashes'[n])
      BY <1>3, <2>4, <3>1, <3>2 DEF AllCanonical
    <3>4. \A i \in 1..Len(out') : Canonical(out'[i])
      BY <2>1, <2>2, <2>4, <3>1
    <3> QED BY <1>3, <2>1, <3>3, <3>4 DEF AllCanonical, Canonical, chainVars
  <2>6. /\ Arrived = DOMAIN blocks /\ Arrived' = DOMAIN blocks \cup {Number(b)}
    BY <2>1, <2>2, <2>3 DEF Arrived
  <2>7. PICK K, J : K = Arrived /\ J = Arrived'
    OBVIOUS
  <2>8. /\ Follows(q, 1, K) /\ K \cup {Number(Head(q))} \subseteq J
        /\ sent \subseteq K \cup Numbers(q, Len(q))
    BY <1>3, <2>2, <2>3, <2>6, <2>7 DEF AllCovered
  <2>9. /\ 1..Number(Head(q)) \subseteq J
        /\ Follows(Tail(q), 1, J)
        /\ K \cup Numbers(q, Len(q)) \subseteq J \cup Numbers(Tail(q), Len(Tail(q)))
    BY <2>1, <2>2, <2>8, TailCovered
  <2>10. AllCovered'
    <3>1. lpc' # "off" => 1..(start' - 1) \subseteq DOMAIN blocks'
      BY <1>3, <2>1 DEF AllCovered
    <3>2. out' = Tail(q) /\ cur' = Head(q) /\ sent' = sent
      BY <2>1, <2>2
    <3>3. sent' \subseteq Arrived' \cup Numbers(out', Len(out'))
      BY <2>7, <2>8, <2>9, <3>2
    <3>4. Follows(out', 1, Arrived') /\ 1..Number(cur') \subseteq Arrived'
      BY <2>7, <2>9, <3>2
    <3> QED BY <2>1, <3>1, <3>3, <3>4 DEF AllCovered, RollingBack, Follows, Numbers
  <2>11. BlocksCovered'
    BY <1>3, <2>1 DEF BlocksCovered
  <2> QED BY <2>5, <2>10, <2>11
<1>9. CASE ReceiveReorg
  <2>1. out # <<>> /\ DetectReorg(hashes, Head(out))
    BY <1>9 DEF ReceiveReorg, Receive
  <2>2. PICK b \in Blocks : b = Head(out)
    BY <1>9, <1>a, ReceiveType DEF ReceiveReorg
  <2>3. b = out[1] /\ 1 \in 1..Len(out)
    BY <1>a, <2>1, <2>2, HeadTailProperties, LenProperties, EmptySeq
       DEF ListenerInv, ListenerTypeOK
  <2>4. ~DetectReorg(hashes, b)
    BY <1>0, <1>3, <1>a, <2>3, CanonicalLinked DEF AllCanonical
  <2> QED BY <2>1, <2>2, <2>4
<1>10. CASE SaveBlock
  <2>1. /\ pc = "saveBlock" /\ pc' = "updSync" /\ blocks' = Put(blocks, cur) /\ cur \in Blocks
        /\ UNCHANGED <<chainVars, lpc, start, wsq, out, sent, hashes, sync, cur>>
    BY <1>10, <1>a DEF SaveBlock, netVars, listenerVars, CoreInv, BlockInHand
  <2>2. DOMAIN blocks' = DOMAIN blocks \cup {Number(cur)}
    BY <1>0, <2>1, PutType
  <2>3. Arrived' = Arrived
    BY <2>1, <2>2 DEF Arrived
  <2>4. AllCanonical' /\ BlocksCovered'
    BY <1>3, <2>1, <2>2 DEF AllCanonical, Canonical, chainVars, BlocksCovered
  <2>5. AllCovered'
    BY <1>3, <2>1, <2>2, <2>3 DEF AllCovered, Follows, Numbers, RollingBack
  <2> QED BY <2>4, <2>5
<1>11. CASE UpdateSyncStatus
  <2>1. /\ pc = "updSync" /\ pc' = "filter" /\ sync' = Number(cur)
        /\ UNCHANGED <<chainVars, lpc, start, wsq, out, sent, hashes, blocks, cur>>
    BY <1>11 DEF UpdateSyncStatus, netVars, listenerVars
  <2>2. Arrived' = Arrived /\ Arrived = DOMAIN blocks
    BY <2>1 DEF Arrived
  <2>3. AllCanonical' /\ BlocksCovered'
    BY <1>3, <2>1, <2>2 DEF AllCanonical, Canonical, chainVars, BlocksCovered, AllCovered
  <2>4. AllCovered'
    BY <1>3, <2>1, <2>2 DEF AllCovered, Follows, Numbers, RollingBack
  <2> QED BY <2>3, <2>4
<1>12. CASE FilterLogs \/ SkipLog \/ SaveEvent \/ Publish \/ BlockIndexed
  BY <1>4, <1>12 DEF FilterLogs, SkipLog, SaveEvent, Publish, BlockIndexed, netVars, listenerVars,
                     storeVars, RollingBack
<1>13. CASE GetSyncStatusFails \/ HandleReorgFails \/ ProcessBlockFails \/ FilterLogsFails
            \/ SaveEventFails \/ PublishFails
  BY <1>1, <1>13 DEF GetSyncStatusFails, HandleReorgFails, ProcessBlockFails, FilterLogsFails,
                     SaveEventFails, PublishFails, Drop
<1>14. CASE DeleteEventsFromBlock \/ DeleteBlocksFromBlock \/ RollSyncStatus
  BY <1>3, <1>14 DEF DeleteEventsFromBlock, DeleteBlocksFromBlock, RollSyncStatus, AllCovered,
                     RollingBack
<1>15. CASE Restart
  <2>1. /\ pc' = "boot" /\ lpc' = "off" /\ wsq' = <<>> /\ out' = <<>> /\ sent' = {}
        /\ hashes' = NoBlocks /\ UNCHANGED <<blocks, sync>> /\ DOMAIN NoBlocks = {}
    BY <1>15, NoBlocksType DEF Restart, storeVars
  <2>2. AllCanonical' /\ BlocksCovered'
    BY <1>3, <2>1 DEF AllCanonical, BlocksCovered
  <2>3. AllCovered'
    BY <2>1 DEF AllCovered, Follows, RollingBack
  <2> QED BY <2>2, <2>3
<1>16. CASE UNCHANGED vars
  BY <1>4, <1>16 DEF vars, netVars, listenerVars, memVars, storeVars
<1> QED
  BY <1>5, <1>6, <1>7, <1>8, <1>9, <1>10, <1>11, <1>12, <1>13, <1>14, <1>15, <1>16
     DEF IndexerNext, IndexerStep

\* ProcessBlock moves the checkpoint after the block is stored and the listener resumes
\* after the checkpoint: wherever and however often the process stops, in both modes and
\* however the backfill and the announcements interleave, no block below the checkpoint is
\* left out, as long as no call fails and the chain does not reorganise.
THEOREM CheckpointHasNoHole == IndexerSpec => []BlocksCovered
<1>1. IndexerInit => StreamInv /\ CoverInv
  <2>1. IndexerInit => StreamInv
    BY StreamInit
  <2>2. IndexerInit => CoverInv
    BY NoBlocksType DEF IndexerInit, NetInit, ListenerInit, CoverInv, AllCanonical, AllCovered,
       BlocksCovered, Follows, RollingBack
  <2> QED BY <2>1, <2>2
<1>2. IndexerInv /\ StreamInv /\ [IndexerNext]_vars => StreamInv'
  BY StreamStep
<1>3. IndexerInv /\ StreamInv /\ StreamInv' /\ CoverInv /\ [IndexerNext]_vars => CoverInv'
  BY CoverStep
<1>4. CoverInv => BlocksCovered
  BY DEF CoverInv, BlocksCovered
<1> QED BY IndexerInvariant, <1>1, <1>2, <1>3, <1>4, PTL DEF IndexerSpec

-----------------------------------------------------------------------------
(* Caught up means in sync.                                                *)

\* The listener has read the head it backfills to.
Started == lpc \in {"backfill", "live"}

\* The window spans the chain; or it is as deep as a reorganisation, and the chain was as
\* high as both together when the listener started: below that RecordBlock's subtraction
\* wraps around when a height comes a second time, and the window is emptied.
WindowSuffices ==
    \/ MaxBlocks >= MaxHeight
    \/ MaxDepth <= MaxBlocks /\ (Started => latest + 1 >= MaxBlocks + MaxDepth)

\* The behaviours it is shown for: a subscription that no failure, restart or lower head
\* has disturbed, and such a window.
Faultless == /\ HasWS /\ WindowSuffices
             /\ faults = 0 /\ opFaults = 0 /\ crashes = 0
             /\ MayShrink => reorgs = 0

\* Block b is in queue q, at place i or later.
In(b, q, i) == \E j \in i..Len(q) : q[j] = b

\* Block a is b or one of its ancestors.
Descends(b, a) == Number(a) <= Number(b) /\ BlockAt(b, Number(a)) = a

\* The heights that the backfill has still to fetch, from whatever the chain is then.
ToFetch == IF lpc \in {"off", "dial", "latest"} THEN 1..Len(chain)
           ELSE IF lpc = "backfill" THEN next..latest
           ELSE {}

\* The canonical block of height n is still to come, after place i of the channel.
Coming(n, i) == \/ n \in ToFetch
                \/ In(BlockAt(chain, n), out, i + 1)
                \/ In(BlockAt(chain, n), wsq, 1)

\* Nothing is higher than the chain, and what was sent is below the backfill.
Bounded ==
    /\ Number(cur) <= Len(chain)
    /\ \A i \in 1..Len(out) : Number(out[i]) <= Len(chain)
    /\ \A i \in 1..Len(wsq) : Number(wsq[i]) <= Len(chain)
    /\ lpc = "backfill" => /\ next >= 1 /\ latest <= Len(chain)
                           /\ Number(cur) < next
                           /\ \A i \in 1..Len(out) : Number(out[i]) < next

\* Before the backfill nothing was sent or received.
Fresh ==
    /\ lpc # "off" => start = 1
    /\ lpc \in {"off", "dial", "latest"} => out = <<>> /\ cur = <<>>
    /\ lpc \in {"off", "dial"} => wsq = <<>>
    /\ pc = "boot" => lpc = "off"
    /\ lpc = "off" => sync = 0

\* Each canonical block is an ancestor of the header at hand, or comes after it; and so for
\* each header on its way.
Overtaken ==
    \A n \in 1..Len(chain) :
        /\ cur # <<>> => Descends(cur, BlockAt(chain, n)) \/ Coming(n, 0)
        /\ \A i \in 1..Len(out) : Descends(out[i], BlockAt(chain, n)) \/ Coming(n, i)
        /\ \A i \in 1..Len(wsq) : \/ Descends(wsq[i], BlockAt(chain, n))
                                  \/ In(BlockAt(chain, n), wsq, i + 1)
        /\ lpc = "backfill" /\ n > latest => In(BlockAt(chain, n), wsq, 1)

QueueInv == Bounded /\ Fresh /\ Overtaken

\* Block b is on its way, at place i of the channel or later.
Queued(b) == In(b, out, 1) \/ In(b, wsq, 1)
After(b, i) == In(b, out, i + 1) \/ In(b, wsq, 1)

\* No reorganisation reaches height n any more; or has reached it since the start.
Deep(n) == n + MaxDepth <= Len(chain)
Frozen(n) == Started /\ n + MaxDepth <= latest

\* A header is less than a reorganisation's depth above those behind it, unless these
\* repeat what the backfill fetched.
Behind(x, y) == Number(x) < Number(y) + MaxDepth \/ Frozen(Number(y))

Shallow ==
    /\ Started => latest <= Len(chain)
    /\ \A b \in Blocks : cur # <<>> /\ Queued(b) => Behind(cur, b)
    /\ \A i \in 1..Len(out), b \in Blocks : After(b, i) => Behind(out[i], b)
    /\ \A i \in 1..Len(wsq), b \in Blocks : In(b, wsq, i + 1) => Behind(wsq[i], b)

\* A repeated header below b is followed by b, and b below the reach of reorganisations is
\* canonical.
Earlier(x, b) == Number(x) < Number(b) /\ Frozen(Number(x))

Repeats(b) ==
    /\ lpc = "backfill" => Number(b) < next
    /\ Earlier(cur, b) => Queued(b)
    /\ \A i \in 1..Len(out) : Earlier(out[i], b) => After(b, i)
    /\ \A i \in 1..Len(wsq) : Earlier(wsq[i], b) => In(b, wsq, i + 1)

Stable(b) == Frozen(Number(b)) => b = BlockAt(chain, Number(b))

\* So for the blocks whose logs are stored or at hand.
LogsInv ==
    /\ \A e \in events : Repeats(e.block) /\ Stable(e.block)
    /\ pc \in {"logs", "publish"} => got \in Blocks /\ Repeats(got) /\ Stable(got)

Good == (1..LogCount) \ Malformed
Done(b, K) == \A i \in K : [block |-> b, index |-> i] \in events \cap published

\* The block of height n is indexed, or being indexed, with the logs of its own hash.
Settled(n) == /\ n \in DOMAIN blocks
              /\ blocks[n] = BlockAt(chain, n)
              /\ Done(BlockAt(chain, n), Good)

InWork(n) ==
    /\ cur = BlockAt(chain, n)
    /\ \/ pc \in RollingBack \cup {"saveBlock", "updSync", "filter"}
       \/ pc \in {"logs", "publish"} /\ got = cur /\ Done(got, {i \in Good : i < li})

\* Each canonical block is to come, in work or settled, and a rollback takes only such as
\* are to come.
AllAccounted == \A n \in 1..Len(chain) : Coming(n, 0) \/ InWork(n) \/ Settled(n)

RollbackCovered ==
    pc \in RollingBack =>
        \A n \in 1..Len(chain) : n >= fork => cur = BlockAt(chain, n) \/ Coming(n, 0)

\* The block being indexed is stored; if the logs are another block's, then
\* that one is on its way.
LogsAccounted ==
    /\ pc \in {"updSync", "filter", "logs", "publish"} =>
         Number(cur) \in DOMAIN blocks /\ blocks[Number(cur)] = cur
    /\ pc \in {"logs", "publish"} => got # <<>> /\ (got = cur \/ Queued(got))
    /\ pc = "publish" => Event \in events /\ li \in Good

CheckpointFollows ==
    /\ cur # <<>> /\ pc \in {"idle", "filter", "logs", "publish"} => sync = Number(cur)
    /\ cur = <<>> => /\ pc \in {"boot", "idle"} /\ sync = 0
                     /\ blocks = NoBlocks /\ events = {}
    /\ \A n \in DOMAIN blocks : n <= Len(chain)

\* The window holds canonical blocks, and others only where the canonical one comes.
WindowAgrees ==
    \A n \in DOMAIN hashes :
        /\ n <= Len(chain)
        /\ \/ hashes[n] = BlockAt(chain, n)
           \/ Coming(n, 0)
           \/ pc \in RollingBack /\ n >= fork

CurRecorded ==
    pc \in {"saveBlock", "updSync", "filter", "logs", "publish"} =>
        \/ Number(cur) \in DOMAIN hashes /\ hashes[Number(cur)] = cur
        \/ Frozen(Number(cur))

\* An event is of the recorded block of its height, of one whose arrival will roll it back
\* or of a canonical one that no reorganisation reaches.
EventsExplained ==
    \A e \in events :
        /\ e.index \in Good
        /\ \/ Number(e.block) \in DOMAIN hashes /\ e.block = hashes[Number(e.block)]
           \/ Queued(e.block)
           \/ Deep(Number(e.block)) /\ e.block = BlockAt(chain, Number(e.block))
           \/ pc = "delEvents" /\ Number(e.block) >= fork

IndexInv == /\ AllAccounted /\ RollbackCovered /\ LogsAccounted /\ WindowAgrees
            /\ CurRecorded /\ CheckpointFollows /\ EventsExplained

SyncInv == Faultless => QueueInv /\ Shallow /\ IndexInv /\ LogsInv

\* Where a block is after its queue lost its head, got an element, got an announcement.
LEMMA InTail ==
    ASSUME NEW q \in Seq(Blocks), q # <<>>, NEW b, NEW i \in Nat \ {0}
    PROVE  /\ In(b, q, i + 1) <=> In(b, Tail(q), i)
           /\ In(b, q, 1) => b = Head(q) \/ In(b, Tail(q), 1)
<1>1. /\ Len(q) \in Nat \ {0} /\ Head(q) = q[1]
      /\ Len(Tail(q)) = Len(q) - 1
      /\ \A j \in 1..Len(Tail(q)) : Tail(q)[j] = q[j + 1]
  BY HeadTailProperties, EmptySeq, LenProperties
<1>2. ASSUME NEW m \in Nat \ {0}, NEW j \in (m + 1)..Len(q)
      PROVE  j - 1 \in m..Len(Tail(q)) /\ Tail(q)[j - 1] = q[j]
  BY <1>1, <1>2
<1>3. ASSUME NEW m \in Nat \ {0}, In(b, q, m + 1)
      PROVE  In(b, Tail(q), m)
  <2>1. PICK j \in (m + 1)..Len(q) : q[j] = b
    BY <1>3 DEF In
  <2>2. j - 1 \in m..Len(Tail(q)) /\ Tail(q)[j - 1] = b
    BY <2>1, <1>2
  <2> QED BY <2>2 DEF In
<1>4. ASSUME In(b, q, 1), b # Head(q)
      PROVE  In(b, q, 1 + 1)
  <2>1. PICK j \in 1..Len(q) : q[j] = b
    BY <1>4 DEF In
  <2>2. j \in (1 + 1)..Len(q)
    BY <1>1, <1>4, <2>1
  <2> QED BY <2>1, <2>2 DEF In
<1>5. ASSUME In(b, Tail(q), i)
      PROVE  In(b, q, i + 1)
  <2>1. PICK j \in i..Len(Tail(q)) : Tail(q)[j] = b
    BY <1>5 DEF In
  <2>2. j + 1 \in (i + 1)..Len(q) /\ q[j + 1] = b
    BY <1>1, <2>1
  <2> QED BY <2>2 DEF In
<1> QED BY <1>3, <1>4, <1>5

LEMMA InAppend ==
    ASSUME NEW q \in Seq(Blocks), NEW x \in Blocks, NEW i \in Nat \ {0}
    PROVE  /\ \A b : In(b, q, i) => In(b, Append(q, x), i)
           /\ \A b : In(b, Append(q, x), i) => In(b, q, i) \/ b = x
           /\ i <= Len(q) + 1 => In(x, Append(q, x), i)
<1>1. PICK r : r = Append(q, x)
  OBVIOUS
<1>2. /\ Len(q) \in Nat /\ Len(r) = Len(q) + 1 /\ r[Len(q) + 1] = x
      /\ \A j \in 1..Len(q) : r[j] = q[j]
  BY <1>1, AppendProperties, LenProperties
<1>3. \A b : In(b, q, i) => In(b, r, i)
  <2> SUFFICES ASSUME NEW b, In(b, q, i) PROVE In(b, r, i)
    OBVIOUS
  <2>1. PICK j \in i..Len(q) : q[j] = b
    BY DEF In
  <2>2. j \in i..Len(r) /\ r[j] = b
    BY <1>2, <2>1
  <2> QED BY <2>2 DEF In
<1>4. i <= Len(q) + 1 => In(x, r, i)
  BY <1>2 DEF In
<1>5. \A b : In(b, r, i) => In(b, q, i) \/ b = x
  <2> SUFFICES ASSUME NEW b, In(b, r, i), b # x PROVE In(b, q, i)
    OBVIOUS
  <2>1. PICK j \in i..Len(r) : r[j] = b
    BY DEF In
  <2>2. j \in i..Len(q) /\ q[j] = b
    BY <1>2, <2>1
  <2> QED BY <2>2 DEF In
<1> QED BY <1>1, <1>3, <1>4, <1>5

LEMMA InAnnounced ==
    ASSUME NEW q \in Seq(Blocks), NEW d \in Chains, NEW k \in 0..Len(d),
           NEW r, Appended(r, q, d, k), NEW i \in Nat \ {0}
    PROVE  /\ \A b : In(b, q, i) => In(b, r, i)
           /\ \A n \in (k + 1)..Len(d) : i <= Len(q) + (n - k) => In(BlockAt(d, n), r, i)
           /\ \A b : In(b, r, i) =>
                \/ In(b, q, i)
                \/ \E n \in (k + 1)..Len(d) : Number(b) = n /\ i <= Len(q) + (n - k)
<1>1. Len(q) \in Nat /\ Len(d) \in Nat /\ k \in Nat
  BY ChainIsSeq, ChainAssumption, LenProperties
<1>2. /\ Len(r) = Len(q) + (Len(d) - k)
      /\ \A j \in 1..Len(q) : r[j] = q[j]
      /\ \A j \in 1..(Len(d) - k) : r[Len(q) + j] = BlockAt(d, k + j)
  BY DEF Appended
<1>3. ASSUME NEW b, In(b, q, i)
      PROVE  In(b, r, i)
  <2>1. PICK j \in i..Len(q) : q[j] = b
    BY <1>3 DEF In
  <2>2. j \in i..Len(r) /\ r[j] = b
    BY <1>1, <1>2, <2>1
  <2> QED BY <2>2 DEF In
<1>4. ASSUME NEW n \in (k + 1)..Len(d), i <= Len(q) + (n - k)
      PROVE  In(BlockAt(d, n), r, i)
  <2>1. n - k \in 1..(Len(d) - k) /\ k + (n - k) = n /\ Len(q) + (n - k) \in i..Len(r)
    BY <1>1, <1>2, <1>4
  <2>2. r[Len(q) + (n - k)] = BlockAt(d, n)
    <3>1. r[Len(q) + (n - k)] = BlockAt(d, k + (n - k))
      BY <1>2, <2>1
    <3> QED BY <2>1, <3>1
  <2> QED BY <2>1, <2>2 DEF In
<1>5. ASSUME NEW b, In(b, r, i), ~In(b, q, i)
      PROVE  \E n \in (k + 1)..Len(d) : Number(b) = n /\ i <= Len(q) + (n - k)
  <2>1. PICK j \in i..Len(r) : r[j] = b
    BY <1>5 DEF In
  <2>2. ~(j <= Len(q))
    <3>1. ASSUME j <= Len(q) PROVE FALSE
      <4>1. j \in i..Len(q) /\ q[j] = b
        BY <1>1, <1>2, <2>1, <3>1
      <4> QED BY <1>5, <4>1 DEF In
    <3> QED BY <3>1
  <2>3. PICK m \in 1..(Len(d) - k) : j = Len(q) + m
    <3>1. j - Len(q) \in 1..(Len(d) - k) /\ j = Len(q) + (j - Len(q))
      BY <1>1, <1>2, <2>1, <2>2
    <3> QED BY <3>1
  <2>4. Number(b) = k + m
    <3>1. Number(r[Len(q) + m]) = k + m
      BY <2>3 DEF Appended
    <3> QED BY <2>1, <2>3, <3>1
  <2>5. k + m \in (k + 1)..Len(d) /\ i <= Len(q) + ((k + m) - k)
    BY <1>1, <2>1, <2>3
  <2> QED BY <2>4, <2>5
<1> QED BY <1>3, <1>4, <1>5

\* The blocks of a chain descend from its lower ones.
LEMMA ChainDescends ==
    ASSUME NEW c \in Chains, NEW m \in 1..Len(c), NEW n \in 1..m
    PROVE  /\ BlockAt(c, m) \in Blocks /\ Number(BlockAt(c, m)) = m
           /\ Descends(BlockAt(c, m), BlockAt(c, n))
<1>1. c \in Seq(Salt) /\ Len(c) \in 0..MaxHeight /\ Len(c) \in Nat
  BY ChainIsSeq, ChainAssumption
<1>2. /\ m \in 0..Len(c) /\ n \in 0..Len(c) /\ n \in 0..m /\ m \in 1..MaxHeight
  BY <1>1, ChainAssumption
<1>3. /\ BlockAt(c, m) \in Seq(Salt) /\ Len(BlockAt(c, m)) = m
      /\ Len(BlockAt(c, n)) = n
  BY <1>1, <1>2, BlockAtType
<1>4. BlockAt(BlockAt(c, m), n) = BlockAt(c, n)
  BY <1>1, <1>2, PrefixOfPrefix
<1>5. BlockAt(c, m) \in Blocks
  BY <1>2, <1>3, BlockIsSeq
<1> QED BY <1>2, <1>3, <1>4, <1>5 DEF Descends, Number

\* RecordBlock forgets only what no reorganisation reaches any more, or, when it wraps
\* around, at a height that none has reached since the start.
LEMMA RecordDrops ==
    ASSUME WindowSuffices, Started, latest \in Nat, NEW f \in BlockMaps, NEW b \in Blocks
    PROVE  /\ Number(b) \in DOMAIN RecordBlock(f, b) \/ Frozen(Number(b))
           /\ \A m \in DOMAIN f : \/ m \in DOMAIN RecordBlock(f, b)
                                 \/ m + MaxDepth <= Number(b)
                                 \/ Frozen(Number(b))
<1> USE DetectorAssumption, ChainAssumption
<1>1. PICK g \in BlockMaps : g = Put(f, b) /\ DOMAIN g = DOMAIN f \cup {Number(b)}
  BY PutType
<1>2. Number(b) \in 1..MaxHeight /\ Number(b) \in Nat /\ \A m \in DOMAIN f : m \in Nat
  BY BlockIsSeq, BlockMapDef DEF Number
<1>3. CASE RecordBlock(f, b) = g
  BY <1>1, <1>3
<1>4. CASE RecordBlock(f, b) # g
  <2>1. MaxDepth <= MaxBlocks /\ latest + 1 >= MaxBlocks + MaxDepth
    BY <1>1, <1>4, RecordKeepsAll DEF WindowSuffices
  <2>2. PICK D : D = {n \in DOMAIN g : n > Sub64(Number(b), MaxBlocks)}
    OBVIOUS
  <2>3. RecordBlock(f, b) = Keep(g, D)
    BY <1>1, <1>4, <2>2 DEF RecordBlock
  <2>4. DOMAIN RecordBlock(f, b) = DOMAIN g \cap D
    BY <2>3, KeepType
  <2>5. CASE Number(b) >= MaxBlocks
    <3>1. Sub64(Number(b), MaxBlocks) = Number(b) - MaxBlocks
      BY <2>5 DEF Sub64
    <3>2. Number(b) \in D
      BY <1>1, <1>2, <2>2, <3>1
    <3>3. ASSUME NEW m \in DOMAIN f
          PROVE  m \in D \/ m + MaxDepth <= Number(b)
      BY <1>1, <1>2, <2>1, <2>2, <3>1
    <3> QED BY <1>1, <2>4, <3>2, <3>3
  <2>6. CASE Number(b) < MaxBlocks
    BY <1>2, <2>1, <2>6 DEF Frozen
  <2> QED BY <1>2, <2>5, <2>6
<1> QED BY <1>3, <1>4

\* What a step of the node or of the listener does to the blocks on their way: the chain
\* gets no lower, a canonical block that is new is announced, and none is lost.
Advance ==
    /\ Len(chain') >= Len(chain)
    /\ \A n \in 1..Len(chain') :
         \/ Coming(n, 0)'
         \/ n <= Len(chain) /\ BlockAt(chain', n) = BlockAt(chain, n) /\ ~Coming(n, 0)
    /\ \A b : Queued(b) => Queued(b)'

\* The node announces every new block behind the headers that are on their way.
LEMMA NodeQueue ==
    ASSUME ChainTypeOK, ListenerInv, cur \in Chains, Faultless, Faultless', StreamInv, QueueInv,
           NodeStep, UNCHANGED <<cur, pc, sync>>
    PROVE  QueueInv' /\ Advance
<1>1. /\ chain' \in Chains /\ chain \in Chains
      /\ reorgs \in Nat /\ reorgs' \in Nat /\ reorgs' >= reorgs
  BY NodeKeepsPrefix, ChainAssumption DEF ChainTypeOK
<1>2. PICK k \in 0..Len(chain) :
        /\ Announce(k)
        /\ k < Len(chain')
        /\ MayShrink => reorgs' > reorgs \/ Len(chain') >= Len(chain)
        /\ ~MayShrink => Len(chain') >= Len(chain)
        /\ \A n \in 0..k : BlockAt(chain', n) = BlockAt(chain, n)
  BY NodeKeepsPrefix
<1>3. /\ UNCHANGED <<lpc, start, latest, next, out>>
      /\ wsq \in Seq(Blocks) /\ out \in Seq(Blocks)
      /\ Len(chain) \in Nat /\ Len(chain') \in Nat /\ Len(wsq) \in Nat /\ Len(out) \in Nat
      /\ k \in 0..Len(chain')
  BY <1>1, <1>2, ChainIsSeq, ChainAssumption, LenProperties
     DEF Announce, ListenerInv, ListenerTypeOK
<1>4. Len(chain') >= Len(chain)
  BY <1>1, <1>2, <1>3, ChainAssumption DEF Faultless
<1>5. lpc \in {"off", "dial", "latest", "backfill", "live"}
  BY DEF StreamInv, Healthy, Faultless, ListenerInv, ListenerTypeOK, ListenerPC
<1>6. CASE lpc \in {"off", "dial"}
  <2>1. wsq' = wsq /\ wsq = <<>> /\ out = <<>> /\ cur = <<>>
    BY <1>2, <1>6 DEF Announce, Subscribed, QueueInv, Fresh
  <2>2. /\ Number(<<>>) = 0 /\ Len(wsq') = 0 /\ Len(out') = 0 /\ cur' = <<>>
    BY <1>3, <2>1 DEF Number
  <2>3. Bounded' /\ Overtaken'
    BY <1>3, <1>6, <2>2 DEF Bounded, Overtaken
  <2>4. Fresh'
    BY <1>3, <2>1 DEF QueueInv, Fresh
  <2>5. Advance
    BY <1>3, <1>4, <1>6, <2>1 DEF Advance, Coming, ToFetch, Queued, In
  <2> QED BY <2>3, <2>4, <2>5 DEF QueueInv
<1>7. CASE lpc \in {"latest", "backfill", "live"}
  <2>1. Appended(wsq', wsq, chain', k)
    <3>1. wsq' = wsq \o Announced(chain', k)
      BY <1>2, <1>7 DEF Announce, Subscribed
    <3>2. Appended(wsq \o Announced(chain', k), wsq, chain', k)
      BY <1>1, <1>3, AnnouncedQueue
    <3> QED BY <3>1, <3>2
  <2>2. /\ Len(wsq') = Len(wsq) + (Len(chain') - k)
        /\ \A i \in 1..Len(wsq) : wsq'[i] = wsq[i]
        /\ \A i \in 1..(Len(chain') - k) : /\ wsq'[Len(wsq) + i] = BlockAt(chain', k + i)
                                           /\ Number(wsq'[Len(wsq) + i]) = k + i
    BY <2>1 DEF Appended
  <2>3. ASSUME NEW i \in Nat \ {0}
        PROVE  /\ \A b : In(b, wsq, i) => In(b, wsq', i)
               /\ \A n \in (k + 1)..Len(chain') :
                    i <= Len(wsq) + (n - k) => In(BlockAt(chain', n), wsq', i)
    BY <1>1, <1>3, <2>1, InAnnounced
  <2>4. ASSUME NEW n \in 1..Len(chain'), n > k
        PROVE  /\ \A i \in Nat : Coming(n, i)'
               /\ \A i \in Nat \ {0} : i <= Len(wsq) + (n - k) => In(BlockAt(chain', n), wsq', i)
    <3>1. n \in (k + 1)..Len(chain') /\ 1 <= Len(wsq) + (n - k)
      BY <1>3, <2>4
    <3> QED BY <2>3, <3>1 DEF Coming
  <2>5. ASSUME NEW n \in 1..Len(chain'), n <= k
        PROVE  /\ n \in 1..Len(chain) /\ BlockAt(chain', n) = BlockAt(chain, n)
               /\ \A i \in Nat : Coming(n, i) => Coming(n, i)'
    <3>1. n \in 1..Len(chain) /\ n \in 0..k
      BY <1>3, <2>5
    <3>2. BlockAt(chain', n) = BlockAt(chain, n)
      BY <1>2, <3>1
    <3>3. n \in ToFetch => n \in ToFetch'
      BY <1>3, <1>4, <3>1 DEF ToFetch
    <3>4. In(BlockAt(chain, n), wsq, 1) => In(BlockAt(chain, n), wsq', 1)
      BY <2>3
    <3> QED BY <1>3, <3>1, <3>2, <3>3, <3>4 DEF Coming
  <2>6. Bounded'
    <3>1. \A i \in 1..Len(wsq') : Number(wsq'[i]) <= Len(chain')
      <4> SUFFICES ASSUME NEW i \in 1..Len(wsq') PROVE Number(wsq'[i]) <= Len(chain')
        OBVIOUS
      <4>1. CASE i <= Len(wsq)
        <5>1. i \in 1..Len(wsq) /\ wsq[i] \in Blocks /\ Number(wsq[i]) \in Nat
          BY <1>3, <4>1, BlockIsSeq, ElementOfSeq DEF Number
        <5> QED BY <1>3, <1>4, <2>2, <5>1 DEF QueueInv, Bounded
      <4>2. CASE i > Len(wsq)
        <5>1. i - Len(wsq) \in 1..(Len(chain') - k) /\ Len(wsq) + (i - Len(wsq)) = i
          BY <1>3, <2>2, <4>2
        <5>2. Number(wsq'[Len(wsq) + (i - Len(wsq))]) = k + (i - Len(wsq))
          BY <2>2, <5>1
        <5> QED BY <1>3, <5>1, <5>2
      <4> QED BY <1>3, <4>1, <4>2
    <3>2. /\ Number(cur) \in Nat /\ latest \in Nat
          /\ \A i \in 1..Len(out) : Number(out[i]) \in Nat
      BY <1>3, BlockIsSeq, ChainIsSeq, ElementOfSeq, ChainAssumption DEF Number, ListenerInv, ListenerTypeOK
    <3> QED BY <1>3, <1>4, <3>1, <3>2 DEF QueueInv, Bounded
  <2>7. Fresh'
    BY <1>3, <1>7 DEF QueueInv, Fresh
  <2>8. Overtaken'
    <3> SUFFICES ASSUME NEW n \in 1..Len(chain')
                 PROVE  /\ cur # <<>> => Descends(cur, BlockAt(chain', n)) \/ Coming(n, 0)'
                        /\ \A i \in 1..Len(out) : Descends(out[i], BlockAt(chain', n)) \/ Coming(n, i)'
                        /\ \A i \in 1..Len(wsq') : \/ Descends(wsq'[i], BlockAt(chain', n))
                                                   \/ In(BlockAt(chain', n), wsq', i + 1)
                        /\ lpc = "backfill" /\ n > latest => In(BlockAt(chain', n), wsq', 1)
      BY <1>3 DEF Overtaken, Descends
    <3>1. ASSUME NEW i \in 1..Len(wsq'), i > Len(wsq)
          PROVE  \/ Descends(wsq'[i], BlockAt(chain', n))
                 \/ In(BlockAt(chain', n), wsq', i + 1)
      <4>1. PICK j \in 1..(Len(chain') - k) : i = Len(wsq) + j
        <5>1. i - Len(wsq) \in 1..(Len(chain') - k) /\ i = Len(wsq) + (i - Len(wsq))
          BY <1>3, <2>2, <3>1
        <5> QED BY <5>1
      <4>2. wsq'[i] = BlockAt(chain', k + j) /\ k + j \in 1..Len(chain')
        BY <1>3, <2>2, <4>1
      <4>3. CASE n <= k + j
        <5>1. n \in 1..(k + j)
          BY <1>3, <4>3
        <5> QED BY <1>1, <4>2, <5>1, ChainDescends
      <4>4. CASE n > k + j
        <5>1. n > k /\ i + 1 \in Nat \ {0} /\ i + 1 <= Len(wsq) + (n - k)
          BY <1>3, <4>1, <4>4
        <5> QED BY <2>4, <5>1
      <4> QED BY <1>3, <4>3, <4>4
    <3>2. CASE n > k
      <4>1. \A i \in 1..Len(out) : Coming(n, i)'
        BY <1>3, <2>4, <3>2
      <4>2. ASSUME NEW i \in 1..Len(wsq'), i <= Len(wsq)
            PROVE  In(BlockAt(chain', n), wsq', i + 1)
        <5>1. i + 1 \in Nat \ {0} /\ i + 1 <= Len(wsq) + (n - k)
          BY <1>3, <3>2, <4>2
        <5> QED BY <2>4, <3>2, <5>1
      <4>3. In(BlockAt(chain', n), wsq', 1) /\ Coming(n, 0)'
        <5>1. 1 <= Len(wsq) + (n - k)
          BY <1>3, <3>2
        <5> QED BY <2>4, <3>2, <5>1
      <4> QED BY <1>3, <3>1, <4>1, <4>2, <4>3
    <3>3. CASE n <= k
      <4>1. /\ n \in 1..Len(chain) /\ BlockAt(chain', n) = BlockAt(chain, n)
            /\ \A i \in Nat : Coming(n, i) => Coming(n, i)'
        BY <2>5, <3>3
      <4>2. /\ cur # <<>> => Descends(cur, BlockAt(chain, n)) \/ Coming(n, 0)
            /\ \A i \in 1..Len(out) : Descends(out[i], BlockAt(chain, n)) \/ Coming(n, i)
            /\ \A i \in 1..Len(wsq) : \/ Descends(wsq[i], BlockAt(chain, n))
                                      \/ In(BlockAt(chain, n), wsq, i + 1)
            /\ lpc = "backfill" /\ n > latest => In(BlockAt(chain, n), wsq, 1)
        BY <4>1 DEF QueueInv, Overtaken
      <4>3. ASSUME NEW i \in 1..Len(wsq'), i <= Len(wsq)
            PROVE  \/ Descends(wsq'[i], BlockAt(chain', n))
                   \/ In(BlockAt(chain', n), wsq', i + 1)
        <5>1. i \in 1..Len(wsq) /\ i + 1 \in Nat \ {0} /\ wsq'[i] = wsq[i]
          BY <1>3, <2>2, <4>3
        <5> QED BY <2>3, <4>1, <4>2, <5>1
      <4>4. lpc = "backfill" /\ n > latest => In(BlockAt(chain', n), wsq', 1)
        BY <2>3, <4>1, <4>2
      <4>5. /\ cur # <<>> => Descends(cur, BlockAt(chain', n)) \/ Coming(n, 0)'
            /\ \A i \in 1..Len(out) : Descends(out[i], BlockAt(chain', n)) \/ Coming(n, i)'
        BY <1>3, <4>1, <4>2
      <4> QED BY <1>3, <3>1, <4>3, <4>4, <4>5
    <3> QED BY <1>3, <3>2, <3>3
  <2>9. Advance
    <3>1. \A n \in 1..Len(chain') :
            \/ Coming(n, 0)'
            \/ n <= Len(chain) /\ BlockAt(chain', n) = BlockAt(chain, n) /\ ~Coming(n, 0)
      BY <1>3, <2>4, <2>5
    <3>2. \A b : Queued(b) => Queued(b)'
      BY <1>3, <2>3 DEF Queued
    <3> QED BY <1>4, <3>1, <3>2 DEF Advance
  <2> QED BY <2>6, <2>7, <2>8, <2>9 DEF QueueInv
<1> QED BY <1>5, <1>6, <1>7

\* The steps a listener takes over a subscription without failures; each keeps the order.
LEMMA ListenerQueue ==
    ASSUME ChainTypeOK, ListenerInv, cur \in Chains, Faultless, Faultless', StreamInv, QueueInv,
           ListenerStep \/ SubscriptionError, UNCHANGED <<chainVars, cur, pc, sync>>
    PROVE  QueueInv' /\ Advance
<1>1. /\ chain' = chain /\ chain \in Chains /\ chain \in Seq(Salt) /\ Len(chain) \in Nat
      /\ wsq \in Seq(Blocks) /\ out \in Seq(Blocks) /\ Len(wsq) \in Nat /\ Len(out) \in Nat
      /\ next \in Nat /\ latest \in Nat /\ start \in Nat
  BY ChainIsSeq, ChainAssumption, LenProperties
     DEF ChainTypeOK, chainVars, ListenerInv, ListenerTypeOK
<1>2. ~Fault /\ HasWS /\ lpc \notin {"poll", "fetch"}
  BY DEF StreamInv, Healthy, Faultless, Fault, ListenerInv, ListenerTypeOK
<1>3. Bounded /\ Fresh /\ Overtaken
  BY DEF QueueInv
<1>4. ASSUME NEW n \in 1..Len(chain)
      PROVE  /\ cur # <<>> => Descends(cur, BlockAt(chain, n)) \/ Coming(n, 0)
             /\ \A i \in 1..Len(out) : Descends(out[i], BlockAt(chain, n)) \/ Coming(n, i)
             /\ \A i \in 1..Len(wsq) : \/ Descends(wsq[i], BlockAt(chain, n))
                                       \/ In(BlockAt(chain, n), wsq, i + 1)
             /\ lpc = "backfill" /\ n > latest => In(BlockAt(chain, n), wsq, 1)
  BY <1>3 DEF Overtaken
<1>5. ASSUME \A n \in 1..Len(chain) : Coming(n, 0) => Coming(n, 0)',
             \A b : Queued(b) => Queued(b)'
      PROVE  Advance
  BY <1>1, <1>5 DEF Advance
<1>6. CASE SubscribeNewHead
  <2>1. /\ UNCHANGED <<start, wsq, out>> /\ lpc = "dial" /\ lpc' = "latest"
        /\ out = <<>> /\ wsq = <<>> /\ cur = <<>>
    BY <1>3, <1>6 DEF SubscribeNewHead, Fresh
  <2>2. ToFetch' = ToFetch
    BY <1>1, <2>1 DEF ToFetch
  <2>3. Bounded' /\ Fresh'
    BY <1>1, <1>3, <2>1 DEF Bounded, Fresh
  <2>4. Overtaken'
    BY <1>1, <2>1 DEF Overtaken
  <2>5. Advance
    BY <1>1, <1>5, <2>1, <2>2 DEF Coming, Queued
  <2> QED BY <2>3, <2>4, <2>5 DEF QueueInv
<1>7. CASE BackfillStart
  <2>1. /\ UNCHANGED <<start, wsq, out>> /\ lpc = "latest" /\ lpc' = "backfill"
        /\ out = <<>> /\ cur = <<>> /\ start = 1 /\ next' = 1 /\ latest' = Len(chain)
        /\ Len(out) = 0 /\ Number(cur) = 0
    BY <1>3, <1>7 DEF BackfillStart, Fresh, Number
  <2>2. ToFetch' = ToFetch
    BY <1>1, <2>1 DEF ToFetch
  <2>3. Bounded' /\ Fresh'
    BY <1>1, <1>3, <2>1 DEF Bounded, Fresh
  <2>4. Overtaken'
    BY <1>1, <1>4, <2>1 DEF Overtaken
  <2>5. Advance
    BY <1>1, <1>5, <2>1, <2>2 DEF Coming, Queued
  <2> QED BY <2>3, <2>4, <2>5 DEF QueueInv
<1>8. CASE BackfillDone
  <2>1. /\ UNCHANGED <<start, wsq, out, next, latest>> /\ lpc = "backfill" /\ lpc' = "live"
        /\ next > latest
    BY <1>8 DEF BackfillDone
  <2>2. ToFetch' = {} /\ ToFetch = {}
    BY <1>1, <2>1 DEF ToFetch
  <2>3. Bounded' /\ Fresh'
    BY <1>1, <1>3, <2>1 DEF Bounded, Fresh
  <2>4. \A n \in 1..Len(chain), i \in Nat : Coming(n, i) => Coming(n, i)'
    BY <1>1, <2>1, <2>2 DEF Coming
  <2>5. Overtaken'
    BY <1>1, <1>4, <2>1, <2>4 DEF Overtaken
  <2>6. Advance
    BY <1>1, <1>5, <2>1, <2>4 DEF Queued
  <2> QED BY <2>3, <2>5, <2>6 DEF QueueInv
<1>9. CASE BackfillBlock
  <2>1. PICK b : b = BlockAt(chain, next)
    OBVIOUS
  <2>2. /\ UNCHANGED <<lpc, start, latest, wsq>> /\ lpc = "backfill"
        /\ next \in 1..latest /\ next \in 1..Len(chain) /\ latest <= Len(chain)
        /\ next' = next + 1 /\ out' = Append(out, b)
    BY <1>1, <1>3, <1>9, <2>1 DEF BackfillBlock, Push, Bounded
  <2>3. b \in Blocks /\ Number(b) = next
    BY <1>1, <2>1, <2>2, ChainDescends
  <2>4. /\ Len(out') = Len(out) + 1 /\ out'[Len(out) + 1] = b
        /\ \A j \in 1..Len(out) : out'[j] = out[j]
    BY <1>1, <2>2, <2>3, AppendProperties
  <2>5. ASSUME NEW i \in Nat \ {0}
        PROVE  /\ \A a : In(a, out, i) => In(a, out', i)
               /\ i <= Len(out) + 1 => In(b, out', i)
    BY <1>1, <2>2, <2>3, InAppend
  <2>6. \A n : n \in ToFetch => n = next \/ n \in ToFetch'
    BY <1>1, <2>2 DEF ToFetch
  <2>7. ASSUME NEW n \in 1..Len(chain), NEW i \in 0..Len(out), Coming(n, i)
        PROVE  Coming(n, i)'
    <3>1. i + 1 \in Nat \ {0} /\ i + 1 <= Len(out) + 1
      BY <1>1
    <3>2. In(BlockAt(chain, n), out, i + 1) => In(BlockAt(chain, n), out', i + 1)
      BY <2>5, <3>1
    <3>3. n = next => In(BlockAt(chain, n), out', i + 1)
      BY <2>1, <2>5, <3>1
    <3> QED BY <1>1, <2>2, <2>6, <2>7, <3>2, <3>3 DEF Coming
  <2>8. Bounded'
    <3>1. \A i \in 1..Len(out') : Number(out'[i]) <= Len(chain) /\ Number(out'[i]) < next + 1
      <4> SUFFICES ASSUME NEW i \in 1..Len(out')
                   PROVE  Number(out'[i]) <= Len(chain) /\ Number(out'[i]) < next + 1
        OBVIOUS
      <4>1. CASE i = Len(out) + 1
        BY <1>1, <2>2, <2>3, <2>4, <4>1
      <4>2. CASE i # Len(out) + 1
        <5>1. i \in 1..Len(out) /\ out[i] \in Blocks /\ Number(out[i]) \in Nat
          BY <1>1, <2>4, <4>2, BlockIsSeq, ElementOfSeq DEF Number
        <5> QED BY <1>1, <1>3, <2>2, <2>4, <5>1 DEF Bounded
      <4> QED BY <4>1, <4>2
    <3>2. Number(cur) \in Nat
      BY ChainIsSeq DEF Number
    <3> QED BY <1>1, <1>3, <2>2, <3>1, <3>2 DEF Bounded
  <2>9. Fresh'
    BY <1>1, <1>3, <2>2 DEF Fresh
  <2>10. Overtaken'
    <3> SUFFICES ASSUME NEW n \in 1..Len(chain)
                 PROVE  /\ cur # <<>> => Descends(cur, BlockAt(chain, n)) \/ Coming(n, 0)'
                        /\ \A i \in 1..Len(out') : Descends(out'[i], BlockAt(chain, n)) \/ Coming(n, i)'
      BY <1>1, <1>4, <2>2 DEF Overtaken
    <3>1. cur # <<>> => Descends(cur, BlockAt(chain, n)) \/ Coming(n, 0)'
      BY <1>1, <1>4, <2>7
    <3>2. ASSUME NEW i \in 1..Len(out'), i # Len(out) + 1
          PROVE  Descends(out'[i], BlockAt(chain, n)) \/ Coming(n, i)'
      <4>1. i \in 1..Len(out) /\ i \in 0..Len(out)
        BY <1>1, <2>4, <3>2
      <4> QED BY <1>4, <2>4, <2>7, <4>1
    <3>3. ASSUME NEW i \in 1..Len(out'), i = Len(out) + 1
          PROVE  Descends(out'[i], BlockAt(chain, n)) \/ Coming(n, i)'
      <4>1. CASE n <= next
        <5>1. n \in 1..next
          BY <1>1, <4>1
        <5> QED BY <1>1, <2>1, <2>2, <2>4, <3>3, <5>1, ChainDescends
      <4>2. CASE n > next /\ n <= latest
        BY <1>1, <2>2, <4>2 DEF Coming, ToFetch
      <4>3. CASE n > latest
        BY <1>1, <1>4, <2>2, <4>3 DEF Coming
      <4> QED BY <1>1, <4>1, <4>2, <4>3
    <3> QED BY <2>4, <3>1, <3>2, <3>3
  <2>11. Advance
    <3>1. \A a : Queued(a) => Queued(a)'
      BY <2>2, <2>5 DEF Queued
    <3>2. 0 \in 0..Len(out)
      BY <1>1
    <3> QED BY <1>5, <2>7, <3>1, <3>2
  <2> QED BY <2>8, <2>9, <2>10, <2>11 DEF QueueInv
<1>10. CASE LiveHeader
  <2>1. PICK b : b = Head(wsq)
    OBVIOUS
  <2>2. /\ UNCHANGED <<lpc, start, latest, next>> /\ lpc = "live"
        /\ wsq # <<>> /\ wsq' = Tail(wsq) /\ out' = Append(out, b)
    BY <1>10, <2>1 DEF LiveHeader, Push
  <2>3. /\ Len(wsq) \in Nat \ {0} /\ b = wsq[1] /\ b \in Blocks
        /\ Len(wsq') = Len(wsq) - 1
        /\ \A j \in 1..Len(wsq') : wsq'[j] = wsq[j + 1]
    BY <1>1, <2>1, <2>2, HeadTailProperties, EmptySeq, LenProperties, ElementOfSeq
  <2>4. /\ Len(out') = Len(out) + 1 /\ out'[Len(out) + 1] = b
        /\ \A j \in 1..Len(out) : out'[j] = out[j]
    BY <1>1, <2>2, <2>3, AppendProperties
  <2>5. ASSUME NEW i \in Nat \ {0}
        PROVE  /\ \A a : In(a, out, i) => In(a, out', i)
               /\ i <= Len(out) + 1 => In(b, out', i)
               /\ \A a : In(a, wsq, i + 1) => In(a, wsq', i)
    BY <1>1, <2>2, <2>3, InAppend, InTail
  <2>6. \A a : In(a, wsq, 1) => a = b \/ In(a, wsq', 1)
    <3>1. 1 \in Nat \ {0}
      OBVIOUS
    <3> QED BY <1>1, <2>1, <2>2, <3>1, InTail
  <2>7. ASSUME NEW n \in 1..Len(chain), NEW i \in 0..Len(out), Coming(n, i)
        PROVE  Coming(n, i)'
    <3>1. i + 1 \in Nat \ {0} /\ i + 1 <= Len(out) + 1
      BY <1>1
    <3>2. ToFetch = {}
      BY <2>2 DEF ToFetch
    <3>3. In(BlockAt(chain, n), out, i + 1) => In(BlockAt(chain, n), out', i + 1)
      BY <2>5, <3>1
    <3>4. BlockAt(chain, n) = b => In(BlockAt(chain, n), out', i + 1)
      BY <2>5, <3>1
    <3> QED BY <1>1, <2>6, <2>7, <3>2, <3>3, <3>4 DEF Coming
  <2>8. Bounded'
    <3>1. \A i \in 1..Len(out') : Number(out'[i]) <= Len(chain)
      BY <1>1, <1>3, <2>3, <2>4 DEF Bounded
    <3>2. \A i \in 1..Len(wsq') : Number(wsq'[i]) <= Len(chain)
      BY <1>1, <1>3, <2>3 DEF Bounded
    <3> QED BY <1>1, <1>3, <2>2, <3>1, <3>2 DEF Bounded
  <2>9. Fresh'
    BY <1>1, <1>3, <2>2 DEF Fresh
  <2>10. Overtaken'
    <3> SUFFICES ASSUME NEW n \in 1..Len(chain)
                 PROVE  /\ cur # <<>> => Descends(cur, BlockAt(chain, n)) \/ Coming(n, 0)'
                        /\ \A i \in 1..Len(out') : Descends(out'[i], BlockAt(chain, n)) \/ Coming(n, i)'
                        /\ \A i \in 1..Len(wsq') : \/ Descends(wsq'[i], BlockAt(chain, n))
                                                   \/ In(BlockAt(chain, n), wsq', i + 1)
      BY <1>1, <2>2 DEF Overtaken
    <3>1. cur # <<>> => Descends(cur, BlockAt(chain, n)) \/ Coming(n, 0)'
      BY <1>1, <1>4, <2>7
    <3>2. ASSUME NEW i \in 1..Len(out'), i # Len(out) + 1
          PROVE  Descends(out'[i], BlockAt(chain, n)) \/ Coming(n, i)'
      <4>1. i \in 1..Len(out) /\ i \in 0..Len(out)
        BY <1>1, <2>4, <3>2
      <4> QED BY <1>4, <2>4, <2>7, <4>1
    <3>3. ASSUME NEW i \in 1..Len(out'), i = Len(out) + 1
          PROVE  Descends(out'[i], BlockAt(chain, n)) \/ Coming(n, i)'
      <4>1. 1 \in 1..Len(wsq) /\ 1 \in Nat \ {0}
        BY <2>3
      <4>2. Descends(wsq[1], BlockAt(chain, n)) \/ In(BlockAt(chain, n), wsq, 1 + 1)
        BY <1>4, <4>1
      <4>3. In(BlockAt(chain, n), wsq, 1 + 1) => In(BlockAt(chain, n), wsq', 1)
        BY <2>5, <4>1
      <4> QED BY <1>1, <2>3, <2>4, <3>3, <4>2, <4>3 DEF Coming
    <3>4. ASSUME NEW i \in 1..Len(wsq')
          PROVE  \/ Descends(wsq'[i], BlockAt(chain, n))
                 \/ In(BlockAt(chain, n), wsq', i + 1)
      <4>1. i + 1 \in 1..Len(wsq) /\ i + 1 \in Nat \ {0} /\ wsq'[i] = wsq[i + 1]
        BY <2>3
      <4> QED BY <1>4, <2>5, <4>1
    <3> QED BY <2>4, <3>1, <3>2, <3>3, <3>4
  <2>11. Advance
    <3>1. \A a : Queued(a) => Queued(a)'
      <4>1. 1 \in Nat \ {0} /\ 1 <= Len(out) + 1
        BY <1>1
      <4> QED BY <2>5, <2>6, <4>1 DEF Queued
    <3>2. 0 \in 0..Len(out)
      BY <1>1
    <3> QED BY <1>5, <2>7, <3>1, <3>2
  <2> QED BY <2>8, <2>9, <2>10, <2>11 DEF QueueInv
<1>11. ~SubscribeNewHeadFails /\ ~BackfillSkipped /\ ~SubscriptionError
  BY <1>2 DEF SubscribeNewHeadFails, BackfillSkipped, SubscriptionError
<1>12. ~BackfillBreak
  BY <1>1, <1>2, <1>3 DEF BackfillBreak, Bounded
<1>13. ~PollTick /\ ~PollBlock /\ ~PollBreak /\ ~PollDone
  BY <1>2 DEF PollTick, PollBlock, PollBreak, PollDone
<1> QED BY <1>6, <1>7, <1>8, <1>9, <1>10, <1>11, <1>12, <1>13 DEF ListenerStep

\* And to what is below the reach of reorganisations: it stays, in the chain and on its
\* way.
Steady ==
    /\ \A n \in 1..Len(chain) : Deep(n) => BlockAt(chain', n) = BlockAt(chain, n)
    /\ cur # <<>> => /\ \A n : Frozen(n)' <=> Frozen(n)
                     /\ \A b \in Blocks : Repeats(b) => Repeats(b)'

LEMMA NodeShallow ==
    ASSUME ChainTypeOK, ListenerInv, cur \in Chains, Faultless, Faultless', StreamInv, QueueInv,
           Shallow, NodeStep, UNCHANGED cur
    PROVE  Shallow' /\ Steady
<1>1. /\ chain' \in Chains /\ chain \in Chains
      /\ reorgs \in Nat /\ reorgs' \in Nat /\ reorgs' >= reorgs
  BY NodeKeepsPrefix, ChainAssumption DEF ChainTypeOK
<1>2. PICK k \in 0..Len(chain) :
        /\ Announce(k)
        /\ k < Len(chain')
        /\ MayShrink => reorgs' > reorgs \/ Len(chain') >= Len(chain)
        /\ ~MayShrink => Len(chain') >= Len(chain)
        /\ Len(chain) - k <= MaxDepth
        /\ \A n \in 0..k : BlockAt(chain', n) = BlockAt(chain, n)
  BY NodeKeepsPrefix
<1>3. /\ UNCHANGED <<lpc, start, latest, next, out>>
      /\ wsq \in Seq(Blocks) /\ out \in Seq(Blocks)
      /\ Len(chain) \in Nat /\ Len(chain') \in Nat /\ Len(wsq) \in Nat /\ Len(out) \in Nat
      /\ k \in 0..Len(chain') /\ latest \in Nat /\ MaxDepth \in Nat
  BY <1>1, <1>2, ChainIsSeq, ChainAssumption, LenProperties
     DEF Announce, ListenerInv, ListenerTypeOK
<1>4. Len(chain') >= Len(chain)
  BY <1>1, <1>2, <1>3, ChainAssumption DEF Faultless
<1>5. \A n \in 1..Len(chain) : Deep(n) => BlockAt(chain', n) = BlockAt(chain, n)
  <2> SUFFICES ASSUME NEW n \in 1..Len(chain), Deep(n)
               PROVE  BlockAt(chain', n) = BlockAt(chain, n)
    OBVIOUS
  <2>1. n \in 0..k
    BY <1>2, <1>3 DEF Deep
  <2> QED BY <1>2, <2>1
<1>6. /\ Started' <=> Started
      /\ \A n : Frozen(n)' <=> Frozen(n)
      /\ \A x, y : Behind(x, y) => Behind(x, y)'
  BY <1>3 DEF Started, Frozen, Behind
<1>7. Started' => latest' <= Len(chain')
  BY <1>3, <1>4, <1>6 DEF Shallow
<1>8. /\ Number(cur) \in Nat /\ Number(cur) <= Len(chain)
      /\ \A i \in 1..Len(out) : Number(out[i]) \in Nat /\ Number(out[i]) <= Len(chain)
      /\ \A i \in 1..Len(wsq) : Number(wsq[i]) \in Nat /\ Number(wsq[i]) <= Len(chain)
  BY <1>3, BlockIsSeq, ChainIsSeq, ElementOfSeq, ChainAssumption DEF Number, QueueInv, Bounded
<1>9. CASE lpc \notin Subscribed
  <2>1. wsq' = wsq
    BY <1>2, <1>9 DEF Announce
  <2>2. /\ \A b : Queued(b)' <=> Queued(b)
        /\ \A b, i : After(b, i)' <=> After(b, i)
    BY <1>3, <2>1 DEF Queued, After
  <2>3. Shallow'
    BY <1>3, <1>6, <1>7, <2>1, <2>2 DEF Shallow
  <2>4. \A b \in Blocks : Repeats(b) => Repeats(b)'
    BY <1>3, <1>6, <2>1, <2>2 DEF Repeats, Earlier
  <2> QED BY <1>5, <1>6, <2>3, <2>4 DEF Steady
<1>10. CASE lpc \in Subscribed
  <2>1. Appended(wsq', wsq, chain', k)
    <3>1. wsq' = wsq \o Announced(chain', k)
      BY <1>2, <1>10 DEF Announce
    <3>2. Appended(wsq \o Announced(chain', k), wsq, chain', k)
      BY <1>1, <1>3, AnnouncedQueue
    <3> QED BY <3>1, <3>2
  <2>2. /\ Len(wsq') = Len(wsq) + (Len(chain') - k)
        /\ \A i \in 1..Len(wsq) : wsq'[i] = wsq[i]
        /\ \A i \in 1..(Len(chain') - k) : Number(wsq'[Len(wsq) + i]) = k + i
    BY <2>1 DEF Appended
  <2>3. ASSUME NEW i \in Nat \ {0}, NEW b
        PROVE  /\ In(b, wsq, i) => In(b, wsq', i)
               /\ In(b, wsq', i) =>
                    \/ In(b, wsq, i)
                    \/ \E n \in (k + 1)..Len(chain') : Number(b) = n /\ i <= Len(wsq) + (n - k)
    BY <1>1, <1>3, <2>1, InAnnounced
  <2>4. ASSUME NEW i \in 1..Len(wsq'), ~(i \in 1..Len(wsq))
        PROVE  \E j \in 1..(Len(chain') - k) : i = Len(wsq) + j /\ Number(wsq'[i]) = k + j
    <3>1. i - Len(wsq) \in 1..(Len(chain') - k) /\ i = Len(wsq) + (i - Len(wsq))
      BY <1>3, <2>2, <2>4
    <3>2. Number(wsq'[Len(wsq) + (i - Len(wsq))]) = k + (i - Len(wsq))
      BY <2>2, <3>1
    <3> QED BY <3>1, <3>2
  <2>5. ASSUME NEW x, Number(x) \in Nat, Number(x) <= Len(chain),
               NEW y, NEW n \in (k + 1)..Len(chain'), Number(y) = n
        PROVE  Behind(x, y)'
    BY <1>2, <1>3, <2>5 DEF Behind
  <2>6. ASSUME NEW b \in Blocks, cur # <<>>, Queued(b)'
        PROVE  Behind(cur, b)'
    <3>1. Queued(b) \/ \E n \in (k + 1)..Len(chain') : Number(b) = n
      BY <1>3, <2>3, <2>6 DEF Queued
    <3> QED BY <1>6, <1>8, <2>5, <2>6, <3>1 DEF Shallow
  <2>7. ASSUME NEW i \in 1..Len(out), NEW b \in Blocks, After(b, i)'
        PROVE  Behind(out[i], b)'
    <3>1. After(b, i) \/ \E n \in (k + 1)..Len(chain') : Number(b) = n
      BY <1>3, <2>3, <2>7 DEF After
    <3>2. CASE After(b, i)
      <4>1. Behind(out[i], b)
        BY <3>2 DEF Shallow
      <4>2. PICK x : x = out[i]
        OBVIOUS
      <4> QED BY <1>3, <1>6, <4>1, <4>2 DEF Behind
    <3>3. CASE \E n \in (k + 1)..Len(chain') : Number(b) = n
      BY <1>2, <1>3, <1>8, <3>3 DEF Behind
    <3> QED BY <3>1, <3>2, <3>3
  <2>8. ASSUME NEW i \in 1..Len(wsq'), NEW b \in Blocks, In(b, wsq', i + 1)
        PROVE  Number(wsq'[i]) < Number(b) + MaxDepth \/ Frozen(Number(b))
    <3>1. i + 1 \in Nat \ {0}
      OBVIOUS
    <3>2. \/ In(b, wsq, i + 1)
          \/ \E n \in (k + 1)..Len(chain') : Number(b) = n /\ i + 1 <= Len(wsq) + (n - k)
      BY <2>3, <2>8, <3>1
    <3>3. CASE i \in 1..Len(wsq)
      <4>1. wsq'[i] = wsq[i] /\ Number(wsq[i]) \in Nat /\ Number(wsq[i]) <= Len(chain)
        BY <1>8, <2>2, <3>3
      <4>2. CASE In(b, wsq, i + 1)
        BY <3>3, <4>1, <4>2 DEF Shallow, Behind
      <4>3. CASE \E n \in (k + 1)..Len(chain') : Number(b) = n
        BY <1>2, <1>3, <4>1, <4>3
      <4> QED BY <3>2, <4>2, <4>3
    <3>4. CASE ~(i \in 1..Len(wsq))
      <4>1. PICK j \in 1..(Len(chain') - k) : i = Len(wsq) + j /\ Number(wsq'[i]) = k + j
        BY <2>4, <3>4
      <4>2. ~In(b, wsq, i + 1)
        BY <1>3, <4>1 DEF In
      <4>3. PICK n \in (k + 1)..Len(chain') : Number(b) = n /\ i + 1 <= Len(wsq) + (n - k)
        BY <3>2, <4>2
      <4> QED BY <1>3, <4>1, <4>3
    <3> QED BY <3>3, <3>4
  <2>9. Shallow'
    BY <1>3, <1>6, <1>7, <2>6, <2>7, <2>8 DEF Shallow, Behind
  <2>10. ASSUME NEW b \in Blocks, Repeats(b)
         PROVE  Repeats(b)'
    <3>1. Queued(b) => Queued(b)'
      BY <1>3, <2>3 DEF Queued
    <3>2. \A i \in 1..Len(out) : After(b, i) => After(b, i)'
      BY <1>3, <2>3 DEF After
    <3>3. ASSUME NEW i \in 1..Len(wsq'), Number(wsq'[i]) < Number(b), Frozen(Number(wsq'[i]))
          PROVE  In(b, wsq', i + 1)
      <4>1. CASE i \in 1..Len(wsq)
        <5>1. wsq'[i] = wsq[i] /\ i + 1 \in Nat \ {0}
          BY <2>2, <4>1
        <5>2. In(b, wsq, i + 1)
          BY <2>10, <3>3, <4>1, <5>1 DEF Repeats, Earlier
        <5> QED BY <2>3, <5>1, <5>2
      <4>2. CASE ~(i \in 1..Len(wsq))
        <5>1. PICK j \in 1..(Len(chain') - k) : Number(wsq'[i]) = k + j
          BY <2>4, <4>2
        <5>2. k + j + MaxDepth <= latest /\ latest <= Len(chain)
          BY <3>3, <5>1 DEF Frozen, Shallow
        <5> QED BY <1>2, <1>3, <5>1, <5>2
      <4> QED BY <4>1, <4>2
    <3> QED BY <1>3, <1>6, <2>10, <3>1, <3>2, <3>3 DEF Repeats, Earlier
  <2> QED BY <1>5, <1>6, <2>9, <2>10 DEF Steady
<1> QED BY <1>9, <1>10

LEMMA ListenerShallow ==
    ASSUME ChainTypeOK, ListenerInv, cur \in Chains, Faultless, Faultless', StreamInv, QueueInv,
           Shallow, ListenerStep \/ SubscriptionError, UNCHANGED <<chainVars, cur>>
    PROVE  Shallow' /\ Steady
<1>1. /\ chain' = chain /\ chain \in Chains /\ Len(chain) \in Nat
      /\ wsq \in Seq(Blocks) /\ out \in Seq(Blocks) /\ Len(wsq) \in Nat /\ Len(out) \in Nat
      /\ next \in Nat /\ latest \in Nat /\ start \in Nat /\ MaxDepth \in Nat
  BY ChainIsSeq, ChainAssumption, LenProperties
     DEF ChainTypeOK, chainVars, ListenerInv, ListenerTypeOK
<1>2. ~Fault /\ HasWS /\ lpc \notin {"poll", "fetch"}
  BY DEF StreamInv, Healthy, Faultless, Fault, ListenerInv, ListenerTypeOK
<1>3. Bounded /\ Fresh
  BY DEF QueueInv
<1>4. /\ Number(cur) \in Nat
      /\ \A i \in 1..Len(out) : Number(out[i]) \in Nat
      /\ \A i \in 1..Len(wsq) : Number(wsq[i]) \in Nat
      /\ \A b \in Blocks : Number(b) \in Nat
  BY <1>1, BlockIsSeq, ChainIsSeq, ElementOfSeq, ChainAssumption DEF Number
<1>5. \A n \in 1..Len(chain) : Deep(n) => BlockAt(chain', n) = BlockAt(chain, n)
  BY <1>1
<1>6. CASE SubscribeNewHead \/ BackfillStart
  <2>1. /\ UNCHANGED <<wsq, out>> /\ out = <<>> /\ cur = <<>> /\ ~Started
        /\ Started' => latest' = Len(chain)
    BY <1>3, <1>6 DEF SubscribeNewHead, BackfillStart, Fresh, Started
  <2>2. \A i \in 1..Len(wsq), b \in Blocks :
          In(b, wsq, i + 1) => Number(wsq[i]) < Number(b) + MaxDepth
    BY <2>1 DEF Shallow, Behind, Frozen
  <2>3. Shallow'
    BY <1>1, <2>1, <2>2 DEF Shallow, Behind
  <2> QED BY <1>5, <2>1, <2>3 DEF Steady
<1>7. CASE BackfillDone
  <2>1. /\ UNCHANGED <<wsq, out, latest, next>> /\ Started /\ Started' /\ lpc' = "live"
    BY <1>7 DEF BackfillDone, Started
  <2>2. /\ \A n : Frozen(n)' <=> Frozen(n)
        /\ \A b : Queued(b)' <=> Queued(b)
        /\ \A b, i : After(b, i)' <=> After(b, i)
    BY <2>1 DEF Frozen, Queued, After
  <2>3. Shallow'
    BY <1>1, <2>1, <2>2 DEF Shallow, Behind
  <2>4. \A b \in Blocks : Repeats(b) => Repeats(b)'
    BY <2>1, <2>2 DEF Repeats, Earlier
  <2> QED BY <1>5, <2>2, <2>3, <2>4 DEF Steady
<1>8. CASE BackfillBlock
  <2>1. PICK h : h = BlockAt(chain, next)
    OBVIOUS
  <2>2. /\ UNCHANGED <<lpc, latest, wsq>> /\ lpc = "backfill" /\ Started /\ Started'
        /\ next \in 1..latest /\ next \in 1..Len(chain)
        /\ next' = next + 1 /\ out' = Append(out, h)
    BY <1>1, <1>3, <1>8, <2>1 DEF BackfillBlock, Push, Bounded, Started
  <2>3. h \in Blocks /\ Number(h) = next
    BY <1>1, <2>1, <2>2, ChainDescends
  <2>4. /\ Len(out') = Len(out) + 1 /\ out'[Len(out) + 1] = h
        /\ \A j \in 1..Len(out) : out'[j] = out[j]
    BY <1>1, <2>2, <2>3, AppendProperties
  <2>5. ASSUME NEW i \in Nat \ {0}, NEW b
        PROVE  /\ In(b, out, i) => In(b, out', i)
               /\ In(b, out', i) => In(b, out, i) \/ b = h
    BY <1>1, <2>2, <2>3, InAppend
  <2>6. /\ \A n : Frozen(n)' <=> Frozen(n)
        /\ \A b : Queued(b) => Queued(b)'
        /\ \A b : Queued(b)' => Queued(b) \/ b = h
        /\ \A b, i : i \in 1..Len(out) /\ After(b, i) => After(b, i)'
        /\ \A b, i : i \in 1..Len(out) /\ After(b, i)' => After(b, i) \/ b = h
    <3>1. \A i \in 1..Len(out) : i + 1 \in Nat \ {0}
      OBVIOUS
    <3>2. 1 \in Nat \ {0}
      OBVIOUS
    <3> QED BY <2>2, <2>5, <3>1, <3>2 DEF Frozen, Queued, After
  <2>7. /\ Number(cur) < next
        /\ \A i \in 1..Len(out) : Number(out[i]) < next
    BY <1>3, <2>2 DEF Bounded
  <2>8. ASSUME NEW b \in Blocks, cur # <<>>, Queued(b)'
        PROVE  Behind(cur, b)'
    <3>1. CASE Queued(b)
      BY <2>6, <2>8, <3>1 DEF Shallow, Behind
    <3>2. CASE b = h
      BY <1>1, <1>4, <2>3, <2>7, <3>2 DEF Behind
    <3> QED BY <2>6, <2>8, <3>1, <3>2
  <2>9. ASSUME NEW i \in 1..Len(out'), NEW b \in Blocks, After(b, i)'
        PROVE  Number(out'[i]) < Number(b) + MaxDepth \/ Frozen(Number(b))
    <3>1. CASE i \in 1..Len(out)
      <4>1. out'[i] = out[i] /\ (After(b, i) \/ b = h)
        BY <2>4, <2>6, <2>9, <3>1
      <4>2. CASE After(b, i)
        BY <3>1, <4>1, <4>2 DEF Shallow, Behind
      <4>3. CASE b = h
        BY <1>1, <1>4, <2>3, <2>7, <3>1, <4>1, <4>3
      <4> QED BY <4>1, <4>2, <4>3
    <3>2. CASE ~(i \in 1..Len(out))
      <4>1. Number(out'[i]) = next
        BY <1>1, <2>3, <2>4, <3>2
      <4> QED BY <1>1, <1>4, <2>2, <4>1 DEF Frozen
    <3> QED BY <3>1, <3>2
  <2>10. Shallow'
    BY <1>1, <2>2, <2>6, <2>8, <2>9 DEF Shallow, Behind
  <2>11. ASSUME NEW b \in Blocks, Repeats(b)
         PROVE  Repeats(b)'
    <3>1. Number(b) \in Nat /\ Number(b) < next
      BY <1>4, <2>2, <2>11 DEF Repeats
    <3>2. ASSUME NEW i \in 1..Len(out'), Number(out'[i]) < Number(b), Frozen(Number(out'[i]))
          PROVE  After(b, i)'
      <4>1. CASE i \in 1..Len(out)
        <5>1. out'[i] = out[i]
          BY <2>4, <4>1
        <5>2. After(b, i)
          BY <2>11, <3>2, <4>1, <5>1 DEF Repeats, Earlier
        <5> QED BY <2>6, <4>1, <5>2
      <4>2. CASE ~(i \in 1..Len(out))
        <5>1. Number(out'[i]) = next
          BY <1>1, <2>3, <2>4, <4>2
        <5> QED BY <1>1, <3>1, <3>2, <5>1
      <4> QED BY <4>1, <4>2
    <3>3. Number(b) < next'
      BY <1>1, <2>2, <3>1
    <3> QED BY <2>2, <2>6, <2>11, <3>2, <3>3 DEF Repeats, Earlier
  <2> QED BY <1>5, <2>6, <2>10, <2>11 DEF Steady
<1>9. CASE LiveHeader
  <2>1. PICK h : h = Head(wsq)
    OBVIOUS
  <2>2. /\ UNCHANGED <<lpc, latest, next>> /\ lpc = "live" /\ Started /\ Started'
        /\ wsq # <<>> /\ wsq' = Tail(wsq) /\ out' = Append(out, h)
    BY <1>9, <2>1 DEF LiveHeader, Push, Started
  <2>3. /\ Len(wsq) \in Nat \ {0} /\ h = wsq[1] /\ h \in Blocks /\ 1 \in 1..Len(wsq)
        /\ Len(wsq') = Len(wsq) - 1
        /\ \A j \in 1..Len(wsq') : wsq'[j] = wsq[j + 1] /\ j + 1 \in 1..Len(wsq)
    BY <1>1, <2>1, <2>2, HeadTailProperties, EmptySeq, LenProperties, ElementOfSeq
  <2>4. /\ Len(out') = Len(out) + 1 /\ out'[Len(out) + 1] = h
        /\ \A j \in 1..Len(out) : out'[j] = out[j]
    BY <1>1, <2>2, <2>3, AppendProperties
  <2>5. ASSUME NEW i \in Nat \ {0}, NEW b
        PROVE  /\ In(b, out, i) => In(b, out', i)
               /\ In(b, out', i) => In(b, out, i) \/ b = h
               /\ i <= Len(out) + 1 => In(h, out', i)
               /\ In(b, wsq, i + 1) <=> In(b, wsq', i)
    BY <1>1, <2>2, <2>3, InAppend, InTail
  <2>6. /\ \A b : In(b, wsq, 1) => b = h \/ In(b, wsq', 1)
        /\ \A b : In(b, wsq', 1) => In(b, wsq, 1)
        /\ In(h, wsq, 1)
    <3>1. 1 \in Nat \ {0}
      OBVIOUS
    <3>2. \A b : In(b, wsq, 1) => b = h \/ In(b, wsq', 1)
      BY <1>1, <2>1, <2>2, <3>1, InTail
    <3>3. \A b : In(b, wsq, 1 + 1) => In(b, wsq, 1)
      BY <2>3 DEF In
    <3>4. In(h, wsq, 1)
      BY <2>3 DEF In
    <3> QED BY <2>5, <3>1, <3>2, <3>3, <3>4
  <2>7. /\ \A n : Frozen(n)' <=> Frozen(n)
        /\ \A b : Queued(b)' <=> Queued(b)
        /\ \A b, i : i \in 1..Len(out) => (After(b, i)' <=> After(b, i))
    <3>1. \A i \in 1..Len(out) : i + 1 \in Nat \ {0} /\ i + 1 <= Len(out) + 1
      BY <1>1
    <3>2. 1 \in Nat \ {0} /\ 1 <= Len(out) + 1
      BY <1>1
    <3>3. \A n : Frozen(n)' <=> Frozen(n)
      BY <2>2 DEF Frozen
    <3>4. \A b : Queued(b)' <=> Queued(b)
      BY <2>5, <2>6, <3>2 DEF Queued
    <3>5. \A b, i : i \in 1..Len(out) => (After(b, i)' <=> After(b, i))
      BY <2>5, <2>6, <3>1 DEF After
    <3> QED BY <3>3, <3>4, <3>5
  <2>8. ASSUME NEW b, NEW i \in 1..Len(out'), ~(i \in 1..Len(out))
        PROVE  out'[i] = wsq[1] /\ (After(b, i)' <=> In(b, wsq, 1 + 1))
    <3>1. i = Len(out) + 1 /\ 1 \in Nat \ {0}
      BY <1>1, <2>4, <2>8
    <3>2. ~In(b, out', i + 1)
      BY <1>1, <2>4, <3>1 DEF In
    <3>3. In(b, wsq, 1 + 1) <=> In(b, wsq', 1)
      BY <2>5, <3>1
    <3> QED BY <2>3, <2>4, <3>1, <3>2, <3>3 DEF After
  <2>9. ASSUME NEW i \in 1..Len(out'), NEW b \in Blocks, After(b, i)'
        PROVE  Number(out'[i]) < Number(b) + MaxDepth \/ Frozen(Number(b))
    <3>1. CASE i \in 1..Len(out)
      BY <2>4, <2>7, <2>9, <3>1 DEF Shallow, Behind
    <3>2. CASE ~(i \in 1..Len(out))
      BY <2>3, <2>8, <2>9, <3>2 DEF Shallow, Behind
    <3> QED BY <3>1, <3>2
  <2>10. ASSUME NEW i \in 1..Len(wsq'), NEW b
         PROVE  /\ i + 1 \in 1..Len(wsq) /\ wsq'[i] = wsq[i + 1]
                /\ In(b, wsq', i + 1) <=> In(b, wsq, (i + 1) + 1)
    <3>1. i + 1 \in Nat \ {0}
      OBVIOUS
    <3> QED BY <2>3, <2>5, <3>1
  <2>11. Shallow'
    <3>1. \A i \in 1..Len(wsq'), b \in Blocks :
            In(b, wsq', i + 1) => Number(wsq'[i]) < Number(b) + MaxDepth \/ Frozen(Number(b))
      BY <2>10 DEF Shallow, Behind
    <3>2. \A b \in Blocks : cur # <<>> /\ Queued(b)' =>
            Number(cur) < Number(b) + MaxDepth \/ Frozen(Number(b))
      BY <2>7 DEF Shallow, Behind
    <3> QED BY <1>1, <2>2, <2>7, <2>9, <3>1, <3>2 DEF Shallow, Behind
  <2>12. ASSUME NEW b \in Blocks, Repeats(b)
         PROVE  Repeats(b)'
    <3>1. ASSUME NEW i \in 1..Len(out'), Number(out'[i]) < Number(b), Frozen(Number(out'[i]))
          PROVE  After(b, i)'
      <4>1. CASE i \in 1..Len(out)
        BY <2>4, <2>7, <2>12, <3>1, <4>1 DEF Repeats, Earlier
      <4>2. CASE ~(i \in 1..Len(out))
        BY <2>3, <2>8, <2>12, <3>1, <4>2 DEF Repeats, Earlier
      <4> QED BY <4>1, <4>2
    <3>2. ASSUME NEW i \in 1..Len(wsq'), Number(wsq'[i]) < Number(b), Frozen(Number(wsq'[i]))
          PROVE  In(b, wsq', i + 1)
      BY <2>10, <2>12, <3>2 DEF Repeats, Earlier
    <3> QED BY <2>2, <2>7, <2>12, <3>1, <3>2 DEF Repeats, Earlier
  <2> QED BY <1>5, <2>7, <2>11, <2>12 DEF Steady
<1>10. ~SubscribeNewHeadFails /\ ~BackfillSkipped /\ ~SubscriptionError
  BY <1>2 DEF SubscribeNewHeadFails, BackfillSkipped, SubscriptionError
<1>11. ~BackfillBreak
  BY <1>1, <1>2, <1>3 DEF BackfillBreak, Bounded
<1>12. ~PollTick /\ ~PollBlock /\ ~PollBreak /\ ~PollDone
  BY <1>2 DEF PollTick, PollBlock, PollBreak, PollDone
<1> QED BY <1>6, <1>7, <1>8, <1>9, <1>10, <1>11, <1>12 DEF ListenerStep

\* Nothing undoes a failure, a restart or a lower head, and the head the backfill goes to
\* is read once.
LEMMA FaultlessBefore ==
    ASSUME IndexerInv, [IndexerNext]_vars, Faultless'
    PROVE  Faultless /\ ~Restart /\ ~OpFault
<1>1. ChainTypeOK /\ ListenerInv /\ BoundsOK
  BY IndexerInvParts
<1>2. /\ reorgs \in Nat /\ faults \in Nat /\ opFaults \in Nat /\ crashes \in Nat
  BY <1>1, ChainAssumption, ListenerAssumption, IndexerAssumption
     DEF ChainTypeOK, ListenerInv, ListenerTypeOK, BoundsOK
<1>3. ~Restart /\ ~OpFault
  BY <1>2 DEF Restart, OpFault, Faultless
<1>a. ASSUME Started => Started' /\ latest' = latest
      PROVE  WindowSuffices
  BY <1>a DEF Faultless, WindowSuffices
<1>4. CASE NodeMoves
  <2>1. reorgs' \in Nat /\ reorgs' >= reorgs
    BY <1>1, <1>4, NodeKeepsPrefix DEF NodeMoves
  <2>2. UNCHANGED <<faults, opFaults, crashes, lpc, latest>>
    BY <1>4 DEF NodeMoves, NodeStep, Mine, Reorg, Announce
  <2> QED BY <1>2, <1>3, <1>a, <2>1, <2>2 DEF Faultless, Started
<1>5. CASE ListenerMoves \/ SubscriptionDrops
  <2>1. UNCHANGED <<reorgs, opFaults, crashes>>
    BY <1>5 DEF ListenerMoves, SubscriptionDrops, chainVars
  <2>2. faults' = faults \/ faults' = faults + 1
    BY <1>5 DEF ListenerMoves, SubscriptionDrops, ListenerStep, SubscribeNewHead,
       SubscribeNewHeadFails, BackfillStart, BackfillSkipped, BackfillBlock, BackfillBreak,
       BackfillDone, LiveHeader, PollTick, PollBlock, PollBreak, PollDone, SubscriptionError, Fault
  <2>3. ~Fault
    BY <1>2 DEF Fault, Faultless
  <2>4. Started => Started' /\ latest' = latest
    BY <1>5, <2>3 DEF ListenerMoves, SubscriptionDrops, ListenerStep, SubscribeNewHead,
       SubscribeNewHeadFails, BackfillStart, BackfillSkipped, BackfillBlock, BackfillBreak,
       BackfillDone, LiveHeader, PollTick, PollBlock, PollBreak, PollDone, SubscriptionError, Started
  <2> QED BY <1>2, <1>3, <1>a, <2>1, <2>2, <2>4 DEF Faultless
<1>6. CASE IndexerStep
  <2>1. UNCHANGED <<reorgs, faults, crashes>> /\ opFaults' = opFaults
    BY <1>3, <1>6
       DEF IndexerStep, GetSyncStatus, GetSyncStatusFails, ReceiveLinked, ReceiveReorg, Receive,
           DeleteEventsFromBlock, DeleteBlocksFromBlock, RollSyncStatus, HandleReorgFails,
           SaveBlock, UpdateSyncStatus, ProcessBlockFails, FilterLogs, FilterLogsFails, SkipLog,
           SaveEvent, SaveEventFails, Publish, PublishFails, BlockIndexed, Drop, Open, netVars,
           chainVars, listenerVars
  <2>2. Started => Started' /\ latest' = latest
    BY <1>3, <1>6
       DEF IndexerStep, GetSyncStatus, GetSyncStatusFails, ReceiveLinked, ReceiveReorg, Receive,
           DeleteEventsFromBlock, DeleteBlocksFromBlock, RollSyncStatus, HandleReorgFails,
           SaveBlock, UpdateSyncStatus, ProcessBlockFails, FilterLogs, FilterLogsFails, SkipLog,
           SaveEvent, SaveEventFails, Publish, PublishFails, BlockIndexed, Drop, Open, netVars,
           listenerVars, Started
  <2> QED BY <1>3, <1>a, <2>1, <2>2 DEF Faultless
<1>7. CASE UNCHANGED vars
  BY <1>3, <1>a, <1>7 DEF vars, netVars, chainVars, listenerVars, Faultless, Started
<1> QED BY <1>3, <1>4, <1>5, <1>6, <1>7 DEF IndexerNext

\* Whatever the stream does, the indexer's side of the accounts stays as it is.
LEMMA IndexAdvance ==
    ASSUME ChainTypeOK, ChainTypeOK', ListenerInv, MemTypeOK, StoreTypeOK, Shallow,
           Advance, Steady, IndexInv, LogsInv, UNCHANGED <<memVars, storeVars>>
    PROVE  IndexInv' /\ LogsInv'
<1>1. /\ UNCHANGED <<pc, cur, fork, got, li, hashes, blocks, events, sync, published>>
      /\ Len(chain) \in Nat /\ Len(chain') \in Nat /\ latest \in Nat /\ MaxDepth \in Nat
  BY ChainIsSeq, ChainAssumption DEF memVars, storeVars, ChainTypeOK, ListenerInv, ListenerTypeOK
<1>2. /\ Len(chain') >= Len(chain)
      /\ \A b : Queued(b) => Queued(b)'
  BY DEF Advance
<1>3. ASSUME NEW n \in 1..Len(chain'), ~Coming(n, 0)'
      PROVE  n \in 1..Len(chain) /\ BlockAt(chain', n) = BlockAt(chain, n) /\ ~Coming(n, 0)
  BY <1>1, <1>3 DEF Advance
<1>4. AllAccounted'
  <2> SUFFICES ASSUME NEW n \in 1..Len(chain'), ~Coming(n, 0)'
               PROVE  InWork(n)' \/ Settled(n)'
    BY DEF AllAccounted
  <2>1. InWork(n) \/ Settled(n)
    BY <1>3 DEF IndexInv, AllAccounted
  <2> QED BY <1>1, <1>3, <2>1 DEF InWork, Settled, Done
<1>5. RollbackCovered'
  BY <1>1, <1>3 DEF IndexInv, RollbackCovered
<1>6. LogsAccounted'
  BY <1>1, <1>2 DEF IndexInv, LogsAccounted, Event
<1>7. CheckpointFollows'
  <2>1. \A n \in DOMAIN blocks : n \in Nat
    BY BlockMapDef DEF StoreTypeOK
  <2> QED BY <1>1, <1>2, <2>1 DEF IndexInv, CheckpointFollows
<1>8. \A b \in Blocks : Number(b) \in Nat \ {0}
  BY BlockIsSeq, ChainAssumption DEF Number
<1>9. ASSUME NEW b \in Blocks, Deep(Number(b))
      PROVE  /\ Deep(Number(b))' /\ Number(b) \in 1..Len(chain)
             /\ BlockAt(chain', Number(b)) = BlockAt(chain, Number(b))
  <2>1. Number(b) \in 1..Len(chain) /\ Number(b) + MaxDepth <= Len(chain')
    BY <1>1, <1>2, <1>8, <1>9 DEF Deep
  <2> QED BY <1>9, <2>1 DEF Deep, Steady
<1>10. events \subseteq Events /\ \A e \in events : e.block \in Blocks
  BY DEF StoreTypeOK, Events
<1>11. EventsExplained'
  <2> SUFFICES ASSUME NEW e \in events
               PROVE  /\ e.index \in Good
                      /\ \/ Number(e.block) \in DOMAIN hashes /\ e.block = hashes[Number(e.block)]
                         \/ Queued(e.block)'
                         \/ Deep(Number(e.block))' /\ e.block = BlockAt(chain', Number(e.block))
                         \/ pc = "delEvents" /\ Number(e.block) >= fork
    BY <1>1 DEF EventsExplained
  <2> QED BY <1>2, <1>9, <1>10 DEF IndexInv, EventsExplained
<1>12. WindowAgrees'
  <2> SUFFICES ASSUME NEW n \in DOMAIN hashes
               PROVE  /\ n <= Len(chain')
                      /\ \/ hashes[n] = BlockAt(chain', n)
                         \/ Coming(n, 0)'
                         \/ pc \in RollingBack /\ n >= fork
    BY <1>1 DEF WindowAgrees
  <2>1. n \in Nat \ {0} /\ n <= Len(chain)
    BY BlockMapDef DEF MemTypeOK, IndexInv, WindowAgrees
  <2>2. n \in 1..Len(chain')
    BY <1>1, <1>2, <2>1
  <2> QED BY <1>1, <1>3, <2>2 DEF IndexInv, WindowAgrees
<1>13. CurRecorded'
  <2>1. pc \notin {"boot", "idle"} => cur # <<>>
    BY DEF IndexInv, CheckpointFollows
  <2>2. pc \notin {"boot", "idle"} => (Frozen(Number(cur)) => Frozen(Number(cur))')
    BY <1>1, <2>1 DEF Steady
  <2> QED BY <1>1, <2>2 DEF IndexInv, CurRecorded
<1>14. ASSUME NEW b \in Blocks, cur # <<>>, Repeats(b), Stable(b)
       PROVE  Repeats(b)' /\ Stable(b)'
  <2>1. Repeats(b)'
    BY <1>14 DEF Steady
  <2>2. ASSUME Frozen(Number(b))'
        PROVE  b = BlockAt(chain', Number(b))
    <3>1. Frozen(Number(b))
      BY <1>14, <2>2 DEF Steady
    <3>2. Deep(Number(b))
      <4>1. latest <= Len(chain) /\ Number(b) + MaxDepth <= latest
        BY <3>1 DEF Frozen, Shallow
      <4> QED BY <1>1, <1>8, <4>1 DEF Deep
    <3> QED BY <1>9, <1>14, <3>1, <3>2 DEF Stable
  <2> QED BY <2>1, <2>2 DEF Stable
<1>15. LogsInv'
  <2>1. ASSUME NEW e \in events
        PROVE  Repeats(e.block)' /\ Stable(e.block)'
    <3>1. PICK b \in Blocks : b = e.block
      BY <1>10
    <3>2. cur # <<>> /\ Repeats(b) /\ Stable(b)
      BY <3>1 DEF IndexInv, CheckpointFollows, LogsInv
    <3> QED BY <1>14, <3>1, <3>2
  <2>2. ASSUME pc \in {"logs", "publish"}
        PROVE  got \in Blocks /\ Repeats(got)' /\ Stable(got)'
    <3>1. got \in Blocks /\ Repeats(got) /\ Stable(got) /\ cur # <<>>
      BY <2>2 DEF IndexInv, CheckpointFollows, LogsInv
    <3>2. PICK b \in Blocks : b = got
      BY <3>1
    <3>3. Repeats(b)' /\ Stable(b)'
      BY <1>14, <3>1, <3>2
    <3> QED BY <1>1, <3>1, <3>2, <3>3 DEF Repeats, Stable, Earlier, Queued, After
  <2> QED BY <1>1, <2>1, <2>2 DEF LogsInv
<1> QED BY <1>4, <1>5, <1>6, <1>7, <1>11, <1>12, <1>13, <1>15 DEF IndexInv

\* A block is the end of its own ancestry.
LEMMA BlockOfItself ==
    ASSUME NEW b \in Blocks
    PROVE  /\ b \in Seq(Salt) /\ b # <<>> /\ Number(b) \in 1..MaxHeight /\ Number(b) \in Nat \ {0}
           /\ BlockAt(b, Number(b)) = b /\ BlockAt(b, Number(b) - 1) = ParentHash(b)
<1>1. b \in Seq(Salt) /\ Len(b) \in 1..MaxHeight /\ Len(b) \in Nat \ {0}
  BY BlockIsSeq, ChainAssumption
<1>2. PICK c : c = BlockAt(b, Number(b))
  OBVIOUS
<1>3. /\ c \in Seq(Salt) /\ Len(c) = Len(b)
      /\ \A i \in 1..Len(b) : c[i] = b[i]
  BY <1>1, <1>2, SubSeqProperties DEF BlockAt, Number
<1>4. c = b
  BY <1>1, <1>3, SeqEqual
<1> QED BY <1>1, <1>2, <1>4 DEF Number, BlockAt, ParentHash

\* A header taken from the channel: whatever is not overtaken by it comes after it.
LEMMA ReceiveQueue ==
    ASSUME ChainTypeOK, ListenerInv, QueueInv, Shallow, Receive, pc = "idle", pc' # "boot",
           cur' = Head(out), UNCHANGED <<chainVars, sync>>
    PROVE  /\ QueueInv' /\ Shallow'
           /\ \A b : Queued(b)' <=> After(b, 1)
           /\ \A n : Frozen(n)' <=> Frozen(n)
           /\ \A b \in Blocks : Repeats(b) => Repeats(b)'
           /\ \A n \in 1..Len(chain) : Coming(n, 0) => Coming(n, 0)' \/ BlockAt(chain, n) = cur'
           /\ \A b : Queued(b) => Queued(b)' \/ b = cur'
<1>1. /\ chain' = chain /\ Len(chain) \in Nat
      /\ UNCHANGED <<lpc, start, latest, next, wsq>> /\ out # <<>> /\ out' = Tail(out)
      /\ out \in Seq(Blocks)
  BY ChainIsSeq DEF ChainTypeOK, chainVars, ListenerInv, ListenerTypeOK, Receive
<1>2. /\ Len(out) \in Nat \ {0} /\ cur' = out[1] /\ cur' \in Blocks
      /\ Len(out') = Len(out) - 1
      /\ \A j \in 1..Len(out') : out'[j] = out[j + 1]
  BY <1>1, HeadTailProperties, EmptySeq, LenProperties, ElementOfSeq
<1>3. ASSUME NEW i \in Nat \ {0}
      PROVE  \A b : In(b, out, i + 1) <=> In(b, out', i)
  BY <1>1, InTail
<1>4. \A b : In(b, out, 1) => b = cur' \/ In(b, out', 1)
  <2>1. 1 \in Nat \ {0}
    OBVIOUS
  <2> QED BY <1>1, <2>1, InTail
<1>5. ToFetch' = ToFetch
  BY <1>1 DEF ToFetch
<1>6. ASSUME NEW n \in 1..Len(chain), NEW i \in Nat, Coming(n, i + 1)
      PROVE  Coming(n, i)'
  <2>1. i + 1 \in Nat \ {0}
    OBVIOUS
  <2>2. In(BlockAt(chain, n), out, i + 1 + 1) => In(BlockAt(chain, n), out', i + 1)
    BY <1>3, <2>1
  <2> QED BY <1>1, <1>5, <1>6, <2>2 DEF Coming
<1>7. Bounded'
  <2>1. \A i \in 1..Len(out') : i + 1 \in 1..Len(out)
    BY <1>2
  <2> QED BY <1>1, <1>2, <2>1 DEF QueueInv, Bounded
<1>8. Fresh'
  BY <1>1 DEF QueueInv, Fresh
<1>9. Overtaken'
  <2> SUFFICES ASSUME NEW n \in 1..Len(chain)
               PROVE  /\ Descends(cur', BlockAt(chain, n)) \/ Coming(n, 0)'
                      /\ \A i \in 1..Len(out') : Descends(out'[i], BlockAt(chain, n)) \/ Coming(n, i)'
    BY <1>1 DEF QueueInv, Overtaken
  <2>1. \A i \in 1..Len(out) : Descends(out[i], BlockAt(chain, n)) \/ Coming(n, i)
    BY DEF QueueInv, Overtaken
  <2>2. Descends(cur', BlockAt(chain, n)) \/ Coming(n, 0)'
    <3>1. 1 \in 1..Len(out) /\ 0 \in Nat /\ 0 + 1 = 1
      BY <1>2
    <3>2. Descends(out[1], BlockAt(chain, n)) \/ Coming(n, 0 + 1)
      BY <2>1, <3>1
    <3> QED BY <1>2, <1>6, <3>1, <3>2
  <2>3. ASSUME NEW i \in 1..Len(out')
        PROVE  Descends(out'[i], BlockAt(chain, n)) \/ Coming(n, i)'
    <3>1. i + 1 \in 1..Len(out) /\ i \in Nat
      BY <1>2
    <3>2. Descends(out[i + 1], BlockAt(chain, n)) \/ Coming(n, i + 1)
      BY <2>1, <3>1
    <3> QED BY <1>2, <1>6, <3>1, <3>2
  <2> QED BY <2>2, <2>3
<1>10. \A n \in 1..Len(chain) : Coming(n, 0) => Coming(n, 0)' \/ BlockAt(chain, n) = cur'
  BY <1>1, <1>4, <1>5 DEF Coming
<1>11. \A b : Queued(b) => Queued(b)' \/ b = cur'
  BY <1>1, <1>4 DEF Queued
<1>12. /\ \A b : Queued(b)' <=> After(b, 1)
       /\ \A b, i : i \in 1..Len(out') => (After(b, i)' <=> After(b, i + 1))
  <2>1. \A b : In(b, out, 1 + 1) <=> In(b, out', 1)
    <3>1. 1 \in Nat \ {0}
      OBVIOUS
    <3> QED BY <1>3, <3>1
  <2>2. \A b, i : i \in 1..Len(out') => (In(b, out, (i + 1) + 1) <=> In(b, out', i + 1))
    <3>1. \A i \in 1..Len(out') : i + 1 \in Nat \ {0}
      OBVIOUS
    <3> QED BY <1>3, <3>1
  <2> QED BY <1>1, <2>1, <2>2 DEF Queued, After
<1>13. \A n : Frozen(n)' <=> Frozen(n)
  BY <1>1 DEF Frozen, Started
<1>14. 1 \in 1..Len(out) /\ \A i \in 1..Len(out') : i + 1 \in 1..Len(out)
  BY <1>2
<1>15. Shallow'
  <2>1. \A b \in Blocks : Queued(b)' => Number(cur') < Number(b) + MaxDepth \/ Frozen(Number(b))
    BY <1>2, <1>12, <1>14 DEF Shallow, Behind
  <2>2. \A i \in 1..Len(out'), b \in Blocks :
          After(b, i)' => Number(out'[i]) < Number(b) + MaxDepth \/ Frozen(Number(b))
    BY <1>2, <1>12, <1>14 DEF Shallow, Behind
  <2> QED BY <1>1, <1>13, <2>1, <2>2 DEF Shallow, Behind, Started
<1>16. ASSUME NEW b \in Blocks, Repeats(b)
       PROVE  Repeats(b)'
  <2>1. Number(cur') < Number(b) /\ Frozen(Number(cur')) => Queued(b)'
    BY <1>2, <1>12, <1>14, <1>16 DEF Repeats, Earlier
  <2>2. \A i \in 1..Len(out') :
          Number(out'[i]) < Number(b) /\ Frozen(Number(out'[i])) => After(b, i)'
    BY <1>2, <1>12, <1>14, <1>16 DEF Repeats, Earlier
  <2> QED BY <1>1, <1>13, <1>16, <2>1, <2>2 DEF Repeats, Earlier
<1> QED BY <1>7, <1>8, <1>9, <1>10, <1>11, <1>12, <1>13, <1>15, <1>16 DEF QueueInv

\* An event whose block the window forgets when b is recorded is canonical for good, or its
\* block comes again.
LEMMA ForgottenEvent ==
    ASSUME ChainTypeOK, ListenerInv, Shallow, Started, NEW b \in Blocks, NEW a \in Blocks,
           Number(b) <= Len(chain), Number(a) <= Len(chain),
           Number(a) + MaxDepth <= Number(b) \/ Frozen(Number(b)),
           a = BlockAt(chain, Number(a)) \/ Behind(b, BlockAt(chain, Number(a))),
           Stable(a), NEW Q, Earlier(b, a) => Q
    PROVE  Q \/ (Deep(Number(a)) /\ a = BlockAt(chain, Number(a)))
<1>1. /\ Number(a) \in Nat \ {0} /\ Number(b) \in Nat \ {0} /\ MaxDepth \in Nat
      /\ latest \in Nat /\ chain \in Chains /\ Len(chain) \in Nat /\ latest <= Len(chain)
  BY BlockOfItself, ChainIsSeq, ChainAssumption DEF ChainTypeOK, ListenerInv, ListenerTypeOK, Shallow
<1>2. Frozen(Number(a)) => Deep(Number(a)) /\ a = BlockAt(chain, Number(a))
  BY <1>1 DEF Frozen, Deep, Stable
<1>3. CASE Number(a) + MaxDepth <= Number(b)
  <2>1. Deep(Number(a))
    BY <1>1, <1>3 DEF Deep
  <2>2. Number(BlockAt(chain, Number(a))) = Number(a)
    <3>1. Number(a) \in 1..Len(chain) /\ Number(a) \in 1..Number(a)
      BY <1>1
    <3> QED BY <1>1, <3>1, ChainDescends
  <2>3. Behind(b, BlockAt(chain, Number(a))) => Frozen(Number(a))
    BY <1>1, <1>3, <2>2 DEF Behind
  <2> QED BY <1>2, <2>1, <2>3
<1>4. CASE Frozen(Number(b))
  <2>1. CASE Number(b) < Number(a)
    BY <1>4, <2>1 DEF Earlier
  <2>2. CASE ~(Number(b) < Number(a))
    <3>1. Frozen(Number(a))
      BY <1>1, <1>4, <2>2 DEF Frozen
    <3> QED BY <1>2, <3>1
  <2> QED BY <2>1, <2>2
<1> QED BY <1>3, <1>4

\* Once a header is on its way the listener has started, and stays in the subscription.
LEMMA Running ==
    ASSUME IndexerInv, StreamInv, Faultless, QueueInv, cur # <<>> \/ out # <<>>
    PROVE  Started /\ (lpc = "live" => ToFetch = {}) /\ (lpc = "backfill" => ToFetch = next..latest)
<1>1. lpc \notin {"off", "dial", "latest"}
  BY DEF QueueInv, Fresh
<1>2. lpc \notin {"poll", "fetch"}
  BY DEF StreamInv, Healthy, Faultless
<1>3. lpc \in {"backfill", "live"}
  BY <1>1, <1>2 DEF IndexerInv, IndexerTypeOK, ListenerTypeOK, ListenerPC
<1> QED BY <1>3 DEF Started, ToFetch

LEMMA ReceiveIndex ==
    ASSUME IndexerInv, StreamInv, Faultless, QueueInv, Shallow, IndexInv, LogsInv,
           ReceiveLinked \/ ReceiveReorg
    PROVE  QueueInv' /\ Shallow' /\ IndexInv' /\ LogsInv'
<1>a. ChainTypeOK /\ ListenerInv /\ MemTypeOK /\ StoreTypeOK /\ CoreInv
  BY IndexerInvParts
<1>1. /\ Receive /\ pc = "idle" /\ pc' \in {"saveBlock", "delEvents"}
      /\ cur' = Head(out) /\ out # <<>>
      /\ UNCHANGED <<chainVars, chain, got, li, blocks, events, sync, published>>
  BY DEF ReceiveLinked, ReceiveReorg, Receive, storeVars, chainVars
<1>2. PICK b \in Blocks : b = cur'
  BY <1>a, <1>1, ReceiveType
<1>3. /\ QueueInv' /\ Shallow'
      /\ \A n \in 1..Len(chain) : Coming(n, 0) => Coming(n, 0)' \/ BlockAt(chain, n) = b
      /\ \A a : Queued(a) => Queued(a)' \/ a = b
      /\ \A a : Queued(a)' <=> After(a, 1)
      /\ \A n : Frozen(n)' <=> Frozen(n)
      /\ \A a \in Blocks : Repeats(a) => Repeats(a)'
  BY <1>a, <1>1, <1>2, ReceiveQueue
<1>4. /\ Number(b) \in Nat \ {0} /\ b # <<>> /\ BlockAt(b, Number(b)) = b
      /\ BlockAt(b, Number(b) - 1) = ParentHash(b)
  BY BlockOfItself
<1>5. /\ hashes \in BlockMaps /\ chain \in Chains /\ Len(chain) \in Nat
      /\ next \in Nat /\ latest \in Nat /\ MaxDepth \in Nat /\ latest <= Len(chain)
      /\ Started /\ (lpc = "live" => ToFetch = {}) /\ (lpc = "backfill" => ToFetch = next..latest)
  BY <1>a, <1>1, ChainIsSeq, ChainAssumption, Running
     DEF MemTypeOK, ChainTypeOK, ListenerInv, ListenerTypeOK, Shallow
<1>6. /\ b = out[1] /\ 1 \in 1..Len(out) /\ Number(b) \in 1..Len(chain) /\ Number(b) <= Len(chain)
      /\ lpc = "backfill" => Number(b) < next
  <2>1. out \in Seq(Blocks)
    BY <1>a DEF ListenerInv, ListenerTypeOK
  <2>2. b = out[1] /\ 1 \in 1..Len(out)
    BY <1>1, <1>2, <2>1, HeadTailProperties, EmptySeq, LenProperties
  <2> QED BY <1>4, <1>5, <2>2 DEF QueueInv, Bounded
<1>7. b = BlockAt(chain, Number(b)) \/ Coming(Number(b), 0)'
  <2>1. Descends(b, BlockAt(chain, Number(b))) \/ Coming(Number(b), 0)'
    BY <1>1, <1>2, <1>3, <1>4, <1>6 DEF QueueInv, Overtaken
  <2>2. Number(BlockAt(chain, Number(b))) = Number(b)
    <3>1. Number(b) \in 1..Number(b)
      BY <1>4
    <3> QED BY <1>5, <1>6, <3>1, ChainDescends
  <2> QED BY <1>4, <2>1, <2>2 DEF Descends
<1>8. AllAccounted'
  <2> SUFFICES ASSUME NEW n \in 1..Len(chain)
               PROVE  Coming(n, 0)' \/ InWork(n)' \/ Settled(n)'
    BY <1>1 DEF AllAccounted
  <2>1. Coming(n, 0) \/ Settled(n)
    BY <1>1 DEF IndexInv, AllAccounted, InWork, RollingBack
  <2>2. Settled(n) => Settled(n)'
    BY <1>1 DEF Settled, Done
  <2>3. BlockAt(chain, n) = b => InWork(n)'
    BY <1>1, <1>2 DEF InWork, RollingBack
  <2> QED BY <1>3, <2>1, <2>2, <2>3
<1>9. LogsAccounted' /\ CheckpointFollows'
  BY <1>1, <1>2, <1>4 DEF IndexInv, LogsAccounted, CheckpointFollows
<1>10. events \subseteq Events /\ \A e \in events : e.block \in Blocks
  BY <1>a DEF StoreTypeOK, Events
<1>11. LogsInv'
  <2>1. ASSUME NEW e \in events
        PROVE  Repeats(e.block)' /\ Stable(e.block)'
    <3>1. PICK a \in Blocks : a = e.block
      BY <1>10
    <3>2. Repeats(a) /\ Stable(a)
      BY <3>1 DEF LogsInv
    <3>3. Repeats(a)' /\ Stable(a)'
      BY <1>1, <1>3, <3>2 DEF Stable
    <3> QED BY <3>1, <3>3
  <2> QED BY <1>1, <2>1 DEF LogsInv
<1>12. \A n \in DOMAIN hashes :
         /\ n \in 1..Len(chain) /\ hashes[n] \in Blocks /\ Number(hashes[n]) = n
         /\ hashes[n] = BlockAt(chain, n) \/ Coming(n, 0)
  <2>1. \A n \in DOMAIN hashes : n <= Len(chain) /\ (hashes[n] = BlockAt(chain, n) \/ Coming(n, 0))
    BY <1>1 DEF IndexInv, WindowAgrees, RollingBack
  <2>2. \A n \in DOMAIN hashes : n \in Nat \ {0} /\ hashes[n] \in Blocks /\ Number(hashes[n]) = n
    BY <1>5, BlockMapDef
  <2> QED BY <1>5, <2>1, <2>2
<1>13. ASSUME NEW e \in events
       PROVE  /\ e.index \in Good
              /\ \/ Number(e.block) \in DOMAIN hashes /\ e.block = hashes[Number(e.block)]
                 \/ Queued(e.block)
                 \/ Deep(Number(e.block)) /\ e.block = BlockAt(chain, Number(e.block))
  BY <1>1 DEF IndexInv, EventsExplained
<1>14. CASE ReceiveReorg
  <2>1. /\ DetectReorg(hashes, b) /\ fork' = ForkBlock(hashes, b) /\ hashes' = hashes
        /\ pc' = "delEvents"
    BY <1>1, <1>2, <1>14 DEF ReceiveReorg
  <2>2. fork' \in 1..Number(b)
    BY <1>5, <2>1, ForkBlockRange
  <2>3. RollbackCovered'
    <3> SUFFICES ASSUME NEW n \in 1..Len(chain), n >= fork', ~Coming(n, 0)'
                 PROVE  b = BlockAt(chain, n)
      BY <1>1, <1>2 DEF RollbackCovered
    <3>1. Descends(b, BlockAt(chain, n))
      BY <1>1, <1>2, <1>3, <1>4 DEF QueueInv, Overtaken
    <3>2. Number(BlockAt(chain, n)) = n
      <4>1. n \in 1..n
        OBVIOUS
      <4> QED BY <1>5, <4>1, ChainDescends
    <3>3. n <= Number(b) /\ BlockAt(b, n) = BlockAt(chain, n)
      BY <3>1, <3>2 DEF Descends
    <3>4. CASE n = Number(b)
      BY <1>4, <3>3, <3>4
    <3>5. CASE n # Number(b)
      <4>1. n = Number(b) - 1 /\ OtherParent(hashes, b)
        BY <1>4, <2>1, <2>2, <3>3, <3>5 DEF ForkBlock, DetectReorg
      <4>2. n \in DOMAIN hashes /\ hashes[n] # BlockAt(chain, n)
        BY <1>4, <3>3, <4>1 DEF OtherParent
      <4> QED BY <1>3, <1>12, <4>2
    <3> QED BY <3>4, <3>5
  <2>4. EventsExplained'
    <3> SUFFICES ASSUME NEW e \in events
                 PROVE  /\ e.index \in Good
                        /\ \/ Number(e.block) \in DOMAIN hashes /\ e.block = hashes[Number(e.block)]
                           \/ Queued(e.block)'
                           \/ Deep(Number(e.block)) /\ e.block = BlockAt(chain, Number(e.block))
                           \/ Number(e.block) >= fork'
      BY <1>1, <2>1 DEF EventsExplained, Deep
    <3>1. e.block = b => Number(e.block) >= fork'
      BY <1>4, <2>2
    <3> QED BY <1>3, <1>13, <3>1
  <2>5. WindowAgrees'
    <3> SUFFICES ASSUME NEW n \in DOMAIN hashes
                 PROVE  /\ n <= Len(chain)
                        /\ hashes[n] = BlockAt(chain, n) \/ Coming(n, 0)' \/ n >= fork'
      BY <1>1, <2>1 DEF WindowAgrees, RollingBack
    <3>1. BlockAt(chain, n) = b => n >= fork'
      <4>1. n \in 1..n
        BY <1>12
      <4>2. Number(BlockAt(chain, n)) = n
        BY <1>5, <1>12, <4>1, ChainDescends
      <4> QED BY <1>4, <2>2, <4>2
    <3> QED BY <1>3, <1>12, <3>1
  <2>6. CurRecorded'
    BY <2>1 DEF CurRecorded
  <2> QED BY <1>3, <1>8, <1>9, <1>11, <2>3, <2>4, <2>5, <2>6 DEF IndexInv
<1>15. CASE ReceiveLinked
  <2>1. PICK r : r = RecordBlock(hashes, b)
    OBVIOUS
  <2>2. ~DetectReorg(hashes, b) /\ hashes' = r /\ pc' = "saveBlock"
    BY <1>1, <1>2, <1>15, <2>1 DEF ReceiveLinked
  <2>3. RollbackCovered'
    BY <2>2 DEF RollbackCovered, RollingBack
  <2>4. /\ DOMAIN r \subseteq DOMAIN hashes \cup {Number(b)}
        /\ \A n \in DOMAIN r : r[n] = IF n = Number(b) THEN b ELSE hashes[n]
    BY <1>5, <2>1, RecordedEntries
  <2>5. Number(b) \in DOMAIN hashes => hashes[Number(b)] = b
    BY <2>2 DEF DetectReorg, OtherAtHeight
  <2>6. /\ Number(b) \in DOMAIN r \/ Frozen(Number(b))
        /\ \A m \in DOMAIN hashes : \/ m \in DOMAIN r
                                    \/ m + MaxDepth <= Number(b)
                                    \/ Frozen(Number(b))
    BY <1>5, <2>1, RecordDrops DEF Faultless
  <2>7. ASSUME NEW e \in events
        PROVE  \/ Number(e.block) \in DOMAIN r /\ e.block = r[Number(e.block)]
               \/ Queued(e.block)'
               \/ Deep(Number(e.block)) /\ e.block = BlockAt(chain, Number(e.block))
    <3>1. PICK a \in Blocks : a = e.block /\ Repeats(a) /\ Stable(a)
      BY <1>10 DEF LogsInv
    <3>2. CASE Number(a) \in DOMAIN hashes /\ a = hashes[Number(a)]
      <4>1. CASE Number(a) \in DOMAIN r
        BY <2>4, <2>5, <3>1, <3>2, <4>1
      <4>2. CASE Number(a) \notin DOMAIN r
        <5>1. Number(a) + MaxDepth <= Number(b) \/ Frozen(Number(b))
          BY <2>6, <3>2, <4>2
        <5>2. PICK c : c = BlockAt(chain, Number(a))
          OBVIOUS
        <5>3. c \in Blocks /\ Number(c) = Number(a) /\ Number(a) \in 1..Len(chain)
          <6>1. Number(a) \in 1..Len(chain) /\ Number(a) \in 1..Number(a)
            BY <1>12, <3>2
          <6> QED BY <1>5, <5>2, <6>1, ChainDescends
        <5>4. a = c \/ Behind(b, c)
          <6>1. a = c \/ Number(a) \in ToFetch \/ Queued(c)
            BY <1>12, <3>2, <5>2 DEF Coming, Queued
          <6>2. CASE Number(a) \in ToFetch
            <7>1. Number(b) < Number(a)
              <8>1. lpc = "backfill" /\ Number(a) \in next..latest
                BY <1>5, <6>2 DEF Started
              <8> QED BY <1>4, <1>5, <1>6, <8>1
            <7> QED BY <1>4, <1>5, <5>3, <7>1 DEF Behind
          <6>3. CASE Queued(c)
            <7>1. c = b \/ After(c, 1)
              BY <1>3, <6>3
            <7>2. c = b => a = c
              BY <2>5, <3>2, <5>3
            <7>3. After(c, 1) => Behind(b, c)
              BY <1>6, <5>3 DEF Shallow
            <7> QED BY <7>1, <7>2, <7>3
          <6> QED BY <6>1, <6>2, <6>3
        <5>5. Earlier(b, a) => Queued(a)'
          BY <1>3, <1>6, <3>1 DEF Repeats
        <5>6. Number(a) <= Len(chain)
          BY <1>5, <5>3
        <5> QED BY <1>a, <1>5, <1>6, <3>1, <5>1, <5>2, <5>4, <5>5, <5>6, ForgottenEvent
      <4> QED BY <4>1, <4>2
    <3>3. CASE Queued(a)
      <4>1. CASE a = b /\ Number(b) \in DOMAIN r
        BY <2>4, <3>1, <4>1
      <4>2. CASE a = b /\ Frozen(Number(b))
        BY <1>4, <1>5, <3>1, <4>2 DEF Stable, Frozen, Deep
      <4> QED BY <1>3, <2>6, <3>1, <3>3, <4>1, <4>2
    <3> QED BY <1>13, <3>1, <3>2, <3>3
  <2>8. EventsExplained'
    BY <1>1, <1>13, <2>2, <2>7 DEF EventsExplained, Deep
  <2>9. WindowAgrees'
    <3> SUFFICES ASSUME NEW n \in DOMAIN r
                 PROVE  n <= Len(chain) /\ (r[n] = BlockAt(chain, n) \/ Coming(n, 0)')
      BY <1>1, <2>2 DEF WindowAgrees
    <3>1. CASE n = Number(b)
      BY <1>6, <1>7, <2>4, <3>1
    <3>2. CASE n # Number(b)
      <4>1. n \in DOMAIN hashes /\ r[n] = hashes[n] /\ n \in 1..Len(chain) /\ n \in 1..n
        BY <1>12, <2>4, <3>2
      <4>2. Number(BlockAt(chain, n)) = n
        BY <1>5, <4>1, ChainDescends
      <4> QED BY <1>3, <1>12, <3>2, <4>1, <4>2
    <3> QED BY <3>1, <3>2
  <2>10. CurRecorded'
    BY <1>2, <1>3, <2>2, <2>4, <2>6 DEF CurRecorded
  <2> QED BY <1>3, <1>8, <1>9, <1>11, <2>3, <2>8, <2>9, <2>10 DEF IndexInv
<1> QED BY <1>14, <1>15

\* The indexer's other steps leave the stream alone.
LEMMA QueueFrame ==
    ASSUME QueueInv, Shallow, UNCHANGED <<chain, lpc, start, latest, next, wsq, out, cur>>,
           lpc = "off" => sync' = sync, pc' # "boot"
    PROVE  /\ QueueInv' /\ Shallow'
           /\ \A n : Frozen(n)' <=> Frozen(n)
           /\ \A b : (Repeats(b)' <=> Repeats(b)) /\ (Stable(b)' <=> Stable(b))
           /\ \A n \in 1..Len(chain), i \in Nat : Coming(n, i)' <=> Coming(n, i)
           /\ \A b : Queued(b)' <=> Queued(b)
<1>1. ToFetch' = ToFetch
  BY DEF ToFetch
<1>2. \A n \in 1..Len(chain), i \in Nat : Coming(n, i)' <=> Coming(n, i)
  BY <1>1 DEF Coming
<1>3. \A b : Queued(b)' <=> Queued(b)
  BY DEF Queued
<1>4. Bounded' /\ Fresh'
  BY DEF QueueInv, Bounded, Fresh
<1>5. Overtaken'
  <2> SUFFICES ASSUME NEW n \in 1..Len(chain)
               PROVE  /\ cur # <<>> => Descends(cur, BlockAt(chain, n)) \/ Coming(n, 0)'
                      /\ \A i \in 1..Len(out) : Descends(out[i], BlockAt(chain, n)) \/ Coming(n, i)'
    BY DEF QueueInv, Overtaken
  <2> QED BY <1>2 DEF QueueInv, Overtaken
<1>6. /\ \A n : Frozen(n)' <=> Frozen(n)
      /\ \A b, i : After(b, i)' <=> After(b, i)
  BY DEF Frozen, Started, After
<1>7. Shallow'
  BY <1>3, <1>6 DEF Shallow, Behind, Started
<1>8. \A b : (Repeats(b)' <=> Repeats(b)) /\ (Stable(b)' <=> Stable(b))
  BY <1>3, <1>6 DEF Repeats, Earlier, Stable
<1> QED BY <1>2, <1>3, <1>4, <1>5, <1>6, <1>7, <1>8 DEF QueueInv

\* Past the receive the block in hand is a block, and the backfill has gone beyond it.
LEMMA InHand ==
    ASSUME IndexerInv, QueueInv, pc \notin {"boot", "idle"}
    PROVE  /\ cur \in Blocks /\ cur # <<>> /\ Number(cur) \in Nat \ {0}
           /\ BlockAt(cur, Number(cur)) = cur
           /\ Number(cur) <= Len(chain) /\ Number(cur) \in 1..Len(chain)
           /\ Number(BlockAt(chain, Number(cur))) = Number(cur)
           /\ lpc # "off" /\ Number(cur) \notin ToFetch
<1>1. cur \in Blocks
  BY DEF IndexerInv, BlockInHand
<1>2. cur # <<>> /\ Number(cur) \in Nat \ {0} /\ BlockAt(cur, Number(cur)) = cur
  BY <1>1, BlockOfItself
<1>3. chain \in Chains /\ Len(chain) \in Nat /\ next \in Nat
  BY ChainIsSeq DEF IndexerInv, IndexerTypeOK, ChainTypeOK, ListenerTypeOK
<1>4. Number(cur) <= Len(chain) /\ Number(cur) \in 1..Len(chain)
  BY <1>2, <1>3 DEF QueueInv, Bounded
<1>5. lpc \notin {"off", "dial", "latest"}
  BY <1>2 DEF QueueInv, Fresh
<1>6. Number(cur) \notin ToFetch
  BY <1>2, <1>3, <1>5 DEF QueueInv, Bounded, ToFetch
<1>7. Number(BlockAt(chain, Number(cur))) = Number(cur)
  <2>1. Number(cur) \in 1..Number(cur)
    BY <1>2
  <2> QED BY <1>3, <1>4, <2>1, ChainDescends
<1> QED BY <1>1, <1>2, <1>4, <1>5, <1>6, <1>7

\* HandleReorg takes only what comes again.
LEMMA RollbackIndex ==
    ASSUME IndexerInv, StreamInv, RefinementInv, Faultless, QueueInv, Shallow, IndexInv, LogsInv,
           DeleteEventsFromBlock \/ DeleteBlocksFromBlock \/ RollSyncStatus
    PROVE  QueueInv' /\ Shallow' /\ IndexInv' /\ LogsInv'
<1>a. ChainTypeOK /\ ListenerInv /\ MemTypeOK /\ StoreTypeOK /\ CoreInv
  BY IndexerInvParts
<1>1. /\ UNCHANGED <<chain, lpc, start, latest, next, wsq, out, cur, fork, published>>
      /\ pc \in RollingBack /\ pc' \in {"delBlocks", "rollSync", "saveBlock"}
      /\ pc' \in RollingBack \cup {"saveBlock"}
  BY DEF DeleteEventsFromBlock, DeleteBlocksFromBlock, RollSyncStatus, netVars, chainVars,
         listenerVars, RollingBack
<1>2. /\ cur \in Blocks /\ cur # <<>> /\ lpc # "off" /\ Number(cur) \in Nat \ {0}
      /\ Number(cur) \in 1..Len(chain) /\ Number(cur) <= Len(chain)
      /\ BlockAt(cur, Number(cur)) = cur
      /\ Number(BlockAt(chain, Number(cur))) = Number(cur)
  BY <1>1, InHand DEF RollingBack
<1>3. /\ QueueInv' /\ Shallow'
      /\ \A n : Frozen(n)' <=> Frozen(n)
      /\ \A b : (Repeats(b)' <=> Repeats(b)) /\ (Stable(b)' <=> Stable(b))
      /\ \A n \in 1..Len(chain) : Coming(n, 0)' <=> Coming(n, 0)
      /\ \A b : Queued(b)' <=> Queued(b)
  BY <1>1, <1>2, QueueFrame
<1>4. /\ hashes \in BlockMaps /\ blocks \in BlockMaps /\ fork \in 1..Number(cur)
      /\ chain \in Chains /\ Len(chain) \in Nat
      /\ \A n \in DOMAIN hashes : n \in Nat \ {0} /\ Number(hashes[n]) = n
  BY <1>a, <1>1, ChainIsSeq, BlockMapDef DEF MemTypeOK, StoreTypeOK, ChainTypeOK, RefinementInv, ForkInHand, RollingBack
<1>5. RollbackCovered'
  BY <1>1, <1>3 DEF IndexInv, RollbackCovered
<1>6. LogsAccounted'
  BY <1>1 DEF LogsAccounted, RollingBack
<1>7. ASSUME \A n \in 1..Len(chain) : n < fork /\ Settled(n) => Settled(n)'
      PROVE  AllAccounted'
  <2> SUFFICES ASSUME NEW n \in 1..Len(chain), ~Coming(n, 0)'
               PROVE  InWork(n)' \/ Settled(n)'
    BY <1>1 DEF AllAccounted
  <2>1. InWork(n) => InWork(n)'
    BY <1>1 DEF InWork
  <2>2. CASE n >= fork
    BY <1>1, <1>3, <2>2 DEF IndexInv, RollbackCovered, InWork
  <2>3. CASE n < fork
    BY <1>3, <1>7, <2>1, <2>3 DEF IndexInv, AllAccounted
  <2> QED BY <1>4, <2>2, <2>3
<1>8. ASSUME \A n \in DOMAIN blocks' : n \in DOMAIN blocks
      PROVE  CheckpointFollows'
  BY <1>1, <1>2, <1>8 DEF IndexInv, CheckpointFollows, RollingBack
<1>b. events' \subseteq events /\ events \subseteq Events /\ \A e \in events : e.block \in Blocks
  BY <1>a DEF DeleteEventsFromBlock, DeleteBlocksFromBlock, RollSyncStatus, StoreTypeOK, Events
<1>c. LogsInv'
  <2>1. ASSUME NEW e \in events'
        PROVE  Repeats(e.block)' /\ Stable(e.block)'
    <3>1. PICK a : a = e.block
      OBVIOUS
    <3>2. Repeats(a)' /\ Stable(a)'
      BY <1>3, <1>b, <3>1 DEF LogsInv
    <3> QED BY <3>1, <3>2
  <2> QED BY <1>1, <2>1 DEF LogsInv, RollingBack
<1>d. ASSUME hashes' = hashes, pc' \in RollingBack
      PROVE  WindowAgrees' /\ CurRecorded'
  <2>1. \A n \in DOMAIN hashes : Coming(n, 0)' <=> Coming(n, 0)
    <3>1. \A n \in DOMAIN hashes : n \in 1..Len(chain)
      BY <1>4 DEF IndexInv, WindowAgrees
    <3> QED BY <1>3, <3>1
  <2> QED BY <1>1, <1>d, <2>1 DEF IndexInv, WindowAgrees, CurRecorded, RollingBack
<1>9. CASE DeleteEventsFromBlock
  <2>1. /\ events' = {e \in events : Number(e.block) < fork} /\ UNCHANGED <<hashes, blocks>>
        /\ pc' = "delBlocks"
    BY <1>9 DEF DeleteEventsFromBlock
  <2>2. ASSUME NEW n \in 1..Len(chain), n < fork, Settled(n)
        PROVE  Settled(n)'
    <3>1. n \in 1..n
      OBVIOUS
    <3>2. Number(BlockAt(chain, n)) = n
      BY <1>4, <3>1, ChainDescends
    <3>3. Done(BlockAt(chain, n), Good)'
      BY <1>1, <2>1, <2>2, <3>2 DEF Settled, Done
    <3> QED BY <1>1, <2>1, <2>2, <3>3 DEF Settled, Done
  <2>3. \A e \in events' : e \in events /\ ~(Number(e.block) >= fork)
    <3>1. \A e \in events : Number(e.block) \in Nat
      BY <1>a, BlockOfItself DEF StoreTypeOK, Events
    <3> QED BY <1>4, <2>1, <3>1
  <2>4. EventsExplained'
    BY <1>1, <1>3, <2>1, <2>3 DEF IndexInv, EventsExplained, Deep
  <2>5. WindowAgrees' /\ CurRecorded'
    BY <1>d, <2>1 DEF RollingBack
  <2> QED BY <1>3, <1>5, <1>6, <1>7, <1>8, <1>c, <2>1, <2>2, <2>4, <2>5 DEF IndexInv
<1>10. CASE DeleteBlocksFromBlock
  <2>1. /\ blocks' = Keep(blocks, {n \in DOMAIN blocks : n < fork}) /\ UNCHANGED <<events, hashes>>
        /\ pc = "delBlocks" /\ pc' = "rollSync"
    BY <1>10 DEF DeleteBlocksFromBlock
  <2>2. /\ DOMAIN blocks' \subseteq DOMAIN blocks
        /\ \A n \in DOMAIN blocks : n < fork => n \in DOMAIN blocks' /\ blocks'[n] = blocks[n]
    BY <1>4, <2>1, KeepType
  <2>3. \A n \in 1..Len(chain) : n < fork /\ Settled(n) => Settled(n)'
    BY <1>1, <2>1, <2>2 DEF Settled, Done
  <2>4. EventsExplained'
    BY <1>1, <1>3, <2>1 DEF IndexInv, EventsExplained, Deep
  <2>5. WindowAgrees' /\ CurRecorded'
    BY <1>d, <2>1 DEF RollingBack
  <2> QED BY <1>3, <1>5, <1>6, <1>7, <1>8, <1>c, <2>2, <2>3, <2>4, <2>5 DEF IndexInv
<1>11. CASE RollSyncStatus
  <2>1. /\ UNCHANGED <<events, blocks>> /\ pc = "rollSync"
        /\ hashes' = RecordBlock(Rollback(hashes, fork), cur)
    BY <1>11 DEF RollSyncStatus
  <2>2. \A n \in 1..Len(chain) : n < fork /\ Settled(n) => Settled(n)'
    BY <1>1, <2>1 DEF Settled, Done
  <2>3. PICK f \in BlockMaps : f = Rollback(hashes, fork)
    BY <1>4, RollbackType
  <2>4. \A n \in DOMAIN hashes : n < fork => n \in DOMAIN f /\ f[n] = hashes[n]
    <3>1. PICK D : D = {n \in DOMAIN hashes : n < fork}
      OBVIOUS
    <3>2. /\ DOMAIN Keep(hashes, D) = DOMAIN hashes \cap D
          /\ \A n \in DOMAIN hashes \cap D : Keep(hashes, D)[n] = hashes[n]
      BY <1>4, KeepType, Zenon
    <3>3. f = Keep(hashes, D)
      BY <2>3, <3>1 DEF Rollback
    <3> QED BY <3>1, <3>2, <3>3
  <2>5. DOMAIN f \subseteq DOMAIN hashes /\ \A n \in DOMAIN f : n < fork /\ f[n] = hashes[n]
    <3>1. PICK D : D = {n \in DOMAIN hashes : n < fork}
      OBVIOUS
    <3>2. /\ DOMAIN Keep(hashes, D) = DOMAIN hashes \cap D
          /\ \A n \in DOMAIN hashes \cap D : Keep(hashes, D)[n] = hashes[n]
      BY <1>4, KeepType, Zenon
    <3>3. f = Keep(hashes, D)
      BY <2>3, <3>1 DEF Rollback
    <3> QED BY <3>1, <3>2, <3>3
  <2>6. PICK r : r = RecordBlock(f, cur)
    OBVIOUS
  <2>7. hashes' = r /\ pc' = "saveBlock"
    BY <1>11, <2>1, <2>3, <2>6 DEF RollSyncStatus
  <2>8. /\ DOMAIN r \subseteq DOMAIN f \cup {Number(cur)}
        /\ \A n \in DOMAIN r : r[n] = IF n = Number(cur) THEN cur ELSE f[n]
    BY <1>2, <2>6, RecordedEntries
  <2>9. /\ Started /\ (lpc = "live" => ToFetch = {}) /\ (lpc = "backfill" => ToFetch = next..latest)
        /\ latest \in Nat /\ next \in Nat /\ MaxDepth \in Nat /\ latest <= Len(chain)
    BY <1>a, <1>2, Running, ChainAssumption DEF ListenerInv, ListenerTypeOK, Shallow
  <2>10. /\ Number(cur) \in DOMAIN r \/ Frozen(Number(cur))
         /\ \A m \in DOMAIN f : \/ m \in DOMAIN r
                               \/ m + MaxDepth <= Number(cur)
                               \/ Frozen(Number(cur))
    BY <1>2, <2>3, <2>6, <2>9, RecordDrops DEF Faultless
  <2>11. \A n \in DOMAIN f :
           /\ n \in 1..Len(chain) /\ n < fork /\ f[n] = hashes[n] /\ Number(f[n]) = n /\ n # Number(cur)
           /\ hashes[n] = BlockAt(chain, n) \/ Coming(n, 0)
    <3>1. \A n \in DOMAIN f : n \in DOMAIN hashes /\ n < fork /\ f[n] = hashes[n]
      BY <2>5
    <3>2. \A n \in DOMAIN hashes : n < fork /\ n \in Nat =>
            n <= Len(chain) /\ (hashes[n] = BlockAt(chain, n) \/ Coming(n, 0))
      BY <1>4 DEF IndexInv, WindowAgrees
    <3> QED BY <1>2, <1>4, <3>1, <3>2
  <2>12. \A e \in events : Number(e.block) < fork
    BY <1>a, <2>1 DEF CoreInv, EventsHaveBlocks, RefinementInv, RolledBack
  <2>13. ASSUME NEW e \in events
         PROVE  /\ e.index \in Good
                /\ \/ Number(e.block) \in DOMAIN r /\ e.block = r[Number(e.block)]
                   \/ Queued(e.block)
                   \/ Deep(Number(e.block)) /\ e.block = BlockAt(chain, Number(e.block))
    <3>1. PICK a \in Blocks : a = e.block /\ Repeats(a) /\ Stable(a) /\ Number(a) < fork
      BY <1>b, <2>12 DEF LogsInv
    <3>2. /\ e.index \in Good
          /\ \/ Number(a) \in DOMAIN hashes /\ a = hashes[Number(a)]
             \/ Queued(a)
             \/ Deep(Number(a)) /\ a = BlockAt(chain, Number(a))
      BY <2>1, <3>1 DEF IndexInv, EventsExplained
    <3>3. CASE Number(a) \in DOMAIN hashes /\ a = hashes[Number(a)]
      <4>1. Number(a) \in DOMAIN f /\ a = f[Number(a)] /\ Number(a) # Number(cur)
        BY <2>4, <2>11, <3>1, <3>3
      <4>2. CASE Number(a) \in DOMAIN r
        BY <2>8, <3>1, <3>2, <4>1, <4>2
      <4>3. CASE Number(a) \notin DOMAIN r
        <5>1. Number(a) + MaxDepth <= Number(cur) \/ Frozen(Number(cur))
          BY <2>10, <4>1, <4>3
        <5>2. PICK c : c = BlockAt(chain, Number(a))
          OBVIOUS
        <5>3. /\ c \in Blocks /\ Number(c) = Number(a) /\ Number(a) \in 1..Len(chain)
              /\ Number(a) <= Len(chain)
          <6>1. Number(a) \in 1..Len(chain) /\ Number(a) \in 1..Number(a)
            BY <2>11, <4>1
          <6> QED BY <1>4, <5>2, <6>1, ChainDescends
        <5>4. a = c \/ Behind(cur, c)
          <6>1. a = c \/ Number(a) \in ToFetch \/ Queued(c)
            BY <2>11, <4>1, <5>2 DEF Coming, Queued
          <6>2. CASE Number(a) \in ToFetch
            <7>1. lpc = "backfill" /\ Number(a) \in next..latest /\ Number(cur) < next
              BY <2>9, <6>2 DEF Started, QueueInv, Bounded
            <7> QED BY <1>2, <2>9, <5>3, <7>1 DEF Behind
          <6>3. CASE Queued(c)
            BY <1>2, <5>3, <6>3 DEF Shallow
          <6> QED BY <6>1, <6>2, <6>3
        <5>5. Earlier(cur, a) => Queued(a)
          BY <3>1 DEF Repeats
        <5>6. Queued(a) \/ (Deep(Number(a)) /\ a = BlockAt(chain, Number(a)))
          BY <1>a, <1>2, <2>9, <3>1, <5>1, <5>2, <5>3, <5>4, <5>5, ForgottenEvent
        <5> QED BY <3>1, <3>2, <5>6
      <4> QED BY <4>2, <4>3
    <3> QED BY <3>1, <3>2, <3>3
  <2>14. EventsExplained'
    BY <1>1, <1>3, <2>1, <2>7, <2>13 DEF EventsExplained, Deep
  <2>15. WindowAgrees'
    <3> SUFFICES ASSUME NEW n \in DOMAIN r
                 PROVE  n <= Len(chain) /\ (r[n] = BlockAt(chain, n) \/ Coming(n, 0)')
      BY <1>1, <2>7 DEF WindowAgrees
    <3>1. CASE n = Number(cur)
      <4>1. Descends(cur, BlockAt(chain, n)) \/ Coming(n, 0)
        BY <1>2, <3>1 DEF QueueInv, Overtaken
      <4>2. Descends(cur, BlockAt(chain, n)) => r[n] = BlockAt(chain, n)
        BY <1>2, <2>8, <3>1 DEF Descends
      <4> QED BY <1>2, <1>3, <3>1, <4>1, <4>2
    <3>2. CASE n # Number(cur)
      <4>1. n \in DOMAIN f /\ r[n] = f[n] /\ n \in 1..Len(chain)
        BY <2>8, <2>11, <3>2
      <4> QED BY <1>3, <1>4, <2>11, <4>1
    <3> QED BY <3>1, <3>2
  <2>16. CurRecorded'
    BY <1>1, <1>3, <2>7, <2>8, <2>10 DEF CurRecorded
  <2> QED BY <1>3, <1>5, <1>6, <1>7, <1>8, <1>c, <2>1, <2>2, <2>14, <2>15, <2>16 DEF IndexInv
<1> QED BY <1>9, <1>10, <1>11

\* ProcessBlock: a block that it overwrites is not canonical, or comes again.
LEMMA ProcessIndex ==
    ASSUME IndexerInv, QueueInv, Shallow, IndexInv, LogsInv, SaveBlock \/ UpdateSyncStatus
    PROVE  QueueInv' /\ Shallow' /\ IndexInv' /\ LogsInv'
<1>a. ChainTypeOK /\ ListenerInv /\ MemTypeOK /\ StoreTypeOK /\ CoreInv
  BY IndexerInvParts
<1>1. /\ UNCHANGED <<chain, lpc, start, latest, next, wsq, out, cur, hashes, events, published>>
      /\ pc \in {"saveBlock", "updSync"} /\ pc' \in {"updSync", "filter"}
  BY DEF SaveBlock, UpdateSyncStatus, netVars, chainVars, listenerVars
<1>2. /\ cur \in Blocks /\ cur # <<>> /\ lpc # "off" /\ Number(cur) \in Nat \ {0}
      /\ Number(cur) \in 1..Len(chain) /\ Number(cur) <= Len(chain)
      /\ BlockAt(cur, Number(cur)) = cur
      /\ Number(BlockAt(chain, Number(cur))) = Number(cur)
  BY <1>1, InHand
<1>3. /\ QueueInv' /\ Shallow'
      /\ \A n : Frozen(n)' <=> Frozen(n)
      /\ \A b : (Repeats(b)' <=> Repeats(b)) /\ (Stable(b)' <=> Stable(b))
      /\ \A n \in 1..Len(chain) : Coming(n, 0)' <=> Coming(n, 0)
      /\ \A b : Queued(b)' <=> Queued(b)
  BY <1>1, <1>2, QueueFrame
<1>4. \A n \in 1..Len(chain) : InWork(n) => InWork(n)'
  BY <1>1 DEF InWork
<1>5. RollbackCovered' /\ EventsExplained' /\ CurRecorded'
  BY <1>1, <1>3 DEF IndexInv, RollbackCovered, RollingBack, EventsExplained, Deep, CurRecorded
<1>b. WindowAgrees'
  <2>1. \A n \in DOMAIN hashes : n \in 1..Len(chain)
    BY <1>a, BlockMapDef, ChainIsSeq DEF IndexInv, WindowAgrees, MemTypeOK, ChainTypeOK
  <2> QED BY <1>1, <1>3, <2>1 DEF IndexInv, WindowAgrees, RollingBack
<1>c. LogsInv'
  BY <1>1, <1>3 DEF LogsInv
<1>6. CASE SaveBlock
  <2>1. blocks' = Put(blocks, cur) /\ sync' = sync /\ pc = "saveBlock" /\ pc' = "updSync"
    BY <1>6 DEF SaveBlock
  <2>2. /\ DOMAIN blocks' = DOMAIN blocks \cup {Number(cur)}
        /\ blocks'[Number(cur)] = cur
        /\ \A n \in DOMAIN blocks : n # Number(cur) => blocks'[n] = blocks[n]
    BY <1>a, <1>2, <2>1, PutType DEF StoreTypeOK
  <2>3. cur = BlockAt(chain, Number(cur)) \/ Coming(Number(cur), 0)
    BY <1>2 DEF QueueInv, Overtaken, Descends
  <2>4. \A n \in 1..Len(chain) : Settled(n) => Settled(n)' \/ Coming(n, 0)
    BY <1>1, <2>2, <2>3 DEF Settled, Done
  <2>5. AllAccounted'
    BY <1>1, <1>3, <1>4, <2>4 DEF IndexInv, AllAccounted
  <2>6. LogsAccounted' /\ CheckpointFollows'
    BY <1>1, <1>2, <2>1, <2>2 DEF IndexInv, LogsAccounted, CheckpointFollows
  <2> QED BY <1>3, <1>5, <1>b, <1>c, <2>5, <2>6 DEF IndexInv
<1>7. CASE UpdateSyncStatus
  <2>1. blocks' = blocks /\ sync' = Number(cur) /\ pc = "updSync" /\ pc' = "filter"
    BY <1>7 DEF UpdateSyncStatus
  <2>2. \A n \in 1..Len(chain) : Settled(n) => Settled(n)'
    BY <1>1, <2>1 DEF Settled, Done
  <2>3. AllAccounted'
    BY <1>1, <1>3, <1>4, <2>2 DEF IndexInv, AllAccounted
  <2>4. LogsAccounted' /\ CheckpointFollows'
    BY <1>1, <1>2, <2>1 DEF IndexInv, LogsAccounted, CheckpointFollows
  <2> QED BY <1>3, <1>5, <1>b, <1>c, <2>3, <2>4 DEF IndexInv
<1> QED BY <1>6, <1>7

\* The loop over the logs: they are the block's own, or those of one that comes later and
\* will roll them back.
LEMMA LogsIndex ==
    ASSUME IndexerInv, QueueInv, Shallow, IndexInv, LogsInv,
           FilterLogs \/ SkipLog \/ SaveEvent \/ Publish \/ BlockIndexed
    PROVE  QueueInv' /\ Shallow' /\ IndexInv' /\ LogsInv'
<1>a. ChainTypeOK /\ ListenerInv /\ MemTypeOK /\ StoreTypeOK /\ CoreInv
  BY IndexerInvParts
<1>1. /\ UNCHANGED <<chain, lpc, start, latest, next, wsq, out, cur, hashes, blocks, sync>>
      /\ pc \in {"filter", "logs", "publish"} /\ pc' \in {"idle", "logs", "publish"}
  BY DEF FilterLogs, SkipLog, SaveEvent, Publish, BlockIndexed, netVars, chainVars,
         listenerVars, storeVars
<1>2. /\ cur \in Blocks /\ cur # <<>> /\ lpc # "off" /\ Number(cur) \in Nat \ {0}
      /\ BlockAt(cur, Number(cur)) = cur /\ Number(cur) \in 1..Len(chain)
      /\ Number(cur) <= Len(chain)
      /\ Number(BlockAt(chain, Number(cur))) = Number(cur) /\ Number(cur) \notin ToFetch
  BY <1>1, InHand
<1>3. /\ QueueInv' /\ Shallow'
      /\ \A n : Frozen(n)' <=> Frozen(n)
      /\ \A b : (Repeats(b)' <=> Repeats(b)) /\ (Stable(b)' <=> Stable(b))
      /\ \A n \in 1..Len(chain) : Coming(n, 0)' <=> Coming(n, 0)
      /\ \A b : Queued(b)' <=> Queued(b)
  BY <1>1, <1>2, QueueFrame
<1>4. RollbackCovered' /\ CheckpointFollows' /\ CurRecorded' /\ WindowAgrees'
  <2>1. \A n \in DOMAIN hashes : n \in 1..Len(chain)
    BY <1>a, BlockMapDef, ChainIsSeq DEF IndexInv, WindowAgrees, MemTypeOK, ChainTypeOK
  <2>2. WindowAgrees'
    BY <1>1, <1>3, <2>1 DEF IndexInv, WindowAgrees, RollingBack
  <2> QED BY <1>1, <1>2, <1>3, <2>2
          DEF IndexInv, RollbackCovered, RollingBack, CheckpointFollows, CurRecorded
<1>5. Number(cur) \in DOMAIN blocks /\ blocks[Number(cur)] = cur
  BY <1>1 DEF IndexInv, LogsAccounted
<1>b. ASSUME pc' \in {"logs", "publish"} => got' = got /\ pc \in {"logs", "publish"},
             \A e \in events' : e \in events \/ (e.block = got /\ pc = "logs")
      PROVE  LogsInv'
  <2>1. PICK g : g = got'
    OBVIOUS
  <2>2. pc' \in {"logs", "publish"} => g \in Blocks /\ Repeats(g)' /\ Stable(g)'
    BY <1>3, <1>b, <2>1 DEF LogsInv
  <2>3. \A b : b = g => (Repeats(b)' => Repeats(got)') /\ (Stable(b)' => Stable(got)')
    BY <2>1 DEF Repeats, Stable, Earlier, Queued, After
  <2>4. ASSUME NEW e \in events'
        PROVE  Repeats(e.block)' /\ Stable(e.block)'
    <3>1. PICK a : a = e.block
      OBVIOUS
    <3>2. Repeats(a) /\ Stable(a)
      BY <1>b, <3>1 DEF LogsInv
    <3>3. Repeats(a)' /\ Stable(a)'
      BY <1>3, <3>2
    <3> QED BY <3>1, <3>3
  <2> QED BY <2>1, <2>2, <2>3, <2>4 DEF LogsInv
<1>6. ASSUME \A n \in 1..Len(chain) : InWork(n) => InWork(n)' \/ Settled(n)',
             \A n \in 1..Len(chain) : Settled(n) => Settled(n)'
      PROVE  AllAccounted'
  BY <1>1, <1>3, <1>6 DEF IndexInv, AllAccounted
<1>7. events \subseteq events' /\ published \subseteq published'
  BY DEF FilterLogs, SkipLog, SaveEvent, Publish, BlockIndexed, storeVars
<1>8. \A n \in 1..Len(chain) : Settled(n) => Settled(n)'
  BY <1>1, <1>7 DEF Settled, Done
<1>9. ASSUME events' = events
      PROVE  EventsExplained'
  BY <1>1, <1>3, <1>9 DEF IndexInv, EventsExplained, Deep
<1>10. li \in Nat /\ LogCount \in Nat
  BY <1>a, IndexerAssumption DEF MemTypeOK
<1>11. CASE FilterLogs
  <2>1. /\ got' = BlockAt(chain, Number(cur)) /\ li' = 1 /\ UNCHANGED <<events, published>>
        /\ pc = "filter" /\ pc' = "logs"
    BY <1>2, <1>11 DEF FilterLogs, storeVars
  <2>2. got' = cur \/ Queued(got')
    <3>1. Descends(cur, BlockAt(chain, Number(cur))) \/ Coming(Number(cur), 0)
      BY <1>2 DEF QueueInv, Overtaken
    <3>2. Descends(cur, BlockAt(chain, Number(cur))) => got' = cur
      BY <1>2, <2>1 DEF Descends
    <3>3. Coming(Number(cur), 0) => Queued(got')
      BY <1>2, <2>1 DEF Coming, Queued
    <3> QED BY <3>1, <3>2, <3>3
  <2>3. got' # <<>>
    BY <1>2, <2>1 DEF Number
  <2>4. LogsAccounted'
    BY <1>1, <1>3, <1>5, <2>1, <2>2, <2>3 DEF LogsAccounted, Queued
  <2>5. ASSUME NEW n \in 1..Len(chain), InWork(n)
        PROVE  InWork(n)'
    <3>1. cur = BlockAt(chain, n) /\ n \in 1..n /\ chain \in Chains
      BY <1>a, <2>5 DEF InWork, ChainTypeOK
    <3>2. n = Number(cur)
      BY <3>1, ChainDescends
    <3>3. Done(got, {i \in Good : i < li})'
      BY <2>1, IndexerAssumption DEF Done, Good
    <3> QED BY <1>1, <2>1, <3>1, <3>2, <3>3 DEF InWork
  <2>6. Number(got') = Number(cur) /\ got' \in Blocks /\ got' = BlockAt(chain, Number(cur))
    <3>1. chain \in Chains /\ Number(cur) \in 1..Number(cur)
      BY <1>a, <1>2 DEF ChainTypeOK
    <3> QED BY <1>2, <2>1, <3>1, ChainDescends
  <2>7. PICK g \in Blocks : g = got' /\ Number(g) = Number(cur) /\ g = BlockAt(chain, Number(cur))
    BY <2>6
  <2>8. Repeats(g)
    <3>1. lpc = "backfill" => Number(g) < next
      BY <2>7 DEF QueueInv, Bounded
    <3>2. ~Earlier(cur, g)
      BY <1>2, <2>7 DEF Earlier
    <3>3. /\ \A i \in 1..Len(out) : Descends(out[i], g) \/ Coming(Number(g), i)
          /\ \A i \in 1..Len(wsq) : Descends(wsq[i], g) \/ In(g, wsq, i + 1)
      BY <1>2, <2>7 DEF QueueInv, Overtaken
    <3>4. /\ \A i \in 1..Len(out) : Number(out[i]) \in Nat
          /\ \A i \in 1..Len(wsq) : Number(wsq[i]) \in Nat
      BY <1>a, BlockOfItself, ElementOfSeq DEF ListenerInv, ListenerTypeOK
    <3>5. \A x : Number(x) \in Nat /\ Earlier(x, g) => ~Descends(x, g)
      BY <1>2, <2>7 DEF Earlier, Descends
    <3>6. \A i : Coming(Number(g), i) => After(g, i)
      BY <1>2, <2>7 DEF Coming, After
    <3> QED BY <3>1, <3>2, <3>3, <3>4, <3>5, <3>6 DEF Repeats
  <2>9. Repeats(g)' /\ Stable(g)'
    BY <1>3, <2>7, <2>8 DEF Stable
  <2>10. Repeats(got)' /\ Stable(got)'
    BY <2>7, <2>9 DEF Repeats, Stable, Earlier, Queued, After
  <2>11. LogsInv'
    <3>1. \A e \in events : Repeats(e.block)' /\ Stable(e.block)'
      BY <1>3 DEF LogsInv
    <3> QED BY <2>1, <2>7, <2>10, <3>1 DEF LogsInv
  <2> QED BY <1>3, <1>4, <1>6, <1>8, <1>9, <2>1, <2>4, <2>5, <2>11 DEF IndexInv
<1>12. CASE SkipLog
  <2>1. /\ got' = got /\ li' = li + 1 /\ UNCHANGED <<events, published>> /\ li \in Malformed
        /\ pc = "logs" /\ pc' = "logs"
    BY <1>12 DEF SkipLog, storeVars
  <2>2. LogsAccounted'
    BY <1>1, <1>3, <2>1 DEF IndexInv, LogsAccounted
  <2>3. ASSUME NEW n \in 1..Len(chain), InWork(n)
        PROVE  InWork(n)'
    <3>1. cur = BlockAt(chain, n) /\ got = cur /\ Done(got, {i \in Good : i < li})
      BY <2>1, <2>3 DEF InWork, RollingBack
    <3>2. \A i \in Good : i < li + 1 => i < li
      BY <1>10, <2>1 DEF Good
    <3>3. Done(got, {i \in Good : i < li})'
      BY <2>1, <3>1, <3>2 DEF Done, Good
    <3> QED BY <1>1, <2>1, <3>1, <3>3 DEF InWork
  <2>4. LogsInv'
    BY <1>b, <2>1
  <2> QED BY <1>3, <1>4, <1>6, <1>8, <1>9, <2>1, <2>2, <2>3, <2>4 DEF IndexInv
<1>13. CASE SaveEvent
  <2>1. /\ UNCHANGED <<got, li, published>> /\ events' = events \cup {Event}
        /\ pc = "logs" /\ pc' = "publish" /\ li \in Good
    BY <1>a, <1>10, <1>13 DEF SaveEvent, MoreLogs, Good, CoreInv, LogInHand
  <2>2. LogsAccounted'
    BY <1>1, <1>3, <2>1 DEF IndexInv, LogsAccounted, Event, Good
  <2>3. \A n \in 1..Len(chain) : InWork(n) => InWork(n)'
    BY <1>1, <2>1 DEF InWork, Done, Good, RollingBack
  <2>4. EventsExplained'
    <3> SUFFICES ASSUME NEW e \in events'
                 PROVE  /\ e.index \in Good
                        /\ \/ Number(e.block) \in DOMAIN hashes /\ e.block = hashes[Number(e.block)]
                           \/ Queued(e.block)
                           \/ Deep(Number(e.block)) /\ e.block = BlockAt(chain, Number(e.block))
      BY <1>1, <1>3 DEF EventsExplained, Deep
    <3>1. CASE e \in events
      BY <2>1, <3>1 DEF IndexInv, EventsExplained
    <3>2. CASE e = Event
      <4>1. e.block = got /\ e.index = li
        BY <3>2 DEF Event
      <4>2. got = cur \/ Queued(got)
        BY <2>1 DEF IndexInv, LogsAccounted
      <4>3. CASE got = cur /\ Frozen(Number(cur))
        <5>1. Stable(got) /\ latest <= Len(chain) /\ latest \in Nat
          BY <1>a, <2>1, <4>3 DEF LogsInv, Shallow, Frozen, ListenerInv, ListenerTypeOK
        <5>2. got = BlockAt(chain, Number(got)) /\ Deep(Number(got))
          BY <1>2, <4>3, <5>1, ChainAssumption, ChainIsSeq DEF Stable, Frozen, Deep
        <5> QED BY <2>1, <4>1, <5>2
      <4>4. got = cur => \/ Number(cur) \in DOMAIN hashes /\ hashes[Number(cur)] = cur
                         \/ Frozen(Number(cur))
        BY <2>1 DEF IndexInv, CurRecorded
      <4> QED BY <2>1, <4>1, <4>2, <4>3, <4>4
    <3> QED BY <2>1, <3>1, <3>2
  <2>5. LogsInv'
    BY <1>b, <2>1 DEF Event
  <2> QED BY <1>3, <1>4, <1>6, <1>8, <2>2, <2>3, <2>4, <2>5 DEF IndexInv
<1>14. CASE Publish
  <2>1. /\ UNCHANGED <<got, events>> /\ published' = published \cup {Event} /\ li' = li + 1
        /\ pc = "publish" /\ pc' = "logs"
    BY <1>14 DEF Publish
  <2>2. LogsAccounted'
    BY <1>1, <1>3, <2>1 DEF IndexInv, LogsAccounted
  <2>3. ASSUME NEW n \in 1..Len(chain), InWork(n)
        PROVE  InWork(n)'
    <3>1. cur = BlockAt(chain, n) /\ got = cur /\ Done(got, {i \in Good : i < li})
      BY <2>1, <2>3 DEF InWork, RollingBack
    <3>2. \A i \in Good : i < li + 1 => i < li \/ i = li
      BY <1>10 DEF Good
    <3>3. Event \in events \cap published'
      BY <2>1 DEF IndexInv, LogsAccounted
    <3>4. ASSUME NEW i \in Good, i < li + 1
          PROVE  [block |-> got, index |-> i] \in events \cap published'
      <4>1. CASE i < li
        BY <1>7, <3>1, <4>1 DEF Done
      <4>2. CASE i = li
        BY <3>3, <4>2 DEF Event
      <4> QED BY <3>2, <3>4, <4>1, <4>2
    <3>5. Done(got, {i \in Good : i < li})'
      BY <2>1, <3>4 DEF Done, Good
    <3> QED BY <1>1, <2>1, <3>1, <3>5 DEF InWork
  <2>4. LogsInv'
    BY <1>b, <2>1
  <2> QED BY <1>3, <1>4, <1>6, <1>8, <1>9, <2>1, <2>2, <2>3, <2>4 DEF IndexInv
<1>15. CASE BlockIndexed
  <2>1. /\ UNCHANGED <<events, published>> /\ pc = "logs" /\ pc' = "idle" /\ ~MoreLogs
    BY <1>15 DEF BlockIndexed, storeVars
  <2>2. LogsAccounted'
    BY <2>1 DEF LogsAccounted
  <2>3. ASSUME NEW n \in 1..Len(chain), InWork(n)
        PROVE  Settled(n)'
    <3>1. cur = BlockAt(chain, n) /\ got = cur /\ Done(got, {i \in Good : i < li})
      BY <2>1, <2>3 DEF InWork, RollingBack
    <3>2. li > LogCount
      BY <1>10, <2>1 DEF MoreLogs, IndexInv, LogsAccounted
    <3>3. \A i \in Good : i < li
      BY <1>10, <3>2 DEF Good
    <3>4. Done(cur, Good)
      BY <3>1, <3>3 DEF Done
    <3>5. n \in 1..n /\ chain \in Chains
      BY <1>a DEF ChainTypeOK
    <3>6. n = Number(cur)
      BY <3>1, <3>5, ChainDescends
    <3> QED BY <1>1, <1>5, <2>1, <3>1, <3>4, <3>6 DEF Settled, Done
  <2>4. LogsInv'
    BY <1>b, <2>1
  <2> QED BY <1>3, <1>4, <1>6, <1>8, <1>9, <2>1, <2>2, <2>3, <2>4 DEF IndexInv
<1> QED BY <1>11, <1>12, <1>13, <1>14, <1>15

LEMMA SyncStep ==
    ASSUME IndexerInv, IndexerInv', StreamInv, RefinementInv, SyncInv, [IndexerNext]_vars
    PROVE  SyncInv'
<1> SUFFICES ASSUME Faultless'
             PROVE  QueueInv' /\ Shallow' /\ IndexInv' /\ LogsInv'
  BY DEF SyncInv
<1>1. Faultless /\ ~Restart /\ ~OpFault
  BY FaultlessBefore
<1>2. QueueInv /\ Shallow /\ IndexInv /\ LogsInv
  BY <1>1 DEF SyncInv
<1>3. ChainTypeOK /\ ChainTypeOK' /\ ListenerInv /\ MemTypeOK /\ StoreTypeOK /\ CoreInv
  BY IndexerInvParts, IndexerInvPartsNext
<1>4. cur \in Chains
  BY <1>3 DEF MemTypeOK
<1>5. CASE NodeMoves
  <2>1. NodeStep /\ UNCHANGED <<cur, pc, sync>> /\ UNCHANGED <<memVars, storeVars>>
    BY <1>5 DEF NodeMoves, memVars, storeVars
  <2>2. QueueInv' /\ Advance
    BY <1>1, <1>2, <1>3, <1>4, <2>1, NodeQueue
  <2>3. Shallow' /\ Steady
    BY <1>1, <1>2, <1>3, <1>4, <2>1, NodeShallow
  <2> QED BY <1>2, <1>3, <2>1, <2>2, <2>3, IndexAdvance
<1>6. CASE ListenerMoves \/ SubscriptionDrops
  <2>1. /\ ListenerStep \/ SubscriptionError
        /\ UNCHANGED <<chainVars, cur, pc, sync>> /\ UNCHANGED <<memVars, storeVars>>
    BY <1>6 DEF ListenerMoves, SubscriptionDrops, memVars, storeVars
  <2>2. QueueInv' /\ Advance
    BY <1>1, <1>2, <1>3, <1>4, <2>1, ListenerQueue
  <2>3. Shallow' /\ Steady
    BY <1>1, <1>2, <1>3, <1>4, <2>1, ListenerShallow
  <2> QED BY <1>2, <1>3, <2>1, <2>2, <2>3, IndexAdvance
<1>7. CASE GetSyncStatus
  <2>1. /\ pc = "boot" /\ pc' = "idle" /\ lpc = "off" /\ lpc' = "dial" /\ start' = sync + 1
        /\ UNCHANGED <<chain, latest, next, wsq, out, cur, fork, got, li, hashes>>
        /\ UNCHANGED <<blocks, events, sync, published>>
    BY <1>7 DEF GetSyncStatus, Open, chainVars, storeVars
  <2>2. cur = <<>> /\ out = <<>> /\ wsq = <<>> /\ sync = 0
    BY <1>2, <2>1 DEF QueueInv, Fresh
  <2>3. ToFetch' = ToFetch
    BY <2>1 DEF ToFetch
  <2>4. QueueInv'
    BY <1>2, <2>1, <2>2 DEF QueueInv, Bounded, Fresh, Overtaken
  <2>5. \A n \in 1..Len(chain) : /\ Coming(n, 0) => Coming(n, 0)'
                                 /\ InWork(n) => InWork(n)'
                                 /\ Settled(n) => Settled(n)'
    BY <2>1, <2>3 DEF Coming, InWork, Settled, Done, RollingBack
  <2>6. AllAccounted'
    BY <1>2, <2>1, <2>5 DEF IndexInv, AllAccounted
  <2>7. RollbackCovered' /\ LogsAccounted' /\ CheckpointFollows'
    BY <1>2, <2>1, <2>2 DEF IndexInv, RollbackCovered, RollingBack, LogsAccounted, CheckpointFollows
  <2>8. EventsExplained'
    BY <1>2, <2>1 DEF IndexInv, EventsExplained, Queued, Deep
  <2>9. Shallow'
    BY <2>1, <2>2 DEF Shallow, Started
  <2>10. WindowAgrees' /\ CurRecorded'
    <3>1. \A n \in DOMAIN hashes : n \in 1..Len(chain)
      BY <1>2, <1>3, BlockMapDef, ChainIsSeq DEF IndexInv, WindowAgrees, MemTypeOK, ChainTypeOK
    <3> QED BY <1>2, <2>1, <2>5, <3>1 DEF IndexInv, WindowAgrees, RollingBack, CurRecorded
  <2>11. LogsInv'
    BY <1>2, <2>1, <2>2 DEF IndexInv, CheckpointFollows, LogsInv
  <2> QED BY <2>4, <2>6, <2>7, <2>8, <2>9, <2>10, <2>11 DEF IndexInv
<1>8. CASE ReceiveLinked \/ ReceiveReorg
  BY <1>1, <1>2, <1>8, ReceiveIndex
<1>9. CASE DeleteEventsFromBlock \/ DeleteBlocksFromBlock \/ RollSyncStatus
  BY <1>1, <1>2, <1>9, RollbackIndex
<1>10. CASE SaveBlock \/ UpdateSyncStatus
  BY <1>1, <1>2, <1>10, ProcessIndex
<1>11. CASE FilterLogs \/ SkipLog \/ SaveEvent \/ Publish \/ BlockIndexed
  BY <1>1, <1>2, <1>11, LogsIndex
<1>12. /\ ~GetSyncStatusFails /\ ~HandleReorgFails /\ ~ProcessBlockFails /\ ~FilterLogsFails
       /\ ~SaveEventFails /\ ~PublishFails
  BY <1>1 DEF GetSyncStatusFails, HandleReorgFails, ProcessBlockFails, FilterLogsFails,
              SaveEventFails, PublishFails, Drop
<1>13. CASE UNCHANGED vars
  <2>1. /\ UNCHANGED <<chain, lpc, start, latest, next, wsq, out>>
        /\ UNCHANGED <<memVars, storeVars, pc, cur, sync>>
    BY <1>13 DEF vars, netVars, chainVars, listenerVars, memVars, storeVars
  <2>2. QueueInv'
    BY <1>2, <2>1 DEF QueueInv, Bounded, Fresh, Overtaken, Coming, ToFetch
  <2>3. Advance
    <3>1. Len(chain) \in Nat
      BY <1>3, ChainIsSeq DEF ChainTypeOK
    <3>2. ToFetch' = ToFetch
      BY <2>1 DEF ToFetch
    <3> QED BY <2>1, <3>1, <3>2 DEF Advance, Coming, Queued
  <2>4. /\ \A n : Frozen(n)' <=> Frozen(n)
        /\ \A b : Queued(b)' <=> Queued(b)
        /\ \A b, i : After(b, i)' <=> After(b, i)
    BY <2>1 DEF Frozen, Started, Queued, After
  <2>5. Shallow'
    BY <1>2, <2>1, <2>4 DEF Shallow, Behind, Started
  <2>6. Steady
    BY <2>1, <2>4 DEF Steady, Repeats, Earlier
  <2> QED BY <1>2, <1>3, <2>1, <2>2, <2>3, <2>5, <2>6, IndexAdvance
<1> QED BY <1>1, <1>5, <1>6, <1>7, <1>8, <1>9, <1>10, <1>11, <1>12, <1>13
        DEF IndexerNext, IndexerStep

LEMMA SyncInit == IndexerInit => SyncInv
<1> SUFFICES ASSUME IndexerInit, Faultless
             PROVE  QueueInv /\ Shallow /\ IndexInv /\ LogsInv
  BY DEF SyncInv
<1>1. /\ lpc = "off" /\ wsq = <<>> /\ out = <<>> /\ pc = "boot" /\ cur = <<>> /\ sync = 0
      /\ blocks = NoBlocks /\ hashes = NoBlocks /\ events = {} /\ chain \in Chains
  BY DEF IndexerInit, NetInit, ListenerInit, ChainInit
<1>2. Len(chain) \in Nat /\ Number(<<>>) = 0 /\ DOMAIN NoBlocks = {}
  BY <1>1, ChainIsSeq, NoBlocksType DEF Number
<1>3. QueueInv
  BY <1>1, <1>2 DEF QueueInv, Bounded, Fresh, Overtaken
<1>4. AllAccounted
  BY <1>1 DEF AllAccounted, Coming, ToFetch
<1>5. RollbackCovered /\ LogsAccounted /\ CheckpointFollows /\ EventsExplained
  BY <1>1, <1>2 DEF RollbackCovered, RollingBack, LogsAccounted, CheckpointFollows, EventsExplained
<1>6. Shallow /\ WindowAgrees /\ CurRecorded /\ LogsInv
  BY <1>1, <1>2 DEF Shallow, Started, WindowAgrees, CurRecorded, LogsInv
<1> QED BY <1>3, <1>4, <1>5, <1>6 DEF IndexInv

\* With nothing left to come, every canonical block is settled and nothing else is there.
LEMMA CaughtUpFacts ==
    ASSUME IndexerInv, StreamInv, SyncInv, Faultless, CaughtUp
    PROVE  InSync
<1>1. QueueInv /\ IndexInv
  BY DEF SyncInv
<1>2. /\ pc = "idle" /\ out = <<>> /\ wsq = <<>> /\ lpc = "live"
  BY DEF CaughtUp, StreamInv, Healthy, Faultless
<1>3. /\ chain \in Chains /\ Len(chain) \in Nat /\ blocks \in BlockMaps /\ hashes \in BlockMaps
      /\ events \subseteq Events /\ cur \in Chains /\ cur \in Seq(Salt) /\ Number(cur) \in Nat
  BY ChainIsSeq DEF IndexerInv, IndexerTypeOK, ChainTypeOK, Number
<1>4. \A n \in 1..Len(chain) : ~Coming(n, 0)
  BY <1>2 DEF Coming, ToFetch, In
<1>5. \A b : ~Queued(b)
  BY <1>2 DEF Queued, In
<1>6. \A n \in 1..Len(chain) : Settled(n)
  BY <1>1, <1>2, <1>4 DEF IndexInv, AllAccounted, InWork, RollingBack
<1>7. DOMAIN blocks = 1..Len(chain)
  <2>1. \A n \in DOMAIN blocks : n \in 1..Len(chain)
    BY <1>1, <1>3, BlockMapDef, ChainAssumption DEF IndexInv, CheckpointFollows
  <2> QED BY <1>6, <2>1 DEF Settled
<1>8. blocks = CanonicalBlocks
  <2>1. blocks = [n \in DOMAIN blocks |-> blocks[n]]
    BY <1>3, BlockMapDef
  <2>2. \A n \in 1..Len(chain) : blocks[n] = BlockAt(chain, n)
    BY <1>6 DEF Settled
  <2> QED BY <1>7, <2>1, <2>2 DEF CanonicalBlocks
<1>9. CanonicalEvents \subseteq events \cap published
  BY <1>6 DEF CanonicalEvents, Settled, Done, Good
<1>10. events \subseteq CanonicalEvents
  <2> SUFFICES ASSUME NEW e \in events
               PROVE  e \in CanonicalEvents
    OBVIOUS
  <2>1. PICK n : n = Number(e.block)
    OBVIOUS
  <2>2. n \in DOMAIN blocks /\ n \in 1..Len(chain)
    BY <1>7, <2>1 DEF IndexerInv, EventsHaveBlocks
  <2>3. /\ e.index \in Good
        /\ \/ n \in DOMAIN hashes /\ e.block = hashes[n]
           \/ e.block = BlockAt(chain, n)
    BY <1>1, <1>2, <1>5, <2>1 DEF IndexInv, EventsExplained
  <2>4. e.block = BlockAt(chain, n)
    <3>1. n \in DOMAIN hashes => hashes[n] = BlockAt(chain, n)
      BY <1>1, <1>2, <1>4, <2>2 DEF IndexInv, WindowAgrees, RollingBack
    <3> QED BY <2>3, <3>1
  <2>5. e = [block |-> e.block, index |-> e.index]
    BY <1>3 DEF Events
  <2> QED BY <2>2, <2>3, <2>4, <2>5 DEF CanonicalEvents, Good
<1>11. sync = Len(chain)
  <2>1. CASE cur = <<>>
    <3>1. sync = 0 /\ DOMAIN blocks = {}
      BY <1>1, <2>1, NoBlocksType DEF IndexInv, CheckpointFollows
    <3>2. Len(chain) \in Nat /\ ~(1 \in 1..Len(chain))
      BY <1>3, <1>7, <3>1
    <3> QED BY <3>1, <3>2
  <2>2. CASE cur # <<>>
    <3>1. sync = Number(cur) /\ Number(cur) <= Len(chain) /\ Number(cur) # 0
      BY <1>1, <1>2, <1>3, <2>2, EmptySeq DEF IndexInv, CheckpointFollows, QueueInv, Bounded, Number
    <3>2. Len(chain) \in 1..Len(chain)
      BY <1>3, <3>1
    <3>3. Descends(cur, BlockAt(chain, Len(chain)))
      BY <1>1, <1>4, <2>2, <3>2 DEF QueueInv, Overtaken
    <3>4. Number(BlockAt(chain, Len(chain))) = Len(chain)
      BY <1>3, <3>2, ChainDescends
    <3> QED BY <1>3, <3>1, <3>3, <3>4 DEF Descends
  <2> QED BY <2>1, <2>2
<1> QED BY <1>8, <1>9, <1>10, <1>11 DEF InSync

\* CaughtUpInSync: over a subscription that nothing has broken, with a window at least as
\* deep as a reorganisation and a chain that was at least as high as both together, less one
\* block, when the listener started (or a window that spans the chain), and whatever
\* reorganisations end no lower than they began, once the announced headers are processed
\* the store is exactly the canonical chain, with all its events and no other, each
\* published, and the checkpoint at the head.
THEOREM CaughtUpStoreIsTheChain == IndexerSpec => [](Faultless => CaughtUpInSync)
<1>1. IndexerInit => StreamInv /\ RefinementInv /\ SyncInv
  <2>1. IndexerInit => StreamInv /\ SyncInv
    BY StreamInit, SyncInit
  <2>2. IndexerInit => RefinementInv
    BY DEF IndexerInit, RefinementInv, ForkInHand, RolledBack
  <2> QED BY <2>1, <2>2
<1>2. IndexerInv /\ StreamInv /\ [IndexerNext]_vars => StreamInv'
  BY StreamStep
<1>3. IndexerInv /\ RefinementInv /\ [IndexerNext]_vars => RefinementInv'
  BY RefinementInvStep
<1>4. /\ IndexerInv /\ IndexerInv' /\ StreamInv /\ RefinementInv /\ SyncInv
      /\ [IndexerNext]_vars
      => SyncInv'
  BY SyncStep
<1>5. IndexerInv /\ StreamInv /\ SyncInv => (Faultless => CaughtUpInSync)
  BY CaughtUpFacts DEF CaughtUpInSync
<1> QED BY IndexerInvariant, <1>1, <1>2, <1>3, <1>4, <1>5, PTL DEF IndexerSpec
==============================================================================
