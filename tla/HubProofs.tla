------------------------------ MODULE HubProofs ------------------------------
(***************************************************************************)
(* Proofs about WebSocketHub for any number of clients, users and topics   *)
(* and any channel capacities.                                             *)
(***************************************************************************)
EXTENDS WebSocketHub, SequenceTheorems, TLAPS

\* Adding to, and taking from, a queue of clients.
LEMMA QueueAppend ==
    ASSUME NEW q \in Seq(Client), NEW c \in Client
    PROVE  /\ Append(q, c) \in Seq(Client)
           /\ Len(Append(q, c)) = Len(q) + 1
           /\ Queued(Append(q, c)) = Queued(q) \cup {c}
<1>1. /\ Append(q, c) \in Seq(Client)
      /\ Len(Append(q, c)) = Len(q) + 1
      /\ \A i \in 1..Len(q) : Append(q, c)[i] = q[i]
      /\ Append(q, c)[Len(q) + 1] = c
  BY AppendProperties
<1>2. Len(q) \in Nat
  BY LenProperties
<1> QED BY <1>1, <1>2 DEF Queued

LEMMA QueueTail ==
    ASSUME NEW q \in Seq(Client), q # <<>>
    PROVE  /\ Head(q) \in Client
           /\ Tail(q) \in Seq(Client)
           /\ Len(q) \in Nat \ {0}
           /\ Len(Tail(q)) = Len(q) - 1
           /\ \A i \in 1..Len(Tail(q)) : Tail(q)[i] = q[i + 1]
           /\ Head(q) = q[1]
           /\ Queued(Tail(q)) \subseteq Queued(q)
           /\ Head(q) \in Queued(q)
<1>1. /\ Head(q) \in Client
      /\ Tail(q) \in Seq(Client)
      /\ Len(Tail(q)) = Len(q) - 1
      /\ \A i \in 1..Len(Tail(q)) : Tail(q)[i] = q[i + 1]
  BY HeadTailProperties
<1>2. Len(q) \in Nat \ {0} /\ Head(q) = q[1]
  BY EmptySeq
<1> QED BY <1>1, <1>2 DEF Queued

LEMMA HubInvInit == HubInit => HubInv
<1> SUFFICES ASSUME HubInit PROVE HubInv
  OBVIOUS
<1> USE HubAssumption DEF HubInit
<1>1. HubTypeOK
  BY EmptySeq DEF HubTypeOK
<1>2. Queued(regq) = {}
  BY EmptySeq DEF Queued
<1>3. FreshUnknown /\ QueuedOnce
  BY <1>2 DEF FreshUnknown, QueuedOnce, Queued
<1>4. IndexedRegistered /\ ClosedIffRemoved
  BY DEF IndexedRegistered, ClosedIffRemoved
<1>5. SubscriptionsAgree
  BY DEF SubscriptionsAgree, Subs
<1> QED BY <1>1, <1>3, <1>4, <1>5 DEF HubInv

\* The invariants other than the types speak of these variables only.
LEMMA HubInvFrame ==
    ASSUME HubInv, HubTypeOK', UNCHANGED <<user, closed, clients, userIndex, regq, topics, subs>>,
           \A c \in Client : rpc'[c] = "off" => rpc[c] = "off"
    PROVE  HubInv'
BY DEF HubInv, FreshUnknown, QueuedOnce, Queued, IndexedRegistered, ClosedIffRemoved,
       SubscriptionsAgree, Subs

LEMMA HubInvStep ==
    ASSUME HubInv, [HubNext]_vars
    PROVE  HubInv'
<1> USE HubAssumption
<1> USE DEF HubInv
<1>1. ASSUME NEW c \in Client, NEW u \in User \cup {Anon}, HandleUpgrade(c, u)
      PROVE  HubInv'
  <2> USE <1>1 DEF HandleUpgrade, pubVars
  <2>1. /\ regq' \in Seq(Client)
        /\ Len(regq') = Len(regq) + 1
        /\ Queued(regq') = Queued(regq) \cup {c}
        /\ Len(regq) \in Nat
    BY QueueAppend, LenProperties DEF HubTypeOK
  <2>2. /\ \A i \in 1..Len(regq) : regq'[i] = regq[i] /\ regq[i] \in Queued(regq)
        /\ regq'[Len(regq) + 1] = c
    BY AppendProperties DEF HubTypeOK, Queued
  <2>3. c \notin clients /\ c \notin Queued(regq) /\ ~closed[c]
    BY DEF FreshUnknown
  <2>4. HubTypeOK'
    BY <2>1 DEF HubTypeOK
  <2>5. FreshUnknown'
    BY <2>1 DEF FreshUnknown, HubTypeOK
  <2>6. QueuedOnce'
    BY <2>1, <2>2, <2>3 DEF QueuedOnce
  <2>7. IndexedRegistered' /\ ClosedIffRemoved'
    BY <2>1, <2>3 DEF IndexedRegistered, ClosedIffRemoved, HubTypeOK
  <2>8. SubscriptionsAgree'
    BY DEF SubscriptionsAgree, Subs
  <2> QED BY <2>4, <2>5, <2>6, <2>7, <2>8
<1>2. CASE AddClient
  <2> DEFINE c == Head(regq)
  <2> USE <1>2 DEF AddClient, pumpVars, pubVars
  <2>1. /\ c \in Client /\ c \in Queued(regq)
        /\ regq' \in Seq(Client) /\ Len(regq) \in Nat \ {0}
        /\ Len(regq') = Len(regq) - 1
        /\ \A i \in 1..Len(regq') : regq'[i] = regq[i + 1]
        /\ c = regq[1]
        /\ Queued(regq') \subseteq Queued(regq)
    BY QueueTail DEF HubTypeOK
  <2>2. c \notin Queued(regq')
    BY <2>1 DEF QueuedOnce, Queued
  <2>3. ~closed[c] /\ rpc[c] # "off"
    BY <2>1 DEF ClosedIffRemoved, FreshUnknown
  <2>4. HubTypeOK'
    <3> HIDE DEF c
    <3>1. clients' = clients \cup {c} /\ regq' = Tail(regq)
      BY DEF c
    <3>2. userIndex' \in [User -> Client \cup {NoClient}]
      BY <2>1 DEF c, HubTypeOK
    <3>3. Len(regq') <= QueueCap
      BY <2>1 DEF HubTypeOK
    <3> QED BY <2>1, <3>1, <3>2, <3>3 DEF HubTypeOK
  <2>5. FreshUnknown'
    BY <2>1, <2>3 DEF FreshUnknown
  <2>6. QueuedOnce'
    <3>1. \A i, j \in 1..Len(regq') : regq'[i] = regq'[j] => i = j
      BY <2>1 DEF QueuedOnce
    <3>2. \A x \in Queued(regq') : x \notin clients'
      BY <2>1, <2>2 DEF QueuedOnce
    <3> QED BY <3>1, <3>2 DEF QueuedOnce
  <2>7. IndexedRegistered' /\ ClosedIffRemoved'
    BY <2>1, <2>2, <2>3 DEF IndexedRegistered, ClosedIffRemoved, HubTypeOK
  <2>8. SubscriptionsAgree'
    BY DEF SubscriptionsAgree, Subs
  <2> QED BY <2>4, <2>5, <2>6, <2>7, <2>8
<1>3. CASE RemoveClient
  <2> DEFINE c == Head(unregq)
  <2> USE <1>3 DEF RemoveClient
  <2>1. c \in Client /\ unregq' \in Seq(Client) /\ Len(unregq') <= QueueCap
    BY QueueTail DEF HubTypeOK
  <2>2. CASE c \notin clients
    <3>1. UNCHANGED <<user, closed, clients, userIndex, regq, topics, subs, rpc>>
      BY <2>2
    <3>2. HubTypeOK'
      BY <2>1, <2>2 DEF HubTypeOK
    <3> QED BY <3>1, <3>2, HubInvFrame
  <2>3. CASE c \in clients
    <3> HIDE DEF c
    <3>1. /\ Remove(c)
          /\ UNCHANGED <<rpc, wpc, user, topics, broken, buf, regq, ppc, pcur, ptopic>>
      BY <2>3 DEF c
    <3>2. /\ DOMAIN subs' = {x \in DOMAIN subs : subs[x] \ {c} # {}}
          /\ \A t \in DOMAIN subs' : subs'[t] = subs[t] \ {c}
      BY <3>1 DEF Remove
    <3>3. HubTypeOK'
      <4>1. userIndex' \in [User -> Client \cup {NoClient}]
        BY <3>1 DEF Remove, HubTypeOK
      <4>2. closed' \in [Client -> BOOLEAN]
        BY <3>1 DEF Remove, CloseSend, HubTypeOK
      <4>3. crashed' \in {"no", "panic", "race"}
        BY <3>1 DEF Remove, CloseSend, MapWrite, HubTypeOK
      <4>4. DOMAIN subs' \subseteq Topic /\ \A t \in DOMAIN subs' : subs'[t] \subseteq Client
        BY <3>2 DEF HubTypeOK
      <4>5. clients' \subseteq Client /\ ptodo' \subseteq Client
        BY <3>1 DEF Remove, HubTypeOK
      <4> QED BY <2>1, <3>1, <4>1, <4>2, <4>3, <4>4, <4>5 DEF HubTypeOK
    <3>4. /\ closed'[c]
          /\ \A x \in Client : x # c => closed'[x] = closed[x]
      BY <2>1, <3>1 DEF Remove, CloseSend, HubTypeOK
    <3>5. c \notin Queued(regq) /\ rpc[c] # "off"
      BY <2>1, <2>3 DEF QueuedOnce, FreshUnknown
    <3>6. clients' = clients \ {c}
      BY <3>1 DEF Remove
    <3>7. FreshUnknown' /\ QueuedOnce'
      BY <3>1, <3>4, <3>5, <3>6 DEF FreshUnknown, QueuedOnce, Queued
    <3>8. ClosedIffRemoved'
      BY <3>1, <3>4, <3>5, <3>6 DEF ClosedIffRemoved, Queued
    <3>9. IndexedRegistered'
      <4> SUFFICES ASSUME NEW u \in User, userIndex'[u] # NoClient
                   PROVE  /\ userIndex'[u] \in clients'
                          /\ user'[userIndex'[u]] = u
                          /\ ~closed'[userIndex'[u]]
        BY DEF IndexedRegistered
      <4>1. userIndex'[u] = userIndex[u] /\ u # user[c]
        BY <3>1 DEF Remove, HubTypeOK
      <4>2. userIndex[u] \in clients /\ user[userIndex[u]] = u /\ ~closed[userIndex[u]]
        BY <4>1 DEF IndexedRegistered
      <4>3. userIndex[u] # c /\ userIndex[u] \in Client
        BY <4>1, <4>2 DEF HubTypeOK
      <4> QED BY <3>1, <3>4, <3>6, <4>1, <4>2, <4>3
    <3>10. SubscriptionsAgree'
      <4> SUFFICES ASSUME NEW x \in Client, NEW t \in Topic, ~closed'[x]
                   PROVE  t \in topics'[x] <=> x \in Subs(t)'
        BY DEF SubscriptionsAgree
      <4>1. x # c /\ ~closed[x]
        BY <3>4
      <4>2. x \in Subs(t)' <=> x \in Subs(t)
        BY <3>2, <4>1 DEF Subs
      <4> QED BY <3>1, <4>1, <4>2 DEF SubscriptionsAgree
    <3> QED BY <3>3, <3>7, <3>8, <3>9, <3>10
  <2> QED BY <2>2, <2>3
<1>4. ASSUME NEW c \in Client, NEW t \in Topic, Subscribe(c, t) \/ Unsubscribe(c, t)
      PROVE  HubInv'
  <2> USE <1>4 DEF Subscribe, Unsubscribe
  <2>1. UNCHANGED <<wpc, user, broken, closed, buf, clients, userIndex, regq, unregq, ppc, pcur, ptopic>>
    OBVIOUS
  <2>2. /\ rpc' \in [Client -> {"off", "read", "ack", "leave", "gone"}]
        /\ \A x \in Client : rpc'[x] = "off" => rpc[x] = "off"
        /\ topics' \in [Client -> SUBSET Topic]
    <3>1. rpc' = [rpc EXCEPT ![c] = "ack"]
      OBVIOUS
    <3>2. topics' = [topics EXCEPT ![c] = @ \cup {t}] \/ topics' = [topics EXCEPT ![c] = @ \ {t}]
      OBVIOUS
    <3>3. topics[c] \cup {t} \subseteq Topic /\ topics[c] \ {t} \subseteq Topic
      BY DEF HubTypeOK
    <3>4. topics' \in [Client -> SUBSET Topic]
      <4> HIDE <1>4
      <4> QED BY <3>2, <3>3 DEF HubTypeOK
    <3>5. /\ rpc' \in [Client -> {"off", "read", "ack", "leave", "gone"}]
          /\ \A x \in Client : rpc'[x] = "off" => rpc[x] = "off"
      <4> HIDE <1>4
      <4> QED BY <3>1 DEF HubTypeOK
    <3> QED BY <3>4, <3>5
  <2>3. crashed' \in {"no", "panic", "race"} /\ ptodo' \subseteq Client
    BY DEF MapWrite, HubTypeOK
  <2>4. Subs(t) \subseteq Client
    BY DEF Subs, HubTypeOK
  <2>5. DOMAIN subs' \subseteq Topic /\ \A x \in DOMAIN subs' : subs'[x] \subseteq Client
    <3>1. CASE Subscribe(c, t)
      <4>1. /\ DOMAIN subs' = DOMAIN subs \cup {t}
            /\ \A x \in DOMAIN subs' : subs'[x] = IF x = t THEN Subs(t) \cup {c} ELSE subs[x]
        BY <3>1
      <4> HIDE <1>4
      <4> QED BY <2>4, <4>1 DEF HubTypeOK
    <3>2. CASE Unsubscribe(c, t)
      <4>1. /\ DOMAIN subs' = DOMAIN subs
            /\ \A x \in DOMAIN subs' : subs'[x] = IF x = t THEN subs[x] \ {c} ELSE subs[x]
        BY <3>2
      <4> HIDE <1>4
      <4> QED BY <4>1 DEF HubTypeOK
    <3> QED BY <3>1, <3>2
  <2>6. HubTypeOK'
    BY <2>1, <2>2, <2>3, <2>5 DEF HubTypeOK
  <2>7. FreshUnknown' /\ QueuedOnce' /\ IndexedRegistered' /\ ClosedIffRemoved'
    BY <2>1, <2>2 DEF FreshUnknown, QueuedOnce, Queued, IndexedRegistered, ClosedIffRemoved
  <2>8. SubscriptionsAgree'
    <3> SUFFICES ASSUME NEW x \in Client, NEW s \in Topic, ~closed[x]
                 PROVE  s \in topics'[x] <=> x \in Subs(s)'
      BY <2>1 DEF SubscriptionsAgree
    <3>1. s \in topics[x] <=> x \in Subs(s)
      BY DEF SubscriptionsAgree
    <3>2. CASE Subscribe(c, t)
      <4>1. x \in Subs(s)' <=> x \in Subs(s) \/ (x = c /\ s = t)
        BY <3>2 DEF Subs
      <4>2. s \in topics'[x] <=> s \in topics[x] \/ (x = c /\ s = t)
        BY <3>2 DEF HubTypeOK
      <4> QED BY <3>1, <4>1, <4>2
    <3>3. CASE Unsubscribe(c, t)
      <4>1. x \in Subs(s)' <=> x \in Subs(s) /\ ~(x = c /\ s = t)
        BY <3>3 DEF Subs
      <4>2. s \in topics'[x] <=> s \in topics[x] /\ ~(x = c /\ s = t)
        BY <3>3 DEF HubTypeOK
      <4> QED BY <3>1, <4>1, <4>2
    <3> QED BY <3>2, <3>3
  <2> QED BY <2>6, <2>7, <2>8
<1>5. ASSUME NEW c \in Client, PeerGone(c) \/ ReadPump(c) \/ WritePump(c)
      PROVE  HubInv'
  <2>0. c \in Client /\ buf[c] \in 0..SendCap
    BY <1>5 DEF HubTypeOK
  <2> USE <1>5 DEF PeerGone, ReadPump, WritePump, SendAck, ReadError, Leave, WriteFrame,
                   WriteError, WriteClose, TrySend, Overflow, SendUnregister, hubVars, pubVars
  <2>1. UNCHANGED <<user, closed, clients, userIndex, regq, topics, subs>>
    OBVIOUS
  <2>2. \A x \in Client : rpc'[x] = "off" => rpc[x] = "off"
    BY DEF HubTypeOK
  <2>3. unregq' \in Seq(Client) /\ Len(unregq') <= QueueCap
    <3>1. unregq' = unregq \/ (Len(unregq) < QueueCap /\ unregq' = Append(unregq, c))
      OBVIOUS
    <3>2. /\ unregq \in Seq(Client) /\ Len(unregq) <= QueueCap /\ Len(unregq) \in Nat
          /\ Append(unregq, c) \in Seq(Client) /\ Len(Append(unregq, c)) = Len(unregq) + 1
      BY QueueAppend, LenProperties DEF HubTypeOK
    <3> HIDE <1>5
    <3> QED BY <3>1, <3>2
  <2>4. buf' \in [Client -> 0..SendCap]
    <3>1. \/ buf' = buf
          \/ buf[c] # SendCap /\ buf' = [buf EXCEPT ![c] = @ + 1]
          \/ buf' = [buf EXCEPT ![c] = 0]
          \/ buf' = [buf EXCEPT ![c] = IF @ > 0 THEN @ - 1 ELSE 0]
      OBVIOUS
    <3> HIDE <1>5
    <3> QED BY <3>1, <2>0 DEF HubTypeOK
  <2>5. HubTypeOK'
    <3>1. /\ rpc' \in [Client -> {"off", "read", "ack", "leave", "gone"}]
          /\ wpc' \in [Client -> {"off", "run", "gone"}]
          /\ broken' \in [Client -> BOOLEAN]
          /\ crashed' \in {"no", "panic", "race"}
      <4>1. rpc' \in {rpc, [rpc EXCEPT ![c] = "read"], [rpc EXCEPT ![c] = "leave"],
                      [rpc EXCEPT ![c] = "gone"]}
        OBVIOUS
      <4>2. wpc' \in {wpc, [wpc EXCEPT ![c] = "gone"]}
        OBVIOUS
      <4>3. broken' \in {broken, [broken EXCEPT ![c] = TRUE]}
        OBVIOUS
      <4>4. crashed' \in {crashed, "no", "panic"}
        OBVIOUS
      <4> HIDE <1>5
      <4> QED BY <4>1, <4>2, <4>3, <4>4 DEF HubTypeOK
    <3>2. UNCHANGED <<ppc, pcur, ptodo, ptopic>>
      OBVIOUS
    <3> HIDE <1>5
    <3> QED BY <2>1, <2>3, <2>4, <3>1, <3>2 DEF HubTypeOK
  <2> QED BY <2>1, <2>2, <2>5, HubInvFrame
<1>6. ASSUME \/ \E t \in Topic : BroadcastToTopic(t)
             \/ \E u \in User : SendToUser(u)
             \/ Publisher
      PROVE  HubInv'
  <2> USE DEF hubVars, pumpVars
  <2>1. ASSUME NEW t \in Topic, BroadcastToTopic(t) PROVE HubInv'
    <3>1. HubTypeOK'
      BY <2>1 DEF BroadcastToTopic, HubTypeOK, Subs
    <3> QED BY <2>1, <3>1, HubInvFrame DEF BroadcastToTopic
  <2>2. ASSUME NEW u \in User, SendToUser(u) PROVE HubInv'
    <3>1. HubTypeOK'
      BY <2>2 DEF SendToUser, HubTypeOK
    <3> QED BY <2>2, <3>1, HubInvFrame DEF SendToUser
  <2>3. CASE RangeNext
    <3>1. HubTypeOK'
      BY <2>3 DEF RangeNext, HubTypeOK
    <3> QED BY <2>3, <3>1, HubInvFrame DEF RangeNext
  <2>4. CASE RangeDone
    <3>1. HubTypeOK'
      BY <2>4 DEF RangeDone, HubTypeOK
    <3> QED BY <2>4, <3>1, HubInvFrame DEF RangeDone
  <2>5. CASE PublishSend
    <3>1. pcur \in Client /\ buf[pcur] \in 0..SendCap
      BY <2>5 DEF PublishSend, HubTypeOK
    <3>2. buf' \in [Client -> 0..SendCap]
      BY <2>5, <3>1 DEF PublishSend, TrySend, Overflow, HubTypeOK
    <3>3. HubTypeOK'
      BY <2>5, <3>1, <3>2 DEF PublishSend, TrySend, HubTypeOK
    <3> QED BY <2>5, <3>3, HubInvFrame DEF PublishSend
  <2>6. CASE Kick
    <3>1. pcur \in Client /\ unregq \in Seq(Client) /\ Len(unregq) \in Nat
      BY <2>6, LenProperties DEF Kick, HubTypeOK
    <3>2. unregq' \in Seq(Client) /\ Len(unregq') <= QueueCap
      BY <2>6, <3>1, QueueAppend DEF Kick, SendUnregister
    <3>3. HubTypeOK'
      BY <2>6, <3>2 DEF Kick, HubTypeOK
    <3> QED BY <2>6, <3>3, HubInvFrame DEF Kick
  <2> QED BY <1>6, <2>1, <2>2, <2>3, <2>4, <2>5, <2>6 DEF Publisher
<1>7. CASE UNCHANGED vars
  BY <1>7, HubInvFrame DEF vars, pumpVars, hubVars, pubVars, HubTypeOK
<1> QED BY <1>1, <1>2, <1>3, <1>4, <1>5, <1>6, <1>7 DEF HubNext, Peer

THEOREM HubInvariant == HubSpec => []HubInv
<1>1. HubInit => HubInv
  BY HubInvInit
<1>2. HubInv /\ [HubNext]_vars => HubInv'
  BY HubInvStep
<1> QED BY <1>1, <1>2, PTL DEF HubSpec

\* The index leads only to registered, open clients of the user.
THEOREM IndexIsSound == HubSpec => []IndexedRegistered
<1>1. HubInv => IndexedRegistered
  BY DEF HubInv
<1> QED BY <1>1, HubInvariant, PTL

\* No send channel is closed twice: removeClient closes the channel of a client
\* that is registered, and such a client's channel is open.
THEOREM NoDoubleClose == HubSpec => []ClosedIffRemoved
<1>1. HubInv => ClosedIffRemoved
  BY DEF HubInv
<1> QED BY <1>1, HubInvariant, PTL

\* The client's and the hub's records of its subscriptions agree while it is open.
THEOREM SubscriptionsConsistent == HubSpec => []SubscriptionsAgree
<1>1. HubInv => SubscriptionsAgree
  BY DEF HubInv
<1> QED BY <1>1, HubInvariant, PTL
=============================================================================
