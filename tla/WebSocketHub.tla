---------------------------- MODULE WebSocketHub ----------------------------
(***************************************************************************)
(* internal/api/websocket: the hub that keeps the connected clients, their *)
(* subscriptions and the user index; the two pumps of every connection;    *)
(* and a publisher that broadcasts to topics and sends to users.           *)
(*                                                                         *)
(* The hub's maps are guarded by a mutex, so each handler is one step; the *)
(* registration channels and the per-client send channels are not, and a   *)
(* publisher looks a client up in one step and sends to it in a later one. *)
(* Payloads do not matter: a send channel is the number of messages in it. *)
(***************************************************************************)
EXTENDS Integers, Sequences, FiniteSets

CONSTANTS
    Client,    \* connections; each is upgraded at most once
    User,      \* wallet addresses
    Anon,      \* the empty userAddress
    Topic,
    NoClient,
    SendCap,   \* sendBufferSize (256 in the code)
    QueueCap   \* capacity of register and of unregister (64 in the code)

ASSUME HubAssumption == /\ Anon \notin User
                        /\ NoClient \notin Client
                        /\ SendCap \in Nat \ {0}
                        /\ QueueCap \in Nat \ {0}

VARIABLES
    rpc,       \* where each readPump is
    wpc,       \* where each writePump is
    user,      \* userAddress of each client
    topics,    \* topics[c]: the client's own record of its subscriptions
    broken,    \* is the connection closed, by either side?
    closed,    \* has close(c.send) been called?
    buf,       \* number of messages in c.send
    clients,   \* hub.clients
    subs,      \* hub.topicSubs, defined on the topics that have a map
    userIndex, \* hub.userIndex
    regq,      \* the register channel
    unregq,    \* the unregister channel
    ppc,       \* where the publisher is
    pcur,      \* the client it is about to send to
    ptodo,     \* the subscribers its iteration has still to produce
    ptopic,    \* the topic whose map it iterates over
    crashed    \* "no", or what has killed the process: a "panic" or a map "race"

pumpVars == <<rpc, wpc, user, topics, broken, closed, buf>>
hubVars == <<clients, subs, userIndex, regq, unregq>>
pubVars == <<ppc, pcur, ptodo, ptopic>>
vars == <<pumpVars, hubVars, pubVars, crashed>>

Subs(t) == IF t \in DOMAIN subs THEN subs[t] ELSE {}
Queued(q) == {q[i] : i \in 1..Len(q)}

HubTypeOK ==
    /\ rpc \in [Client -> {"off", "read", "ack", "leave", "gone"}]
    /\ wpc \in [Client -> {"off", "run", "gone"}]
    /\ user \in [Client -> User \cup {Anon}]
    /\ topics \in [Client -> SUBSET Topic]
    /\ broken \in [Client -> BOOLEAN]
    /\ closed \in [Client -> BOOLEAN]
    /\ buf \in [Client -> 0..SendCap]
    /\ clients \subseteq Client
    /\ DOMAIN subs \subseteq Topic
    /\ \A t \in DOMAIN subs : subs[t] \subseteq Client
    /\ userIndex \in [User -> Client \cup {NoClient}]
    /\ regq \in Seq(Client) /\ Len(regq) <= QueueCap
    /\ unregq \in Seq(Client) /\ Len(unregq) <= QueueCap
    /\ ppc \in {"idle", "iter", "send", "kick"}
    /\ pcur \in Client \cup {NoClient}
    /\ ppc \in {"send", "kick"} => pcur \in Client
    /\ ptodo \subseteq Client
    /\ ptopic \in Topic \cup {Anon}
    /\ crashed \in {"no", "panic", "race"}

HubInit ==
    /\ rpc = [c \in Client |-> "off"]
    /\ wpc = [c \in Client |-> "off"]
    /\ user = [c \in Client |-> Anon]
    /\ topics = [c \in Client |-> {}]
    /\ broken = [c \in Client |-> FALSE]
    /\ closed = [c \in Client |-> FALSE]
    /\ buf = [c \in Client |-> 0]
    /\ clients = {}
    /\ subs = [t \in {} |-> {}]
    /\ userIndex = [u \in User |-> NoClient]
    /\ regq = <<>> /\ unregq = <<>>
    /\ ppc = "idle" /\ pcur = NoClient /\ ptodo = {} /\ ptopic = Anon
    /\ crashed = "no"

\* A send to the unregister channel blocks while it is full.
SendUnregister(c) == /\ Len(unregq) < QueueCap
                     /\ unregq' = Append(unregq, c)

\* The publisher ranges over a topic's map without holding the lock: a write to
\* that map meanwhile may or may not be caught by the Go runtime, which then
\* kills the process.
MapWrite(T) == IF ppc = "iter" /\ ptopic \in T
               THEN crashed' \in {"no", "race"}
               ELSE UNCHANGED crashed

\* select { case c.send <- payload: default: }, which panics on a closed channel.
Overflow(c) == ~closed[c] /\ buf[c] = SendCap
TrySend(c) == /\ crashed' = IF closed[c] THEN "panic" ELSE "no"
              /\ buf' = IF closed[c] \/ Overflow(c) THEN buf ELSE [buf EXCEPT ![c] = @ + 1]
-----------------------------------------------------------------------------
\* HandleUpgrade: a new client goes to the register channel, its pumps start.
HandleUpgrade(c, u) ==
    /\ rpc[c] = "off"
    /\ Len(regq) < QueueCap
    /\ regq' = Append(regq, c)
    /\ user' = [user EXCEPT ![c] = u]
    /\ rpc' = [rpc EXCEPT ![c] = "read"]
    /\ wpc' = [wpc EXCEPT ![c] = "run"]
    /\ UNCHANGED <<topics, broken, closed, buf, clients, subs, userIndex, unregq, pubVars, crashed>>

\* The two cases of Run's select.
AddClient ==
    /\ regq # <<>>
    /\ LET c == Head(regq) IN
         /\ clients' = clients \cup {c}
         /\ userIndex' = [u \in User |-> IF u = user[c] THEN c ELSE userIndex[u]]
    /\ regq' = Tail(regq)
    /\ UNCHANGED <<pumpVars, subs, unregq, pubVars, crashed>>

\* close(c.send), which panics when it is closed already, after the writes to the maps.
CloseSend(c) ==
    /\ closed' = [closed EXCEPT ![c] = TRUE]
    /\ IF closed[c] THEN crashed' = "panic" ELSE MapWrite(DOMAIN subs)

\* Mutations of Remove: the user index keeps the client; a topic's map is dropped
\* while one subscriber is left in it.
RemoveUnindexed(c) ==
    /\ clients' = clients \ {c}
    /\ UNCHANGED userIndex
    /\ subs' = [t \in {x \in DOMAIN subs : subs[x] \ {c} # {}} |-> subs[t] \ {c}]
    /\ ptodo' = ptodo \ {c}
    /\ CloseSend(c)

RemoveLastTwo(c) ==
    /\ clients' = clients \ {c}
    /\ userIndex' = [u \in User |-> IF u = user[c] THEN NoClient ELSE userIndex[u]]
    /\ subs' = [t \in {x \in DOMAIN subs : Cardinality(subs[x] \ {c}) > 1} |-> subs[t] \ {c}]
    /\ ptodo' = ptodo \ {c}
    /\ CloseSend(c)

\* removeClient of a registered client.
Remove(c) ==
    /\ clients' = clients \ {c}
    /\ userIndex' = [u \in User |-> IF u = user[c] THEN NoClient ELSE userIndex[u]]
    /\ subs' = [t \in {x \in DOMAIN subs : subs[x] \ {c} # {}} |-> subs[t] \ {c}]
    /\ ptodo' = ptodo \ {c}
    /\ CloseSend(c)

\* Mutation of RemoveClient: no check that the client is registered.
RemoveClientUnchecked ==
    /\ unregq # <<>>
    /\ unregq' = Tail(unregq)
    /\ Remove(Head(unregq))
    /\ UNCHANGED <<rpc, wpc, user, topics, broken, buf, regq, ppc, pcur, ptopic>>

RemoveClient ==
    /\ unregq # <<>>
    /\ unregq' = Tail(unregq)
    /\ LET c == Head(unregq) IN
         IF c \in clients
         THEN Remove(c)
         ELSE UNCHANGED <<clients, userIndex, subs, closed, ptodo, crashed>>
    /\ UNCHANGED <<rpc, wpc, user, topics, broken, buf, regq, ppc, pcur, ptopic>>
-----------------------------------------------------------------------------
\* readPump handles a command; the acknowledgement is a step of its own.  An
\* entry added during an iteration over the map may or may not be produced.
Subscribe(c, t) ==
    /\ rpc[c] = "read" /\ ~broken[c]
    /\ subs' = [x \in DOMAIN subs \cup {t} |-> IF x = t THEN Subs(t) \cup {c} ELSE subs[x]]
    /\ topics' = [topics EXCEPT ![c] = @ \cup {t}]
    /\ \/ UNCHANGED ptodo
       \/ ppc # "idle" /\ ptopic = t /\ ptodo # {} /\ ptodo' = ptodo \cup {c}
    /\ MapWrite({t} \cap DOMAIN subs)
    /\ rpc' = [rpc EXCEPT ![c] = "ack"]
    /\ UNCHANGED <<wpc, user, broken, closed, buf, clients, userIndex, regq, unregq, ppc, pcur, ptopic>>

Unsubscribe(c, t) ==
    /\ rpc[c] = "read" /\ ~broken[c]
    /\ subs' = [x \in DOMAIN subs |-> IF x = t THEN subs[x] \ {c} ELSE subs[x]]
    /\ topics' = [topics EXCEPT ![c] = @ \ {t}]
    /\ ptodo' = IF ptopic = t THEN ptodo \ {c} ELSE ptodo
    /\ MapWrite({t} \cap DOMAIN subs)
    /\ rpc' = [rpc EXCEPT ![c] = "ack"]
    /\ UNCHANGED <<wpc, user, broken, closed, buf, clients, userIndex, regq, unregq, ppc, pcur, ptopic>>

SendAck(c) ==
    /\ rpc[c] = "ack"
    /\ TrySend(c)
    /\ rpc' = [rpc EXCEPT ![c] = "read"]
    /\ UNCHANGED <<wpc, user, topics, broken, closed, hubVars, pubVars>>

\* ReadMessage fails: the deferred function unregisters and closes.
ReadError(c) ==
    /\ rpc[c] = "read" /\ broken[c]
    /\ rpc' = [rpc EXCEPT ![c] = "leave"]
    /\ UNCHANGED <<wpc, user, topics, broken, closed, buf, hubVars, pubVars, crashed>>

Leave(c) ==
    /\ rpc[c] = "leave"
    /\ SendUnregister(c)
    /\ rpc' = [rpc EXCEPT ![c] = "gone"]
    /\ UNCHANGED <<wpc, user, topics, broken, closed, buf, clients, subs, userIndex, regq, pubVars, crashed>>

\* The peer hangs up, or its pong does not arrive before the read deadline.
PeerGone(c) ==
    /\ rpc[c] # "off" /\ ~broken[c]
    /\ broken' = [broken EXCEPT ![c] = TRUE]
    /\ UNCHANGED <<rpc, wpc, user, topics, closed, buf, hubVars, pubVars, crashed>>
-----------------------------------------------------------------------------
\* writePump: all that is queued goes out in one frame.
WriteFrame(c) ==
    /\ wpc[c] = "run" /\ buf[c] > 0 /\ ~broken[c]
    /\ buf' = [buf EXCEPT ![c] = 0]
    /\ UNCHANGED <<rpc, wpc, user, topics, broken, closed, hubVars, pubVars, crashed>>

\* A write (of a message or of a ping) fails.
WriteError(c) ==
    /\ wpc[c] = "run" /\ broken[c]
    /\ wpc' = [wpc EXCEPT ![c] = "gone"]
    /\ buf' = [buf EXCEPT ![c] = IF @ > 0 THEN @ - 1 ELSE 0]
    /\ UNCHANGED <<rpc, user, topics, broken, closed, hubVars, pubVars, crashed>>

\* Mutation of WriteClose: the deferred conn.Close is missing.
WriteCloseOnly(c) ==
    /\ wpc[c] = "run" /\ closed[c] /\ buf[c] = 0
    /\ wpc' = [wpc EXCEPT ![c] = "gone"]
    /\ UNCHANGED <<rpc, user, topics, broken, closed, buf, hubVars, pubVars, crashed>>

\* The send channel is closed and empty: say goodbye and close the connection.
WriteClose(c) ==
    /\ wpc[c] = "run" /\ closed[c] /\ buf[c] = 0
    /\ wpc' = [wpc EXCEPT ![c] = "gone"]
    /\ broken' = [broken EXCEPT ![c] = TRUE]
    /\ UNCHANGED <<rpc, user, topics, closed, buf, hubVars, pubVars, crashed>>
-----------------------------------------------------------------------------
\* BroadcastToTopic: the map is read under the lock and ranged over without it.
BroadcastToTopic(t) ==
    /\ ppc = "idle"
    /\ ppc' = "iter"
    /\ ptopic' = t
    /\ ptodo' = Subs(t)
    /\ UNCHANGED <<pumpVars, hubVars, pcur, crashed>>

RangeNext ==
    /\ ppc = "iter"
    /\ \E c \in ptodo : pcur' = c /\ ptodo' = ptodo \ {c}
    /\ ppc' = "send"
    /\ UNCHANGED <<pumpVars, hubVars, ptopic, crashed>>

RangeDone ==
    /\ ppc = "iter" /\ ptodo = {}
    /\ ppc' = "idle"
    /\ pcur' = NoClient
    /\ ptopic' = Anon
    /\ UNCHANGED <<pumpVars, hubVars, ptodo, crashed>>

\* SendToUser: an iteration over the one client the index has for the user.
SendToUser(u) ==
    /\ ppc = "idle"
    /\ userIndex[u] # NoClient
    /\ ppc' = "send"
    /\ pcur' = userIndex[u]
    /\ UNCHANGED <<pumpVars, hubVars, ptodo, ptopic, crashed>>

PublishSend ==
    /\ ppc = "send"
    /\ TrySend(pcur)
    /\ ppc' = IF Overflow(pcur) THEN "kick" ELSE "iter"
    /\ UNCHANGED <<rpc, wpc, user, topics, broken, closed, hubVars, pcur, ptodo, ptopic>>

\* Mutation of Kick: the message is dropped and the client left alone.
KickNothing ==
    /\ ppc = "kick"
    /\ ppc' = "iter"
    /\ UNCHANGED <<pumpVars, hubVars, pcur, ptodo, ptopic, crashed>>

\* The buffer was full: the client is handed to the hub to be disconnected.
Kick ==
    /\ ppc = "kick"
    /\ SendUnregister(pcur)
    /\ ppc' = "iter"
    /\ UNCHANGED <<pumpVars, clients, subs, userIndex, regq, pcur, ptodo, ptopic, crashed>>
-----------------------------------------------------------------------------
ReadPump(c) == SendAck(c) \/ ReadError(c) \/ Leave(c)
WritePump(c) == WriteFrame(c) \/ WriteError(c) \/ WriteClose(c)
Peer(c) == \/ \E u \in User \cup {Anon} : HandleUpgrade(c, u)
           \/ \E t \in Topic : Subscribe(c, t) \/ Unsubscribe(c, t)
           \/ PeerGone(c)
Publisher == RangeNext \/ RangeDone \/ PublishSend \/ Kick

Alive == crashed = "no"

HubNext ==
    /\ Alive
    /\ \/ AddClient
       \/ RemoveClient
       \/ \E c \in Client : Peer(c) \/ ReadPump(c) \/ WritePump(c)
       \/ \E t \in Topic : BroadcastToTopic(t)
       \/ \E u \in User : SendToUser(u)
       \/ Publisher

HubSpec == HubInit /\ [][HubNext]_vars

\* Run's select takes a ready channel at random, goroutines are scheduled fairly,
\* and senders blocked on a channel are served in order, hence strong fairness
\* for the two sends to unregister.  Peers and callers need not do anything.
FairHubSpec ==
    /\ HubSpec
    /\ WF_vars(Alive /\ AddClient)
    /\ WF_vars(Alive /\ RemoveClient)
    /\ \A c \in Client : /\ WF_vars(Alive /\ ReadPump(c))
                         /\ SF_vars(Alive /\ Leave(c))
                         /\ WF_vars(Alive /\ WritePump(c))
    /\ WF_vars(Alive /\ Publisher)
    /\ SF_vars(Alive /\ Kick)
-----------------------------------------------------------------------------
\* The user index only leads to registered clients of that user whose channel
\* the hub has not closed, even when a user has several connections.
IndexedRegistered ==
    \A u \in User : userIndex[u] # NoClient =>
        /\ userIndex[u] \in clients
        /\ user[userIndex[u]] = u
        /\ ~closed[userIndex[u]]

\* A send channel is closed once, when its client leaves the hub, and the client
\* can not come back: hub_test's "second unregister should be a no-op (not panic)".
ClosedIffRemoved ==
    \A c \in Client : closed[c] => c \notin clients /\ c \notin Queued(regq)

\* Until its channel is closed, a client and the hub agree on what the client is
\* subscribed to, although removeClient and Unsubscribe of others drop maps.
SubscriptionsAgree ==
    \A c \in Client, t \in Topic : ~closed[c] => (t \in topics[c] <=> c \in Subs(t))

\* What makes these inductive: a connection is new to the hub until its upgrade,
\* then queued once in register, and is registered only from there.
FreshUnknown ==
    \A c \in Client : rpc[c] = "off" =>
        c \notin clients /\ c \notin Queued(regq) /\ ~closed[c]

QueuedOnce ==
    /\ \A i, j \in 1..Len(regq) : regq[i] = regq[j] => i = j
    /\ \A c \in Queued(regq) : c \notin clients

HubInv == /\ HubTypeOK
          /\ FreshUnknown
          /\ QueuedOnce
          /\ IndexedRegistered
          /\ ClosedIffRemoved
          /\ SubscriptionsAgree

\* A registered client whose buffer a publisher found full is disconnected.
SlowClientDropped ==
    \A c \in Client :
        ppc = "kick" /\ pcur = c /\ c \in clients ~> closed[c] \/ ~Alive

\* A connection that the hub drops, or that breaks, takes both of its goroutines
\* with it: the one that notices makes the other one notice.
Teardown ==
    \A c \in Client :
        closed[c] \/ broken[c] ~> ~Alive \/ (rpc[c] = "gone" /\ wpc[c] = "gone")

\* What the docs and comments say and the code does not do.

\* The comment on userIndex, "for targeted messages": a user with a registered
\* connection can be reached through the index.
UserReachable ==
    \A c \in clients : user[c] \in User => userIndex[user[c]] # NoClient

\* What hub_test asserts after an unregister, that the client is gone from the
\* hub: a client that has left, with nothing of it queued, is not registered.
UnregisteredGone ==
    \A c \in Client :
        rpc[c] = "gone" /\ c \notin Queued(regq) \cup Queued(unregq) => c \notin clients

\* The comment in BroadcastToTopic, "client buffer full; disconnect": a client
\* that can not take a message costs that client its connection, no more.
NoPanic == crashed # "panic"
=============================================================================
