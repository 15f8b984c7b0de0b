----------------------------- MODULE ApiProofs -----------------------------
(***************************************************************************)
(* Proofs about ApiServer for any connections, clients, wallets, limit,    *)
(* window, TTLs and calldata lengths: the rate limit, the age of what the  *)
(* market's cache answers, and the calldata handed out.                    *)
(***************************************************************************)
EXTENDS ApiServer, SequenceTheorems, TLAPS

\* A connection's request moves on; it does not come to hold an old value.
Turns(c) ==
    \E r \in Request : conn' = [conn EXCEPT ![c] = r] /\ (r.at = "read" => r.fresh)

\* Everything that only the connection's goroutine sees.
LEMMA RespondTurns ==
    ASSUME NEW c \in Conn, NEW status \in {200, 204, 400, 401, 404, 429, 500}, Respond(c, status)
    PROVE  Turns(c)
<1>1. [at |-> "done", ok |-> status < 400] \in Request
  BY DEF Request, Answer
<1> QED BY <1>1 DEF Respond, Turns

LEMMA RouteTurns ==
    ASSUME NEW c \in Conn, NEW r \in Route,
           conn' = [conn EXCEPT ![c] = [at |-> "route", route |-> r]]
    PROVE  Turns(c)
<1>1. [at |-> "route", route |-> r] \in Request
  BY DEF Request
<1> QED BY <1>1 DEF Turns

LEMMA TurnsFrame ==
    ASSUME ApiTypeOK, NEW c \in Conn, Turns(c)
    PROVE  conn' \in [Conn -> Request] /\ \A k \in Key : HeldOld(k)' => HeldOld(k)
<1>1. PICK r \in Request : conn' = [conn EXCEPT ![c] = r] /\ (r.at = "read" => r.fresh)
  BY DEF Turns
<1>2. conn' \in [Conn -> Request]
  BY <1>1 DEF ApiTypeOK
<1>3. \A d \in Conn : d # c => conn'[d] = conn[d]
  BY <1>1 DEF ApiTypeOK
<1>4. conn'[c] = r
  BY <1>1 DEF ApiTypeOK
<1> QED BY <1>1, <1>2, <1>3, <1>4 DEF HeldOld

\* A request that has its key and is not counted yet.
LEMMA Keyed ==
    ASSUME ApiTypeOK, NEW c \in Conn, conn[c].at = "limit"
    PROVE  conn[c] \in [at : {"limit"}, key : LimitKey, route : Route]
<1>1. conn[c] \in Request
  BY DEF ApiTypeOK
<1>2. conn[c] \notin CalldataAnswer
  BY DEF CalldataAnswer
<1> QED BY <1>1, <1>2 DEF Request, Idle, Answer

\* The handlers that change nothing but their own request.
OnlyConn(c) ==
    \/ Close(c) \/ Preflight(c) \/ Health(c) \/ MarketFails(c) \/ MarketHistory(c)
    \/ LoginFails(c) \/ Unauthorized(c) \/ AccountRead(c) \/ BuildFails(c)
    \/ FailOpen(c)
    \/ \E r \in Asked, i \in Client : KeyRequest(c, i, r)
    \/ \E k \in Key : MarketHit(c, k) \/ MarketRead(c, k)
    \/ \E a \in Address : Authenticate(c, a)
    \/ \E action \in DOMAIN Selector, asset \in Asset, amount \in Amount : BuildTx(c, action, asset, amount)

LEMMA OnlyConnTurns ==
    ASSUME ApiTypeOK, NEW c \in Conn, OnlyConn(c)
    PROVE  Turns(c) /\ UNCHANGED <<second, minute, counter, cache, token, passed, settled>>
<1> USE DEF time, ghosts
<1>1. CASE Close(c)
  <2>1. Idle \in Request /\ Idle.at # "read"
    BY DEF Request, Idle
  <2> QED BY <1>1, <2>1 DEF Close, Turns
<1>2. CASE \/ Preflight(c) \/ Health(c) \/ MarketFails(c) \/ MarketHistory(c)
           \/ LoginFails(c) \/ Unauthorized(c) \/ AccountRead(c) \/ BuildFails(c)
  <2>1. \E status \in {200, 204, 400, 401, 404, 429, 500} : Respond(c, status)
    BY <1>2 DEF Preflight, Health, MarketFails, MarketHistory, LoginFails, Unauthorized,
                AccountRead, BuildFails
  <2>2. Turns(c)
    BY <2>1, RespondTurns
  <2> QED BY <1>2, <2>2 DEF Preflight, Health, MarketFails, MarketHistory, LoginFails,
                            Unauthorized, AccountRead, BuildFails
<1>3. CASE FailOpen(c)
  <2>1. conn[c].route \in Route
    BY <1>3, Keyed DEF FailOpen
  <2> QED BY <1>3, <2>1, RouteTurns DEF FailOpen
<1>8. CASE \E r \in Asked, i \in Client : KeyRequest(c, i, r)
  <2>1. PICK r \in Asked, i \in Client : KeyRequest(c, i, r)
    BY <1>8
  <2>2. [at |-> "limit", key |-> <<i, minute>>, route |-> r] \in Request
    BY ApiAssumption DEF Request, LimitKey, ApiTypeOK
  <2> QED BY <2>1, <2>2 DEF KeyRequest, Turns
<1>4. CASE \E k \in Key : MarketHit(c, k)
  BY <1>4, RespondTurns DEF MarketHit
<1>5. CASE \E k \in Key : MarketRead(c, k)
  <2>1. PICK k \in Key : MarketRead(c, k)
    BY <1>5
  <2>2. [at |-> "read", key |-> k, fresh |-> TRUE] \in Request
    BY DEF Request
  <2> QED BY <2>1, <2>2 DEF MarketRead, Turns
<1>6. CASE \E a \in Address : Authenticate(c, a)
  <2>1. PICK a \in Address : Authenticate(c, a)
    BY <1>6
  <2>2. [at |-> "authed", route |-> conn[c].route, wallet |-> a] \in Request
    BY <2>1 DEF Authenticate, Request
  <2> QED BY <2>1, <2>2 DEF Authenticate, Turns
<1>7. CASE \E action \in DOMAIN Selector, asset \in Asset, amount \in Amount : BuildTx(c, action, asset, amount)
  <2>1. PICK action \in DOMAIN Selector, asset \in Asset, amount \in Amount : BuildTx(c, action, asset, amount)
    BY <1>7
  <2> DEFINE answer == [at |-> "done", action |-> action, asset |-> asset, amount |-> amount,
                        data |-> BuildTransaction(Selector[action], HexToAddress(asset), amount.bytes)]
  <2>2. answer \in CalldataAnswer
    BY DEF CalldataAnswer
  <2>3. answer \in Request /\ answer.at # "read"
    BY <2>2 DEF Request
  <2>4. CASE Panics(2, amount.bytes)
    BY <2>1, <2>4, RespondTurns DEF BuildTx
  <2>5. CASE ~Panics(2, amount.bytes)
    BY <2>1, <2>5, <2>3 DEF BuildTx, Turns
  <2> QED BY <2>4, <2>5
<1> QED BY <1>1, <1>2, <1>3, <1>4, <1>5, <1>6, <1>7, <1>8 DEF OnlyConn
-----------------------------------------------------------------------------
LEMMA NextSecond ==
    ASSUME NEW s \in 0..(Minute - 1)
    PROVE  (s + 1) % Minute = IF s + 1 = Minute THEN 0 ELSE s + 1
BY ApiAssumption

LEMMA ApiInvInit == ApiInit => ApiInv
<1> SUFFICES ASSUME ApiInit PROVE ApiInv
  OBVIOUS
<1>1. Idle \in Request /\ Idle.at # "read"
  BY DEF Request, Idle
<1>2. ApiTypeOK
  BY <1>1, ApiAssumption DEF ApiInit, ApiTypeOK, NoCount, MinuteNo
<1>3. OldExpires
  BY <1>1 DEF ApiInit, OldExpires, HeldOld
<1>4. CounterHolds /\ QuotaPerMinute
  <2>1. \A i \in Client : counter[<<i, minute>>] = NoCount
    BY ApiAssumption DEF ApiInit, LimitKey, MinuteNo
  <2>2. \A i \in Client : passed[i] = 0
    BY DEF ApiInit
  <2>3. NoCount.n = 0 /\ 0 <= RequestsPerMinute
    BY ApiAssumption DEF NoCount
  <2> QED BY <2>1, <2>2, <2>3 DEF CounterHolds, QuotaPerMinute
<1> QED BY <1>2, <1>3, <1>4 DEF ApiInv

\* A request is counted in the step that lets it through, under this minute's key or
\* under another one.
LEMMA RateLimitedStep ==
    ASSUME ApiInv, NEW c \in Conn, RateLimited(c)
    PROVE  ApiInv'
<1> USE DEF ApiInv
<1>k. conn[c] \in [at : {"limit"}, key : LimitKey, route : Route]
  BY Keyed DEF RateLimited
<1>i. PICK i \in Client, m \in MinuteNo : conn[c].key = <<i, m>>
  BY <1>k DEF LimitKey
<1> DEFINE key == <<i, m>>
           n == Counted(counter[key].n)
<1>l. \A j \in Client, l \in MinuteNo : <<j, l>> \in LimitKey
  BY DEF LimitKey
<1>1. Turns(c)
  BY <1>k, RespondTurns, RouteTurns DEF RateLimited
<1>2. counter[key] \in [n : Nat, ttl : Nat] /\ passed[i] \in Nat /\ second \in 0..(Minute - 1) /\ minute \in MinuteNo
  BY <1>l DEF ApiTypeOK
<1>3. /\ n \in Nat /\ n > 0 /\ n >= counter[key].n
      /\ n <= RequestsPerMinute => n = counter[key].n + 1
      /\ n # 1 => counter[key].n > 0
  <2>1. counter[key].n \in Nat /\ RequestsPerMinute \in Nat \ {0}
    BY <1>2, ApiAssumption
  <2>2. ASSUME NEW x \in Nat
        PROVE  /\ Counted(x) \in Nat /\ Counted(x) > 0 /\ Counted(x) >= x
               /\ Counted(x) <= RequestsPerMinute => Counted(x) = x + 1
               /\ Counted(x) # 1 => x > 0
    BY <2>1 DEF Counted
  <2> QED BY <2>1, <2>2
<1>4. counter' = [counter EXCEPT ![key] = [n |-> n, ttl |-> IF n = 1 THEN CounterTTL ELSE counter[key].ttl]]
  BY <1>i, <1>l DEF RateLimited, ApiTypeOK
<1>5. /\ counter'[key] = [n |-> n, ttl |-> IF n = 1 THEN CounterTTL ELSE counter[key].ttl]
      /\ \A k \in LimitKey : k # key => counter'[k] = counter[k]
      /\ counter' \in [LimitKey -> [n : Nat, ttl : Nat]]
  BY <1>2, <1>3, <1>4, <1>l, ApiAssumption DEF ApiTypeOK, CounterTTL
<1>7. /\ passed' \in [Client -> Nat]
      /\ \A j \in Client : j # i => passed'[j] = passed[j]
      /\ passed'[i] = IF n > RequestsPerMinute \/ m # minute THEN passed[i] ELSE passed[i] + 1
  <2>1. passed' = IF n > RequestsPerMinute \/ m # minute THEN passed ELSE [passed EXCEPT ![i] = @ + 1]
    <3>1. conn[c].key[1] = i /\ conn[c].key[2] = m
      BY <1>i
    <3> HIDE DEF n
    <3>2. CASE n > RequestsPerMinute
      BY <1>i, <3>1, <3>2 DEF RateLimited, n
    <3>3. CASE ~(n > RequestsPerMinute)
      BY <1>i, <3>1, <3>3 DEF RateLimited, n
    <3> QED BY <3>2, <3>3
  <2> HIDE DEF n
  <2>2. CASE n > RequestsPerMinute \/ m # minute
    BY <2>1, <2>2 DEF ApiTypeOK
  <2>3. CASE ~(n > RequestsPerMinute \/ m # minute)
    BY <1>2, <2>1, <2>3 DEF ApiTypeOK
  <2> QED BY <2>2, <2>3
<1>9. UNCHANGED <<second, minute, cache, token, settled>>
  BY DEF RateLimited, time
<1>10. ApiTypeOK'
  BY <1>1, <1>5, <1>7, <1>9, TurnsFrame DEF ApiTypeOK
<1>11. ASSUME NEW j \in Client
       PROVE  /\ passed'[j] <= counter'[<<j, minute>>].n /\ passed'[j] <= RequestsPerMinute
              /\ counter'[<<j, minute>>].n > 0 => counter'[<<j, minute>>].ttl + second >= Minute
  <2>1. /\ passed[j] <= counter[<<j, minute>>].n /\ passed[j] <= RequestsPerMinute
        /\ counter[<<j, minute>>].n > 0 => counter[<<j, minute>>].ttl + second >= Minute
    BY DEF CounterHolds, QuotaPerMinute
  <2>2. CASE j = i /\ m = minute
    <3>1. <<j, minute>> = key
      BY <2>2
    <3>2. counter'[key].n = n /\ counter'[key].ttl + second >= Minute
      BY <1>2, <1>3, <1>5, <2>1, <3>1, ApiAssumption DEF CounterTTL
    <3>3. passed[i] <= counter[key].n /\ passed[i] <= RequestsPerMinute
      BY <2>1, <2>2, <3>1
    <3>4. passed'[i] <= n /\ passed'[i] <= RequestsPerMinute
      BY <1>2, <1>3, <1>7, <2>2, <3>3, ApiAssumption
    <3> QED BY <2>2, <3>1, <3>2, <3>4
  <2>3. CASE ~(j = i /\ m = minute)
    <3>1. <<j, minute>> # key /\ counter'[<<j, minute>>] = counter[<<j, minute>>]
      BY <1>2, <1>5, <1>l, <2>3
    <3>2. passed'[j] = passed[j]
      BY <1>7, <2>3
    <3> QED BY <2>1, <3>1, <3>2
  <2> QED BY <2>2, <2>3
<1>12. CounterHolds' /\ QuotaPerMinute'
  BY <1>9, <1>11 DEF CounterHolds, QuotaPerMinute
<1>13. OldExpires'
  BY <1>1, <1>9, TurnsFrame DEF OldExpires
<1> QED BY <1>10, <1>12, <1>13

\* An old value is written under its key only while nothing there is settled.
LEMMA MarketCachedStep ==
    ASSUME ApiInv, NEW c \in Conn, NEW ok \in BOOLEAN, MarketCached(c, ok)
    PROVE  ApiInv'
<1> USE DEF ApiInv
<1>1. Turns(c)
  BY RespondTurns DEF MarketCached
<1>2. UNCHANGED <<second, minute, counter, token, passed, settled>>
  BY DEF MarketCached, time, ghosts
<1>3. conn[c] \in [at : {"read"}, key : Key, fresh : BOOLEAN]
  <2>1. conn[c] \in Request /\ conn[c].at = "read"
    BY DEF MarketCached, ApiTypeOK
  <2>2. conn[c] \notin CalldataAnswer
    BY <2>1 DEF CalldataAnswer
  <2> QED BY <2>1, <2>2 DEF Request, Idle, Answer
<1> DEFINE k == conn[c].key
           entry == [fresh |-> conn[c].fresh, ttl |-> TTL[k]]
<1>4. k \in Key /\ entry \in [fresh : BOOLEAN, ttl : 1..TTL[k]]
  BY <1>3, ApiAssumption
<1>5. \/ cache' = cache
      \/ cache' = [cache EXCEPT ![k] = entry]
  BY DEF MarketCached
<1>6. DOMAIN cache' = Key /\ \A j \in Key : j # k => cache'[j] = cache[j]
  BY <1>4, <1>5 DEF ApiTypeOK
<1>7. cache'[k] = cache[k] \/ cache'[k] = entry
  BY <1>4, <1>5 DEF ApiTypeOK
<1>8. ApiTypeOK'
  BY <1>1, <1>2, <1>4, <1>6, <1>7, TurnsFrame DEF ApiTypeOK
<1>9. \A j \in Key : HeldOld(j)' => HeldOld(j)
  BY <1>1, TurnsFrame
<1>10. ~entry.fresh => settled[k] + entry.ttl <= TTL[k]
  <2>1. ~entry.fresh => HeldOld(k)
    BY DEF HeldOld, MarketCached
  <2> QED BY <2>1, <1>4, ApiAssumption DEF OldExpires
<1>11. OldExpires'
  BY <1>2, <1>6, <1>7, <1>9, <1>10 DEF OldExpires
<1>12. CounterHolds' /\ QuotaPerMinute'
  BY <1>2 DEF CounterHolds, QuotaPerMinute
<1> QED BY <1>8, <1>11, <1>12

LEMMA LoginStep ==
    ASSUME ApiInv, NEW c \in Conn, NEW recovered \in Address \cup {None},
           NEW claimed \in Address \cup {None}, Login(c, recovered, claimed)
    PROVE  ApiInv'
<1> USE DEF ApiInv
<1>1. Turns(c)
  BY RespondTurns DEF Login
<1>2. UNCHANGED <<second, minute, counter, cache, passed, settled>>
  BY DEF Login, time, ghosts
<1>3. token' \in [Address -> Nat]
  BY ApiAssumption DEF Login, ApiTypeOK
<1>4. ApiTypeOK'
  BY <1>1, <1>2, <1>3, TurnsFrame DEF ApiTypeOK
<1> QED BY <1>1, <1>2, <1>4, TurnsFrame DEF CounterHolds, OldExpires, QuotaPerMinute

\* What was read is old from now on, and so nothing is settled.
LEMMA MarketChangesStep ==
    ASSUME ApiInv, MarketChanges
    PROVE  ApiInv'
<1> USE DEF ApiInv
<1>1. UNCHANGED <<second, minute, counter, token, passed>>
  BY DEF MarketChanges, time
<1>2. \A c \in Conn : conn'[c] \in Request
  <2> SUFFICES ASSUME NEW c \in Conn PROVE conn'[c] \in Request
    OBVIOUS
  <2>1. conn[c] \in Request
    BY DEF ApiTypeOK
  <2>2. CASE conn[c].at = "read"
    <3>1. conn[c] \notin CalldataAnswer
      BY <2>2 DEF CalldataAnswer
    <3>2. conn[c] \in [at : {"read"}, key : Key, fresh : BOOLEAN]
      BY <2>1, <2>2, <3>1 DEF Request, Idle, Answer
    <3>3. conn'[c] = [conn[c] EXCEPT !.fresh = FALSE]
      BY <2>2 DEF MarketChanges
    <3>4. conn'[c] \in [at : {"read"}, key : Key, fresh : BOOLEAN]
      BY <3>2, <3>3
    <3> QED BY <3>4 DEF Request
  <2>3. CASE conn[c].at # "read"
    BY <2>1, <2>3 DEF MarketChanges
  <2> QED BY <2>2, <2>3
<1>3. conn' \in [Conn -> Request]
  BY <1>2 DEF MarketChanges
<1>4. settled' \in [Key -> Nat] /\ \A k \in Key : settled'[k] = 0
  BY DEF MarketChanges
<1>5. \A k \in Key : \/ cache'[k] = None
                     \/ cache'[k] \in [fresh : BOOLEAN, ttl : 1..TTL[k]]
  BY DEF MarketChanges, ApiTypeOK
<1>6. ApiTypeOK'
  BY <1>1, <1>3, <1>4, <1>5 DEF ApiTypeOK, MarketChanges
<1>7. OldExpires'
  BY <1>4, <1>5, ApiAssumption DEF OldExpires
<1> QED BY <1>1, <1>6, <1>7 DEF CounterHolds, QuotaPerMinute

\* A counter with a count has more than a second left unless the minute ends, and an
\* old entry loses the second that its key gains.
LEMMA TickStep ==
    ASSUME ApiInv, Tick
    PROVE  ApiInv'
<1> USE DEF ApiInv
<1>a. second \in 0..(Minute - 1)
  BY DEF ApiTypeOK
<1>b. second' = IF second + 1 = Minute THEN 0 ELSE second + 1
  BY <1>a, NextSecond DEF Tick
<1>1. second' \in 0..(Minute - 1)
  BY <1>a, <1>b, ApiAssumption
<1>m. minute \in MinuteNo /\ minute' \in MinuteNo /\ (second' # 0 => minute' = minute)
  BY ApiAssumption DEF Tick, ApiTypeOK, MinuteNo
<1>c. ASSUME NEW k \in LimitKey
      PROVE  /\ counter[k] \in [n : Nat, ttl : Nat] /\ counter'[k] \in [n : Nat, ttl : Nat]
             /\ counter'[k] = IF counter[k].ttl <= 1 THEN NoCount
                              ELSE [n |-> counter[k].n, ttl |-> counter[k].ttl - 1]
  <2>1. counter[k] \in [n : Nat, ttl : Nat]
    BY DEF ApiTypeOK
  <2>2. counter'[k] = IF counter[k].ttl <= 1 THEN NoCount ELSE [counter[k] EXCEPT !.ttl = counter[k].ttl - 1]
    BY DEF Tick
  <2> QED BY <2>1, <2>2 DEF NoCount
<1>2. ASSUME NEW i \in Client
      PROVE  LET this == counter'[<<i, minute'>>]
             IN /\ passed'[i] \in Nat /\ passed'[i] <= this.n /\ passed'[i] <= RequestsPerMinute
                /\ this.n > 0 => this.ttl + second' >= Minute
  <2> DEFINE old == counter[<<i, minute>>]
             new == counter'[<<i, minute>>]
  <2>0. <<i, minute>> \in LimitKey
    BY <1>m DEF LimitKey
  <2>1. /\ old \in [n : Nat, ttl : Nat] /\ passed[i] \in Nat
        /\ passed[i] <= old.n /\ passed[i] <= RequestsPerMinute
        /\ old.n > 0 => old.ttl + second >= Minute
    BY <2>0 DEF ApiTypeOK, CounterHolds, QuotaPerMinute
  <2>2. new = IF old.ttl <= 1 THEN NoCount ELSE [n |-> old.n, ttl |-> old.ttl - 1]
    BY <1>c, <2>0
  <2>3. passed'[i] = IF second' = 0 THEN 0 ELSE passed[i]
    BY DEF Tick
  <2>4. CASE second' = 0
    <3>1. counter'[<<i, minute'>>] = NoCount
      BY <2>4 DEF Tick
    <3> QED BY <2>3, <2>4, <3>1, ApiAssumption DEF NoCount
  <2> HIDE DEF old
  <2>5. CASE second' # 0 /\ old.ttl <= 1
    <3>1. old.n = 0
      BY <2>1, <2>5, <1>a, <1>b, ApiAssumption
    <3>2. counter'[<<i, minute'>>] = NoCount
      BY <1>m, <2>2, <2>5
    <3> QED BY <3>1, <3>2, <2>1, <2>3, <2>5 DEF NoCount
  <2>6. CASE second' # 0 /\ old.ttl > 1
    <3>1. counter'[<<i, minute'>>] = [n |-> old.n, ttl |-> old.ttl - 1]
      BY <1>m, <2>1, <2>2, <2>6
    <3> QED BY <3>1, <2>1, <2>3, <2>6, <1>a, <1>b, ApiAssumption
  <2> QED BY <2>1, <2>4, <2>5, <2>6
<1>3. CounterHolds' /\ QuotaPerMinute'
  BY <1>2 DEF CounterHolds, QuotaPerMinute
<1>4. conn' = conn /\ \A k \in Key : HeldOld(k)' <=> HeldOld(k)
  BY DEF Tick, HeldOld
<1>5. ASSUME NEW k \in Key
      PROVE  /\ settled'[k] \in Nat /\ (HeldOld(k)' => settled'[k] = 0)
             /\ cache'[k] = None \/ cache'[k] \in [fresh : BOOLEAN, ttl : 1..TTL[k]]
             /\ cache'[k] # None /\ ~cache'[k].fresh => settled'[k] + cache'[k].ttl <= TTL[k]
  <2>1. /\ settled[k] \in Nat /\ TTL[k] \in Nat \ {0}
        /\ HeldOld(k) => settled[k] = 0
        /\ cache[k] = None \/ cache[k] \in [fresh : BOOLEAN, ttl : 1..TTL[k]]
        /\ cache[k] # None /\ ~cache[k].fresh => settled[k] + cache[k].ttl <= TTL[k]
    BY ApiAssumption DEF ApiTypeOK, OldExpires
  <2>2. settled'[k] = IF HeldOld(k) THEN 0
                      ELSE IF settled[k] < TTL[k] THEN settled[k] + 1 ELSE settled[k]
    BY DEF Tick
  <2>3. cache'[k] = IF cache[k] = None \/ cache[k].ttl = 1 THEN None
                    ELSE [cache[k] EXCEPT !.ttl = cache[k].ttl - 1]
    BY DEF Tick
  <2>4. CASE cache[k] = None \/ cache[k].ttl = 1
    BY <2>1, <2>2, <2>3, <2>4, <1>4
  <2>5. CASE cache[k] # None /\ cache[k].ttl # 1
    <3>1. cache'[k] = [fresh |-> cache[k].fresh, ttl |-> cache[k].ttl - 1]
      BY <2>1, <2>3, <2>5
    <3>2. cache'[k] \in [fresh : BOOLEAN, ttl : 1..TTL[k]]
      BY <2>1, <2>5, <3>1
    <3>3. settled'[k] \in Nat /\ settled'[k] <= settled[k] + 1 /\ (HeldOld(k)' => settled'[k] = 0)
      BY <2>1, <2>2, <1>4
    <3>4. cache'[k].fresh = cache[k].fresh /\ cache'[k].ttl = cache[k].ttl - 1
      BY <3>1
    <3>5. ~cache'[k].fresh => settled'[k] + cache'[k].ttl <= TTL[k]
      BY <2>1, <2>5, <3>3, <3>4
    <3> QED BY <3>2, <3>3, <3>5
  <2> QED BY <2>4, <2>5
<1>6. OldExpires'
  BY <1>5 DEF OldExpires
<1>7. token' \in [Address -> Nat]
  BY DEF Tick, Left, ApiTypeOK
<1>8. ApiTypeOK'
  <2>1. counter' \in [LimitKey -> [n : Nat, ttl : Nat]] /\ settled' \in [Key -> Nat]
    BY <1>c, <1>5 DEF Tick
  <2>2. passed' \in [Client -> Nat]
    BY DEF Tick, ApiTypeOK
  <2>3. DOMAIN cache' = Key
    BY DEF Tick
  <2> QED BY <1>1, <1>m, <1>4, <1>5, <1>7, <2>1, <2>2, <2>3 DEF ApiTypeOK
<1> QED BY <1>3, <1>6, <1>8

LEMMA ApiInvStep == ApiInv /\ [ApiNext]_vars => ApiInv'
<1> SUFFICES ASSUME ApiInv, [ApiNext]_vars PROVE ApiInv'
  OBVIOUS
<1>1. CASE UNCHANGED vars
  BY <1>1 DEF vars, time, ghosts, ApiInv, ApiTypeOK, CounterHolds, OldExpires, HeldOld, QuotaPerMinute
<1>2. CASE MarketChanges
  BY <1>2, MarketChangesStep
<1>3. CASE Tick
  BY <1>3, TickStep
<1>4. ASSUME NEW c \in Conn, OnlyConn(c)
      PROVE  ApiInv'
  <2>1. Turns(c) /\ UNCHANGED <<second, minute, counter, cache, token, passed, settled>>
    BY <1>4, OnlyConnTurns DEF ApiInv
  <2>2. conn' \in [Conn -> Request] /\ \A k \in Key : HeldOld(k)' => HeldOld(k)
    BY <2>1, TurnsFrame DEF ApiInv
  <2> QED BY <2>1, <2>2 DEF ApiInv, ApiTypeOK, CounterHolds, OldExpires, QuotaPerMinute
<1>5. ASSUME NEW c \in Conn, Serve(c)
      PROVE  ApiInv'
  <2>1. \/ OnlyConn(c)
        \/ RateLimited(c)
        \/ \E ok \in BOOLEAN : MarketCached(c, ok)
        \/ \E recovered, claimed \in Address \cup {None} : Login(c, recovered, claimed)
    BY <1>5 DEF Serve, OnlyConn
  <2> QED BY <2>1, <1>4, RateLimitedStep, MarketCachedStep, LoginStep
<1> QED BY <1>1, <1>2, <1>3, <1>5 DEF ApiNext

\* The counters, the cache and the requests in flight stay as ApiInv says in every
\* behaviour of the API.
THEOREM ApiInvariant == ApiSpec => []ApiInv
BY ApiInvInit, ApiInvStep, PTL DEF ApiSpec

\* RateLimitMiddleware lets at most RequestsPerMinute of a client's requests through
\* among those that get their key and are counted in one minute, whatever the limit,
\* the length of a minute and the connections, and however long others are delayed
\* between their key and their count.
THEOREM QuotaIsKept == ApiSpec => []QuotaPerMinute
<1>1. ApiInv => QuotaPerMinute
  BY DEF ApiInv
<1> QED BY <1>1, ApiInvariant, PTL

\* What ListMarkets and GetMarketDetail answer from the cache is at most a TTL old
\* once nobody in flight holds an old value, however often it is read or rewritten.
THEOREM StaleValuesExpire == ApiSpec => []StaleAtMostTTL
<1>1. ApiInv => StaleAtMostTTL
  BY ApiAssumption DEF ApiInv, ApiTypeOK, OldExpires, StaleAtMostTTL
<1> QED BY <1>1, ApiInvariant, PTL
-----------------------------------------------------------------------------
\* The zeros make begins with.
Zeros(n) == [i \in 1..n |-> 0]

LEMMA BytesSeq ==
    ASSUME NEW n \in Nat, NEW f \in [1..n -> Nat]
    PROVE  f \in Seq(Nat) /\ Len(f) = n
OBVIOUS

LEMMA ZerosSeq ==
    ASSUME NEW n \in Nat
    PROVE  /\ Zeros(n) \in Seq(Nat) /\ Len(Zeros(n)) = n
           /\ \A i \in 1..n : Zeros(n)[i] = 0
BY DEF Zeros

LEMMA NoZeros == Zeros(0) = <<>>
<1>1. Zeros(0) \in Seq(Nat) /\ Len(Zeros(0)) = 0
  BY ZerosSeq
<1> QED BY <1>1, EmptySeq

LEMMA PaddedWordSeq ==
    ASSUME NEW b \in Seq(Nat), Len(b) <= WordLen
    PROVE  /\ PaddedWord(b) \in Seq(Nat) /\ Len(PaddedWord(b)) = WordLen
           /\ \A i \in 1..WordLen :
                PaddedWord(b)[i] = IF i <= WordLen - Len(b) THEN 0 ELSE b[i - (WordLen - Len(b))]
<1> DEFINE zeros == Zeros(WordLen - Len(b))
<1>1. WordLen - Len(b) \in Nat
  BY CalldataAssumption
<1>2. /\ zeros \in Seq(Nat) /\ Len(zeros) = WordLen - Len(b)
      /\ \A i \in 1..(WordLen - Len(b)) : zeros[i] = 0
  BY <1>1, ZerosSeq
<1>3. PaddedWord(b) = zeros \o b
  BY DEF PaddedWord, Zeros
<1> HIDE DEF zeros
<1>4. /\ zeros \o b \in Seq(Nat) /\ Len(zeros \o b) = Len(zeros) + Len(b)
      /\ \A i \in 1..(Len(zeros) + Len(b)) :
           (zeros \o b)[i] = IF i <= Len(zeros) THEN zeros[i] ELSE b[i - Len(zeros)]
  BY <1>2, ConcatProperties
<1>5. PICK m \in Nat : m = WordLen - Len(b) /\ m + Len(b) = WordLen
  BY <1>1, CalldataAssumption
<1>6. PICK w \in Seq(Nat) :
        /\ PaddedWord(b) = w /\ Len(w) = WordLen
        /\ \A i \in 1..WordLen : w[i] = IF i <= m THEN zeros[i] ELSE b[i - m]
  <2>1. PICK w : w = zeros \o b
    OBVIOUS
  <2> QED BY <1>2, <1>3, <1>4, <1>5, <2>1
<1>7. \A i \in 1..WordLen : i <= m => zeros[i] = 0
  BY <1>2, <1>5, CalldataAssumption
<1>8. \A i \in 1..WordLen : w[i] = IF i <= m THEN 0 ELSE b[i - m]
  BY <1>6, <1>7
<1> QED BY <1>5, <1>6, <1>8

\* What copy writes is the bytes it copies, and it changes nothing else.
LEMMA CopySeq ==
    ASSUME NEW data \in Seq(Nat), NEW b \in Seq(Nat), NEW from \in Int
    PROVE  /\ Copy(data, from, from + Len(b), b) \in Seq(Nat) /\ Len(Copy(data, from, from + Len(b), b)) = Len(data)
           /\ \A i \in 1..Len(data) :
                Copy(data, from, from + Len(b), b)[i] = IF i > from /\ i <= from + Len(b) THEN b[i - from] ELSE data[i]
<1> DEFINE d == Copy(data, from, from + Len(b), b)
<1>1. Len(data) \in Nat /\ Len(b) \in Nat
  OBVIOUS
<1>2. \A i \in 1..Len(data) : d[i] = IF i > from /\ i <= from + Len(b) THEN b[i - from] ELSE data[i]
  BY <1>1 DEF Copy
<1>3. \A i \in 1..Len(data) : d[i] \in Nat
  <2> HIDE DEF d
  <2> SUFFICES ASSUME NEW i \in 1..Len(data) PROVE d[i] \in Nat
    OBVIOUS
  <2>1. data[i] \in Nat
    BY ElementOfSeq
  <2>2. ASSUME i > from, i <= from + Len(b)
        PROVE  b[i - from] \in Nat
    <3>1. i - from \in 1..Len(b)
      BY <1>1, <2>2
    <3> QED BY <3>1, ElementOfSeq
  <2> QED BY <1>2, <2>1, <2>2
<1>4. d \in [1..Len(data) -> Nat]
  BY <1>3 DEF Copy
<1> HIDE DEF d
<1>5. d \in Seq(Nat) /\ Len(d) = Len(data)
  BY <1>1, <1>4, BytesSeq
<1> QED BY <1>2, <1>5 DEF d

\* copy at the right of the first word that is still zero: the calldata grows by
\* that word, and what is before and behind it stays.
LEMMA PutWord ==
    ASSUME NEW p \in Seq(Nat), NEW n \in Nat, n >= WordLen, NEW b \in Seq(Nat), Len(b) <= WordLen,
           NEW from \in Int, from + Len(b) = Len(p) + WordLen
    PROVE  Copy(p \o Zeros(n), from, from + Len(b), b) = (p \o PaddedWord(b)) \o Zeros(n - WordLen)
<1> DEFINE W == WordLen
           data == p \o Zeros(n)
           d == Copy(data, from, from + Len(b), b)
           pb == PaddedWord(b)
           q == p \o pb
           e == q \o Zeros(n - W)
<1>0. W \in Nat /\ Len(p) \in Nat /\ Len(b) \in Nat
  BY CalldataAssumption
<1>1. /\ data \in Seq(Nat) /\ Len(data) = Len(p) + n
      /\ \A i \in 1..(Len(p) + n) : data[i] = IF i <= Len(p) THEN p[i] ELSE 0
  <2> DEFINE z == Zeros(n)
  <2>1. z \in Seq(Nat) /\ Len(z) = n /\ \A i \in 1..n : z[i] = 0
    BY ZerosSeq
  <2> HIDE DEF z
  <2>2. /\ p \o z \in Seq(Nat) /\ Len(p \o z) = Len(p) + Len(z)
        /\ \A i \in 1..(Len(p) + Len(z)) : (p \o z)[i] = IF i <= Len(p) THEN p[i] ELSE z[i - Len(p)]
    BY <2>1, ConcatProperties
  <2>3. \A i \in 1..(Len(p) + n) : i <= Len(p) \/ i - Len(p) \in 1..n
    BY <1>0
  <2>4. p \o z \in Seq(Nat) /\ Len(p \o z) = Len(p) + n
    BY <2>1, <2>2
  <2>5. \A i \in 1..(Len(p) + n) : (p \o z)[i] = IF i <= Len(p) THEN p[i] ELSE 0
    BY <2>1, <2>2, <2>3
  <2> QED BY <2>4, <2>5 DEF z
<1> HIDE DEF data
<1>2. /\ d \in Seq(Nat) /\ Len(d) = Len(p) + n
      /\ \A i \in 1..(Len(p) + n) : d[i] = IF i > from /\ i <= from + Len(b) THEN b[i - from] ELSE data[i]
  <2>1. /\ d \in Seq(Nat) /\ Len(d) = Len(data)
        /\ \A i \in 1..Len(data) : d[i] = IF i > from /\ i <= from + Len(b) THEN b[i - from] ELSE data[i]
    BY <1>1, CopySeq
  <2> QED BY <1>1, <2>1
<1>3. /\ pb \in Seq(Nat) /\ Len(pb) = W
      /\ \A i \in 1..W : pb[i] = IF i <= W - Len(b) THEN 0 ELSE b[i - (W - Len(b))]
  BY PaddedWordSeq
<1> HIDE DEF d, pb
<1>4. /\ q \in Seq(Nat) /\ Len(q) = Len(p) + W
      /\ \A i \in 1..(Len(p) + W) : q[i] = IF i <= Len(p) THEN p[i] ELSE pb[i - Len(p)]
  <2>1. /\ p \o pb \in Seq(Nat) /\ Len(p \o pb) = Len(p) + Len(pb)
        /\ \A i \in 1..(Len(p) + Len(pb)) : (p \o pb)[i] = IF i <= Len(p) THEN p[i] ELSE pb[i - Len(p)]
    BY <1>3, ConcatProperties
  <2> QED BY <2>1, <1>3
<1> HIDE DEF q
<1>5. /\ e \in Seq(Nat) /\ Len(e) = Len(p) + n
      /\ \A i \in 1..(Len(p) + n) : e[i] = IF i <= Len(p) + W THEN q[i] ELSE 0
  <2> DEFINE z == Zeros(n - W)
  <2>0. n - W \in Nat
    BY <1>0
  <2>1. z \in Seq(Nat) /\ Len(z) = n - W /\ \A i \in 1..(n - W) : z[i] = 0
    BY <2>0, ZerosSeq
  <2> HIDE DEF z
  <2>2. /\ q \o z \in Seq(Nat) /\ Len(q \o z) = Len(q) + Len(z)
        /\ \A i \in 1..(Len(q) + Len(z)) : (q \o z)[i] = IF i <= Len(q) THEN q[i] ELSE z[i - Len(q)]
    BY <2>1, <1>4, ConcatProperties
  <2>3. Len(q) + Len(z) = Len(p) + n
    BY <1>0, <1>4, <2>1
  <2>4. \A i \in 1..(Len(p) + n) : i <= Len(p) + W \/ i - Len(q) \in 1..(n - W)
    BY <1>0, <1>4
  <2> QED BY <1>4, <2>1, <2>2, <2>3, <2>4 DEF z
<1> HIDE DEF e
<1>6. ASSUME NEW i \in 1..(Len(p) + n)
      PROVE  d[i] = e[i]
  <2>1. CASE i <= Len(p)
    <3>1. /\ ~(i > from /\ i <= from + Len(b))
          /\ i \in 1..(Len(p) + W) /\ i <= Len(p) + W
      BY <1>0, <2>1
    <3>2. d[i] = data[i] /\ data[i] = p[i]
      BY <1>1, <1>2, <2>1, <3>1
    <3>3. e[i] = q[i] /\ q[i] = p[i]
      BY <1>4, <1>5, <2>1, <3>1
    <3> QED BY <3>2, <3>3
  <2>2. CASE i > Len(p) /\ i <= Len(p) + W
    <3>1. i - Len(p) \in 1..W
      BY <1>0, <2>2
    <3>2. e[i] = pb[i - Len(p)]
      BY <1>0, <1>4, <1>5, <2>2
    <3>3. CASE i <= from
      <4>1. d[i] = 0
        BY <1>0, <1>1, <1>2, <2>2, <3>3
      <4>2. i - Len(p) <= W - Len(b)
        BY <1>0, <3>3
      <4> QED BY <3>1, <3>2, <4>1, <4>2, <1>3
    <3>4. CASE i > from
      <4>1. d[i] = b[i - from]
        BY <1>0, <1>2, <2>2, <3>4
      <4>2. ~(i - Len(p) <= W - Len(b)) /\ (i - Len(p)) - (W - Len(b)) = i - from
        BY <1>0, <3>4
      <4> QED BY <3>1, <3>2, <4>1, <4>2, <1>3
    <3> QED BY <1>0, <3>3, <3>4
  <2>3. CASE i > Len(p) + W
    <3>1. d[i] = 0
      <4>1. ~(i > from /\ i <= from + Len(b)) /\ ~(i <= Len(p))
        BY <1>0, <2>3
      <4> QED BY <4>1, <1>1, <1>2
    <3>2. e[i] = 0
      BY <1>0, <1>5, <2>3
    <3> QED BY <3>1, <3>2
  <2> QED BY <1>0, <2>1, <2>2, <2>3
<1>7. d = e
  BY <1>2, <1>5, <1>6, SeqEqual
<1> QED BY <1>7 DEF d, e, q, pb, data

LEMMA CatSeq ==
    ASSUME NEW p \in Seq(Nat), NEW q \in Seq(Nat)
    PROVE  p \o q \in Seq(Nat) /\ Len(p \o q) = Len(p) + Len(q)
BY ConcatProperties

\* The calldata's length with k words.
WordEnd(k) == SelectorLen + k * WordLen

\* The next word of the calldata p, an address or an amount, where the code puts it.
LEMMA PutNextWord ==
    ASSUME NEW p \in Seq(Nat), NEW k \in Nat, Len(p) + WordLen = WordEnd(k),
           NEW b \in Seq(Nat), Len(b) <= WordLen
    PROVE  \A n \in Nat : n >= WordLen =>
             /\ PutAmount(p \o Zeros(n), k, b) = (p \o PaddedWord(b)) \o Zeros(n - WordLen)
             /\ Len(b) = AddressLen =>
                  PutAddress(p \o Zeros(n), k, b) = (p \o PaddedWord(b)) \o Zeros(n - WordLen)
<1> DEFINE from == AmountStart(k, b)
<1>2. SelectorLen \in Nat /\ WordLen \in Nat /\ Len(b) \in Nat
  BY CalldataAssumption
<1>1. from = WordEnd(k) - Len(b)
  <2>1. k * WordLen \in Nat
    BY <1>2
  <2>2. from = SelectorLen + (k * WordLen - Len(b)) /\ WordEnd(k) = SelectorLen + k * WordLen
    BY DEF AmountStart, WordEnd
  <2> HIDE DEF from
  <2> QED BY <1>2, <2>1, <2>2
<1> HIDE DEF from
<1>3. /\ from \in Int /\ from + Len(b) = Len(p) + WordLen
      /\ WordEnd(k) = from + Len(b)
  BY <1>1, <1>2
<1>4. \A n \in Nat : n >= WordLen =>
        Copy(p \o Zeros(n), from, from + Len(b), b) = (p \o PaddedWord(b)) \o Zeros(n - WordLen)
  BY <1>3, PutWord
<1>5. \A data : PutAmount(data, k, b) = Copy(data, from, from + Len(b), b)
  BY <1>3 DEF PutAmount, from, WordEnd
<1>6. ASSUME Len(b) = AddressLen
      PROVE  \A data : PutAddress(data, k, b) = Copy(data, from, from + Len(b), b)
  <2>1. \A data : PutAddress(data, k, b) = Copy(data, WordEnd(k) - AddressLen, WordEnd(k), b)
    <3>1. k * WordLen \in Nat /\ AddressLen \in Nat
      BY <1>2, CalldataAssumption
    <3>2. SelectorLen + (k * WordLen - AddressLen) = (SelectorLen + k * WordLen) - AddressLen
      BY <1>2, <3>1
    <3> QED BY <3>2 DEF PutAddress, WordEnd
  <2> QED BY <1>1, <1>3, <1>6, <2>1
<1> QED BY <1>4, <1>5, <1>6

\* BuildTransaction: two words behind the selector, neither reaching into the other.
LEMMA TransactionWords ==
    ASSUME NEW s \in Seq(Nat), Len(s) = SelectorLen,
           NEW asset \in Seq(Nat), Len(asset) = AddressLen,
           NEW amount \in Seq(Nat), Len(amount) <= WordLen
    PROVE  BuildTransaction(s, asset, amount) = s \o PaddedWord(asset) \o PaddedWord(amount)
<1> DEFINE pa == PaddedWord(asset)
           pm == PaddedWord(amount)
           d1 == s \o pa
           d2 == d1 \o pm
<1>0. /\ WordLen \in Nat /\ SelectorLen \in Nat /\ AddressLen <= WordLen
      /\ 2 * WordLen \in Nat /\ 2 * WordLen >= WordLen /\ WordLen >= WordLen
      /\ 2 * WordLen - WordLen = WordLen /\ WordLen - WordLen = 0
  BY CalldataAssumption
<1>1. pa \in Seq(Nat) /\ Len(pa) = WordLen /\ pm \in Seq(Nat) /\ Len(pm) = WordLen
  BY <1>0, PaddedWordSeq
<1> HIDE DEF pa, pm
<1>2. /\ d1 \in Seq(Nat) /\ Len(d1) = SelectorLen + WordLen
  BY <1>1, CatSeq
<1> HIDE DEF d1
<1>3. d2 \in Seq(Nat)
  BY <1>1, <1>2, CatSeq
<1>4. PutAddress(Blank(s, 2), 1, asset) = d1 \o Zeros(WordLen)
  <2>1. Len(s) + WordLen = WordEnd(1) /\ Len(asset) <= WordLen
    BY <1>0 DEF WordEnd
  <2>2. \A n \in Nat : n >= WordLen => PutAddress(s \o Zeros(n), 1, asset) = d1 \o Zeros(n - WordLen)
    BY <2>1, PutNextWord DEF d1, pa
  <2>3. Blank(s, 2) = s \o Zeros(2 * WordLen)
    BY DEF Blank, Zeros
  <2> QED BY <1>0, <2>2, <2>3
<1>5. PutAmount(d1 \o Zeros(WordLen), 2, amount) = d2 \o Zeros(0)
  <2>1. Len(d1) + WordLen = WordEnd(2)
    BY <1>0, <1>2 DEF WordEnd
  <2>2. \A n \in Nat : n >= WordLen => PutAmount(d1 \o Zeros(n), 2, amount) = d2 \o Zeros(n - WordLen)
    BY <1>2, <2>1, PutNextWord DEF pm
  <2> QED BY <1>0, <2>2
<1>6. d2 \o Zeros(0) = d2
  BY <1>3, NoZeros, ConcatEmptySeq
<1> QED BY <1>4, <1>5, <1>6 DEF BuildTransaction, d1, pa, pm

\* BuildLiquidationCalldata's last word: the flag is its last byte.
LEMMA FlagWord ==
    ASSUME NEW p \in Seq(Nat), Len(p) = SelectorLen + 4 * WordLen
    PROVE  /\ p \o Zeros(WordLen) = p \o PaddedWord(<<>>)
           /\ [p \o Zeros(WordLen) EXCEPT ![SelectorLen + 5 * WordLen] = 1] = p \o PaddedWord(<<1>>)
<1> DEFINE z == Zeros(WordLen)
           e == PaddedWord(<<>>)
           o == PaddedWord(<<1>>)
           last == SelectorLen + 5 * WordLen
           d == p \o z
           f == [d EXCEPT ![last] = 1]
           g == p \o o
<1>0. WordLen \in Nat /\ WordLen > 0 /\ SelectorLen \in Nat
  BY CalldataAssumption
<1>1. z \in Seq(Nat) /\ Len(z) = WordLen /\ \A i \in 1..WordLen : z[i] = 0
  BY <1>0, ZerosSeq
<1>2. e \in Seq(Nat) /\ Len(e) = WordLen /\ \A i \in 1..WordLen : e[i] = 0
  <2>1. <<>> \in Seq(Nat) /\ Len(<<>>) = 0 /\ Len(<<>>) <= WordLen
    BY <1>0
  <2>2. /\ e \in Seq(Nat) /\ Len(e) = WordLen
        /\ \A i \in 1..WordLen : e[i] = IF i <= WordLen - Len(<<>>) THEN 0 ELSE <<>>[i - (WordLen - Len(<<>>))]
    BY <1>0, <2>1, PaddedWordSeq
  <2> HIDE DEF e
  <2> QED BY <1>0, <2>1, <2>2
<1>3. o \in Seq(Nat) /\ Len(o) = WordLen /\ \A i \in 1..WordLen : o[i] = IF i = WordLen THEN 1 ELSE 0
  <2>1. <<1>> \in Seq(Nat) /\ Len(<<1>>) = 1 /\ Len(<<1>>) <= WordLen
    BY <1>0
  <2>2. /\ o \in Seq(Nat) /\ Len(o) = WordLen
        /\ \A i \in 1..WordLen : o[i] = IF i <= WordLen - Len(<<1>>) THEN 0 ELSE <<1>>[i - (WordLen - Len(<<1>>))]
    BY <1>0, <2>1, PaddedWordSeq
  <2> HIDE DEF o
  <2>3. \A i \in 1..WordLen : IF i = WordLen THEN i - (WordLen - 1) = 1 ELSE i <= WordLen - 1
    BY <1>0
  <2> QED BY <1>0, <2>1, <2>2, <2>3
<1> HIDE DEF z, e, o
<1>4. z = e
  BY <1>1, <1>2, SeqEqual
<1>5. /\ d \in Seq(Nat) /\ Len(d) = Len(p) + WordLen
      /\ \A i \in 1..(Len(p) + WordLen) : d[i] = IF i <= Len(p) THEN p[i] ELSE z[i - Len(p)]
  <2>1. /\ p \o z \in Seq(Nat) /\ Len(p \o z) = Len(p) + Len(z)
        /\ \A i \in 1..(Len(p) + Len(z)) : (p \o z)[i] = IF i <= Len(p) THEN p[i] ELSE z[i - Len(p)]
    BY <1>1, ConcatProperties
  <2> QED BY <1>1, <2>1
<1>6. /\ g \in Seq(Nat) /\ Len(g) = Len(p) + WordLen
      /\ \A i \in 1..(Len(p) + WordLen) : g[i] = IF i <= Len(p) THEN p[i] ELSE o[i - Len(p)]
  <2>1. /\ p \o o \in Seq(Nat) /\ Len(p \o o) = Len(p) + Len(o)
        /\ \A i \in 1..(Len(p) + Len(o)) : (p \o o)[i] = IF i <= Len(p) THEN p[i] ELSE o[i - Len(p)]
    BY <1>3, ConcatProperties
  <2> QED BY <1>3, <2>1
<1> HIDE DEF d, g
<1>7. last = Len(p) + WordLen /\ last \in 1..Len(d) /\ Len(p) \in Nat
  BY <1>0, <1>5
<1> HIDE DEF last
<1>8. /\ f \in Seq(Nat) /\ Len(f) = Len(p) + WordLen
      /\ \A i \in 1..(Len(p) + WordLen) : f[i] = IF i = last THEN 1 ELSE d[i]
  <2>1. /\ [d EXCEPT ![last] = 1] \in Seq(Nat) /\ Len([d EXCEPT ![last] = 1]) = Len(d)
        /\ \A j \in 1..Len(d) : [d EXCEPT ![last] = 1][j] = IF j = last THEN 1 ELSE d[j]
    BY <1>5, <1>7, ExceptSeq
  <2> QED BY <1>5, <2>1
<1> HIDE DEF f
<1>9. ASSUME NEW i \in 1..(Len(p) + WordLen)
      PROVE  f[i] = g[i]
  <2>1. CASE i <= Len(p)
    <3>1. i # last
      BY <1>0, <1>7, <2>1
    <3> QED BY <3>1, <2>1, <1>5, <1>6, <1>8
  <2>2. CASE i > Len(p)
    <3>1. ~(i <= Len(p)) /\ i - Len(p) \in 1..WordLen /\ (i = last <=> i - Len(p) = WordLen)
      BY <1>0, <1>7, <2>2
    <3>2. g[i] = IF i = last THEN 1 ELSE 0
      BY <3>1, <1>3, <1>6
    <3>3. d[i] = 0
      BY <3>1, <1>1, <1>5
    <3> QED BY <3>2, <3>3, <1>8
  <2> QED BY <1>7, <2>1, <2>2
<1>10. f = g
  BY <1>6, <1>8, <1>9, SeqEqual
<1> QED BY <1>4, <1>10 DEF z, e, o, d, f, g, last

LiquidationReads(s, a, b, c, m, flag) ==
    BuildLiquidationCalldata(s, a, b, c, m, flag)
    = s \o PaddedWord(a) \o PaddedWord(b) \o PaddedWord(c) \o PaddedWord(m)
        \o PaddedWord(IF flag THEN <<1>> ELSE <<>>)

\* BuildLiquidationCalldata: three addresses, the amount and the flag.
LEMMA LiquidationWords ==
    ASSUME NEW s \in Seq(Nat), Len(s) = SelectorLen,
           NEW a \in Seq(Nat), Len(a) = AddressLen, NEW b \in Seq(Nat), Len(b) = AddressLen,
           NEW c \in Seq(Nat), Len(c) = AddressLen,
           NEW m \in Seq(Nat), Len(m) <= WordLen, NEW flag \in BOOLEAN
    PROVE  LiquidationReads(s, a, b, c, m, flag)
<1> DEFINE pa == PaddedWord(a)
           pb == PaddedWord(b)
           pc == PaddedWord(c)
           pm == PaddedWord(m)
           d1 == s \o pa
           d2 == d1 \o pb
           d3 == d2 \o pc
           d4 == d3 \o pm
           W == WordLen
<1>0. /\ W \in Nat /\ SelectorLen \in Nat /\ AddressLen <= W
      /\ 2 * W \in Nat /\ 3 * W \in Nat /\ 4 * W \in Nat /\ 5 * W \in Nat
      /\ W - W = 0 /\ 2 * W - W = W /\ 3 * W - W = 2 * W /\ 4 * W - W = 3 * W /\ 5 * W - W = 4 * W
      /\ 5 * W >= W /\ 4 * W >= W /\ 3 * W >= W /\ 2 * W >= W
  BY CalldataAssumption
<1>l. Len(a) <= WordLen /\ Len(b) <= WordLen /\ Len(c) <= WordLen
  BY <1>0
<1>1. /\ pa \in Seq(Nat) /\ Len(pa) = W /\ pb \in Seq(Nat) /\ Len(pb) = W
      /\ pc \in Seq(Nat) /\ Len(pc) = W /\ pm \in Seq(Nat) /\ Len(pm) = W
  BY <1>l, PaddedWordSeq
<1> HIDE DEF pa, pb, pc, pm
<1>2. d1 \in Seq(Nat) /\ Len(d1) = SelectorLen + W
  <2>1. s \o pa \in Seq(Nat) /\ Len(s \o pa) = Len(s) + Len(pa)
    BY <1>1, CatSeq
  <2> QED BY <1>0, <1>1, <2>1
<1> HIDE DEF d1
<1>3. d2 \in Seq(Nat) /\ Len(d2) = SelectorLen + 2 * W
  <2>1. d1 \o pb \in Seq(Nat) /\ Len(d1 \o pb) = Len(d1) + Len(pb)
    BY <1>1, <1>2, CatSeq
  <2> QED BY <1>0, <1>1, <1>2, <2>1
<1> HIDE DEF d2
<1>4. d3 \in Seq(Nat) /\ Len(d3) = SelectorLen + 3 * W
  <2>1. d2 \o pc \in Seq(Nat) /\ Len(d2 \o pc) = Len(d2) + Len(pc)
    BY <1>1, <1>3, CatSeq
  <2> QED BY <1>0, <1>1, <1>3, <2>1
<1> HIDE DEF d3
<1>5. d4 \in Seq(Nat) /\ Len(d4) = SelectorLen + 4 * W
  <2>1. d3 \o pm \in Seq(Nat) /\ Len(d3 \o pm) = Len(d3) + Len(pm)
    BY <1>1, <1>4, CatSeq
  <2> QED BY <1>0, <1>1, <1>4, <2>1
<1> HIDE DEF d4
<1>6. PutAddress(Blank(s, 5), 1, a) = d1 \o Zeros(4 * W)
  <2>1. Len(s) + WordLen = WordEnd(1)
    BY <1>0 DEF WordEnd
  <2>2. \A n \in Nat : n >= WordLen => PutAddress(s \o Zeros(n), 1, a) = d1 \o Zeros(n - WordLen)
    BY <1>l, <2>1, PutNextWord DEF d1, pa
  <2>3. Blank(s, 5) = s \o Zeros(5 * W)
    BY DEF Blank, Zeros
  <2> QED BY <1>0, <2>2, <2>3
<1>7. PutAddress(d1 \o Zeros(4 * W), 2, b) = d2 \o Zeros(3 * W)
  <2>1. Len(d1) + WordLen = WordEnd(2)
    BY <1>0, <1>2 DEF WordEnd
  <2>2. \A n \in Nat : n >= WordLen => PutAddress(d1 \o Zeros(n), 2, b) = d2 \o Zeros(n - WordLen)
    BY <1>l, <1>2, <2>1, PutNextWord DEF d2, pb
  <2> QED BY <1>0, <2>2
<1>8. PutAddress(d2 \o Zeros(3 * W), 3, c) = d3 \o Zeros(2 * W)
  <2>1. Len(d2) + WordLen = WordEnd(3)
    BY <1>0, <1>3 DEF WordEnd
  <2>2. \A n \in Nat : n >= WordLen => PutAddress(d2 \o Zeros(n), 3, c) = d3 \o Zeros(n - WordLen)
    BY <1>l, <1>3, <2>1, PutNextWord DEF d3, pc
  <2> QED BY <1>0, <2>2
<1>9. PutAmount(d3 \o Zeros(2 * W), 4, m) = d4 \o Zeros(W)
  <2>1. Len(d3) + WordLen = WordEnd(4)
    BY <1>0, <1>4 DEF WordEnd
  <2>2. \A n \in Nat : n >= WordLen => PutAmount(d3 \o Zeros(n), 4, m) = d4 \o Zeros(n - WordLen)
    BY <1>4, <2>1, PutNextWord DEF d4, pm
  <2> QED BY <1>0, <2>2
<1>10. BuildLiquidationCalldata(s, a, b, c, m, flag)
       = IF flag THEN [d4 \o Zeros(WordLen) EXCEPT ![SelectorLen + 5 * WordLen] = 1] ELSE d4 \o Zeros(WordLen)
  BY <1>6, <1>7, <1>8, <1>9 DEF BuildLiquidationCalldata
<1>11. BuildLiquidationCalldata(s, a, b, c, m, flag) = d4 \o PaddedWord(IF flag THEN <<1>> ELSE <<>>)
  <2>1. /\ d4 \o Zeros(WordLen) = d4 \o PaddedWord(<<>>)
        /\ [d4 \o Zeros(WordLen) EXCEPT ![SelectorLen + 5 * WordLen] = 1] = d4 \o PaddedWord(<<1>>)
    BY <1>5, FlagWord
  <2> QED BY <1>10, <2>1
<1> QED BY <1>11 DEF LiquidationReads, d4, d3, d2, d1, pa, pb, pc, pm

\* common.HexToAddress always makes an address, and a well formed asset is its own.
LEMMA AddressOfText ==
    ASSUME NEW text, text.bytes \in Seq(Nat)
    PROVE  /\ HexToAddress(text) \in Seq(Nat) /\ Len(HexToAddress(text)) = AddressLen
           /\ Len(text.bytes) = AddressLen => HexToAddress(text) = text.bytes
<1> DEFINE b == text.bytes
           h == HexToAddress(text)
<1>0. AddressLen \in Nat /\ Len(b) \in Nat
  BY CalldataAssumption
<1>1. ASSUME NEW i \in 1..AddressLen
      PROVE  h[i] \in Nat /\ (Len(b) = AddressLen => h[i] = b[i])
  <2>1. h[i] = IF i + Len(b) - AddressLen >= 1 THEN b[i + Len(b) - AddressLen] ELSE 0
    BY DEF HexToAddress
  <2>2. CASE i + Len(b) - AddressLen >= 1
    <3>1. i + Len(b) - AddressLen \in 1..Len(b) /\ (Len(b) = AddressLen => i + Len(b) - AddressLen = i)
      BY <1>0, <2>2
    <3>2. b[i + Len(b) - AddressLen] \in Nat
      BY <3>1, ElementOfSeq
    <3> QED BY <2>1, <2>2, <3>1, <3>2
  <2>3. CASE ~(i + Len(b) - AddressLen >= 1)
    BY <1>0, <2>1, <2>3
  <2> QED BY <2>2, <2>3
<1>2. h \in [1..AddressLen -> Nat]
  BY <1>1 DEF HexToAddress
<1> HIDE DEF h
<1>3. h \in Seq(Nat) /\ Len(h) = AddressLen
  BY <1>0, <1>2, BytesSeq
<1>4. Len(b) = AddressLen => h = b
  BY <1>1, <1>3, SeqEqual
<1> QED BY <1>3, <1>4 DEF h

\* What CalldataFaithful says of calldata, the calldata of a liquidation apart.
Readable(data, s, address, bytes) ==
    /\ data = s \o PaddedWord(address) \o PaddedWord(bytes)
    /\ \A x \in Asset, flag \in BOOLEAN :
         BuildLiquidationCalldata(s, HexToAddress(x), address, HexToAddress(x), bytes, flag)
         = s \o PaddedWord(HexToAddress(x)) \o PaddedWord(address) \o PaddedWord(HexToAddress(x))
           \o PaddedWord(bytes) \o PaddedWord(IF flag THEN <<1>> ELSE <<>>)

LEMMA BuiltIsReadable ==
    ASSUME NEW s \in Seq(Nat), Len(s) = SelectorLen, NEW address \in Seq(Nat), Len(address) = AddressLen,
           NEW bytes \in Seq(Nat), Len(bytes) <= WordLen
    PROVE  Readable(BuildTransaction(s, address, bytes), s, address, bytes)
<1>1. BuildTransaction(s, address, bytes) = s \o PaddedWord(address) \o PaddedWord(bytes)
  BY TransactionWords
<1>2. ASSUME NEW x \in Asset, NEW flag \in BOOLEAN
      PROVE  BuildLiquidationCalldata(s, HexToAddress(x), address, HexToAddress(x), bytes, flag)
             = s \o PaddedWord(HexToAddress(x)) \o PaddedWord(address) \o PaddedWord(HexToAddress(x))
               \o PaddedWord(bytes) \o PaddedWord(IF flag THEN <<1>> ELSE <<>>)
  <2>1. PICK y \in Seq(Nat) : y = HexToAddress(x) /\ Len(y) = AddressLen
    BY AddressOfText, ApiAssumption
  <2>2. LiquidationReads(s, y, address, y, bytes, flag)
    BY <2>1, LiquidationWords
  <2> QED BY <2>1, <2>2 DEF LiquidationReads
<1> QED BY <1>1, <1>2 DEF Readable

\* What BuildTx answers for an amount that fits a word is the action's own selector, the
\* address HexToAddress makes of the asset, which is the asset itself when that is well
\* formed, and the amount, each in its own word; and BuildLiquidationCalldata's words are
\* its arguments, for any lengths of selector, address and word.
THEOREM CalldataIsFaithful == ApiSpec => []CalldataFaithful
<1>1. ApiInv => CalldataFaithful
  <2> SUFFICES ASSUME ApiInv, NEW c \in Conn, "data" \in DOMAIN conn[c], Fits(conn[c].amount)
               PROVE  Readable(conn[c].data, Selector[conn[c].action],
                               IF WellFormed(conn[c].asset) THEN conn[c].asset.bytes ELSE HexToAddress(conn[c].asset),
                               conn[c].amount.bytes)
    BY DEF CalldataFaithful, Readable
  <2>1. conn[c] \in CalldataAnswer
    <3>1. conn[c] \in Request
      BY DEF ApiInv, ApiTypeOK
    <3>2. /\ "data" \notin DOMAIN Idle
          /\ \A r \in [at : {"limit"}, key : LimitKey, route : Route] : "data" \notin DOMAIN r
          /\ \A r \in [at : {"route"}, route : Route] : "data" \notin DOMAIN r
          /\ \A r \in [at : {"read"}, key : Key, fresh : BOOLEAN] : "data" \notin DOMAIN r
          /\ \A r \in [at : {"authed"}, route : Authed, wallet : Address] : "data" \notin DOMAIN r
          /\ \A r \in Answer : "data" \notin DOMAIN r
      BY DEF Idle, Answer
    <3> QED BY <3>1, <3>2 DEF Request
  <2>2. PICK action \in DOMAIN Selector, asset \in Asset, amount \in Amount :
           conn[c] = [at |-> "done", action |-> action, asset |-> asset, amount |-> amount,
                      data |-> BuildTransaction(Selector[action], HexToAddress(asset), amount.bytes)]
    BY <2>1 DEF CalldataAnswer
  <2>3. /\ conn[c].action = action /\ conn[c].asset = asset /\ conn[c].amount = amount
        /\ conn[c].data = BuildTransaction(Selector[action], HexToAddress(asset), amount.bytes)
    BY <2>2
  <2>4. /\ Selector[action] \in Seq(Nat) /\ Len(Selector[action]) = SelectorLen
        /\ amount.bytes \in Seq(Nat) /\ Len(amount.bytes) <= WordLen /\ asset.bytes \in Seq(Nat)
    BY <2>3, ApiAssumption DEF Fits
  <2>5. PICK a : a = HexToAddress(asset) /\ a \in Seq(Nat) /\ Len(a) = AddressLen
    BY <2>4, AddressOfText
  <2>6. (IF WellFormed(asset) THEN asset.bytes ELSE HexToAddress(asset)) = a
    BY <2>4, <2>5, AddressOfText DEF WellFormed
  <2>7. Readable(BuildTransaction(Selector[action], a, amount.bytes), Selector[action], a, amount.bytes)
    BY <2>4, <2>5, BuiltIsReadable
  <2> QED BY <2>3, <2>5, <2>6, <2>7
<1> QED BY <1>1, ApiInvariant, PTL
=============================================================================
