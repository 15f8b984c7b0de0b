---------------------------- MODULE OracleProofs ----------------------------
(***************************************************************************)
(* Proofs about PriceOracle for any feeds, answers, word size, heartbeats, *)
(* deviation limits and TTLs, with any calls failing at any time.          *)
(***************************************************************************)
EXTENDS PriceOracle, TLAPS

Price == 1..(Word - 1)

LEMMA FeedInHand ==
    ASSUME at \in 1..Len(Feed)
    PROVE  feed \in Feeds
BY OracleAssumption DEF feed, Feeds, Range

\* DecodeLatestRoundData lets nothing but a positive word through.
LEMMA DecodePositive ==
    ASSUME NEW a \in Int, Decode(a) # None
    PROVE  Decode(a) \in Price
<1>1. a % Word \in 0..(Word - 1)
  BY OracleAssumption
<1> QED BY <1>1, OracleAssumption DEF Decode, Price

LEMMA TTLPositive == \A f \in Feeds : TTL(f) \in Nat \ {0}
BY OracleAssumption DEF TTL

\* A price is never the marker of a missing one.
LEMMA PriceIsSome == None \notin Price
BY OracleAssumption DEF Price

LEMMA NextFeedType ==
    ASSUME at \in 1..Len(Feed), NextFeed
    PROVE  /\ at' \in 1..Len(Feed)
           /\ pc' \in {"idle", "fetch"} /\ price' = None /\ alerts' = {}
<1>1. Len(Feed) \in Nat /\ Len(Feed) > 0
  BY OracleAssumption
<1> QED BY <1>1 DEF NextFeed

LEMMA OracleInvInit == OracleInit => OracleInv
<1> SUFFICES ASSUME OracleInit PROVE OracleInv
  OBVIOUS
<1>1. 1 \in 1..Len(Feed)
  BY OracleAssumption
<1>2. OracleShape
  BY DEF OracleInit, OracleShape
<1>3. OracleTypeOK
  BY <1>1 DEF OracleInit, OracleTypeOK
<1> QED BY <1>2, <1>3 DEF OracleInit, OracleInv, CacheFollows, Compared

\* The tables and the price in hand keep their types, and only positive words leave
\* the service.
LEMMA OracleTypeStep ==
    ASSUME OracleInv, [OracleNext]_vars
    PROVE  OracleShape' /\ OracleTypeOK' /\ smooth' \subseteq Feeds
<1> USE DEF OracleInv
<1>a. /\ at \in 1..Len(Feed) /\ feed \in Feeds
      /\ price \in Price \cup {None}
      /\ pc \in {"idle", "fetch"} <=> price = None
      /\ \A f \in Feeds : redis[f] = None \/ redis[f] \in [price : Price, ttl : 1..TTL(f)]
      /\ \A f \in Feeds : published[f] \in Price \cup {None} /\ saved[f] \in Price \cup {None}
  BY FeedInHand DEF OracleTypeOK, Price
<1>t. /\ pc' \in {"idle", "fetch", "check", "cache", "publish", "save"}
      /\ at' \in 1..Len(Feed)
      /\ price' \in Price \cup {None} /\ (pc' \in {"idle", "fetch"} <=> price' = None)
      /\ alerts' \subseteq {"jump", "stale"}
      /\ \A f \in Feeds : redis'[f] = None \/ redis'[f] \in [price : Price, ttl : 1..TTL(f)]
      /\ \A f \in Feeds : published'[f] \in Price \cup {None} /\ saved'[f] \in Price \cup {None}
      => OracleTypeOK'
  BY DEF OracleTypeOK, Price
<1>1. CASE Poll
  BY <1>1, <1>a, <1>t DEF Poll, outside, OracleShape, OracleTypeOK
<1>2. CASE FetchFails
  <2>1. /\ at' \in 1..Len(Feed) /\ pc' \in {"idle", "fetch"} /\ price' = None /\ alerts' = {}
        /\ UNCHANGED <<answer, redis, published, saved>> /\ smooth' \subseteq Feeds
    BY <1>2, <1>a, NextFeedType DEF FetchFails, outside
  <2> QED BY <1>a, <1>t, <2>1 DEF OracleShape
<1>3. ASSUME NEW f \in Feeds, FetchPrice(f)
      PROVE  OracleShape' /\ OracleTypeOK' /\ smooth' \subseteq Feeds
  <2>1. answer[f] \in Int
    BY OracleAssumption DEF OracleShape
  <2>2. price' \in Price /\ price' # None
    BY <1>3, <2>1, DecodePositive DEF FetchPrice
  <2> QED BY <1>3, <1>a, <1>t, <2>2 DEF FetchPrice, outside, OracleShape, OracleTypeOK
<1>4. ASSUME NEW hit \in BOOLEAN, CheckPrice(hit)
      PROVE  OracleShape' /\ OracleTypeOK' /\ smooth' \subseteq Feeds
  <2>1. alerts' \subseteq {"jump", "stale"} /\ smooth' \subseteq Feeds
    BY <1>4 DEF CheckPrice
  <2> QED BY <1>4, <1>a, <1>t, <2>1 DEF CheckPrice, outside, OracleShape
<1>5. ASSUME NEW ok \in BOOLEAN, CachePrice(ok)
      PROVE  OracleShape' /\ OracleTypeOK' /\ smooth' \subseteq Feeds
  <2>1. price \in Price
    BY <1>5, <1>a DEF CachePrice
  <2>2. [price |-> price, ttl |-> TTL(feed)] \in [price : Price, ttl : 1..TTL(feed)]
    BY <1>a, <2>1, TTLPositive
  <2>3. /\ DOMAIN redis' = Feeds /\ redis' = [f \in Feeds |-> redis'[f]]
        /\ \A f \in Feeds : redis'[f] = redis[f] \/ redis'[f] \in [price : Price, ttl : 1..TTL(f)]
    BY <1>5, <1>a, <2>2 DEF CachePrice, OracleShape
  <2> QED BY <1>5, <1>a, <1>t, <2>3 DEF CachePrice, OracleShape, OracleTypeOK
<1>6. ASSUME NEW ok \in BOOLEAN, PublishPrice(ok)
      PROVE  OracleShape' /\ OracleTypeOK' /\ smooth' \subseteq Feeds
  <2>1. price \in Price
    BY <1>6, <1>a DEF PublishPrice
  <2>2. /\ DOMAIN published' = Feeds /\ published' = [f \in Feeds |-> published'[f]]
        /\ \A f \in Feeds : published'[f] \in Price \cup {None}
    BY <1>6, <1>a, <2>1 DEF PublishPrice, OracleShape
  <2>3. smooth' \subseteq Feeds
    BY <1>6, <1>a DEF PublishPrice
  <2> QED BY <1>6, <1>a, <1>t, <2>2, <2>3 DEF PublishPrice, outside, OracleShape, OracleTypeOK
<1>7. ASSUME NEW ok \in BOOLEAN, SavePrice(ok)
      PROVE  OracleShape' /\ OracleTypeOK' /\ smooth' \subseteq Feeds
  <2>1. price \in Price
    BY <1>7, <1>a DEF SavePrice
  <2>2. /\ DOMAIN saved' = Feeds /\ saved' = [f \in Feeds |-> saved'[f]]
        /\ \A f \in Feeds : saved'[f] \in Price \cup {None}
    BY <1>7, <1>a, <2>1 DEF SavePrice, OracleShape
  <2>3. /\ at' \in 1..Len(Feed) /\ pc' \in {"idle", "fetch"} /\ price' = None /\ alerts' = {}
        /\ UNCHANGED <<answer, redis, published, smooth>>
    BY <1>7, <1>a, NextFeedType DEF SavePrice, outside
  <2> QED BY <1>a, <1>t, <2>2, <2>3 DEF OracleShape
<1>8. CASE Tick
  <2>1. /\ DOMAIN redis' = Feeds /\ redis' = [f \in Feeds |-> redis'[f]]
    BY <1>8 DEF Tick
  <2>2. ASSUME NEW f \in Feeds
        PROVE  redis'[f] = None \/ redis'[f] \in [price : Price, ttl : 1..TTL(f)]
    <3>1. CASE redis[f] = None \/ redis[f].ttl = 1
      BY <1>8, <3>1 DEF Tick
    <3>2. CASE ~(redis[f] = None \/ redis[f].ttl = 1)
      <4>1. redis[f] \in [price : Price, ttl : 1..TTL(f)] /\ TTL(f) \in Nat
        BY <1>a, <3>2, TTLPositive
      <4>2. redis'[f] = [redis[f] EXCEPT !.ttl = @ - 1]
        BY <1>8, <3>2 DEF Tick
      <4>3. redis[f].ttl - 1 \in 1..TTL(f)
        BY <3>2, <4>1
      <4> QED BY <4>1, <4>2, <4>3
    <3> QED BY <3>1, <3>2
  <2> QED BY <1>8, <1>a, <1>t, <2>1, <2>2 DEF Tick, OracleShape, OracleTypeOK
<1>9. ASSUME NEW f \in Feeds, NEW a \in Answer[f], NewRound(f, a)
      PROVE  OracleShape' /\ OracleTypeOK' /\ smooth' \subseteq Feeds
  <2>1. DOMAIN answer' = Feeds /\ \A g \in Feeds : answer'[g] \in Answer[g]
    BY <1>9 DEF NewRound, OracleShape
  <2> QED BY <1>9, <1>a, <1>t, <2>1 DEF NewRound, loop, OracleShape, OracleTypeOK
<1>10. CASE UNCHANGED vars
  BY <1>10, <1>a, <1>t DEF vars, outside, loop, OracleShape, OracleTypeOK
<1> QED
  BY <1>1, <1>2, <1>3, <1>4, <1>5, <1>6, <1>7, <1>8, <1>9, <1>10 DEF OracleNext, Update

\* The cache is the memory the deviation check relies on: Redis loses entries, and
\* any of the five calls fails, but a smooth feed's entry is the price last published.
LEMMA SmoothStep ==
    ASSUME OracleInv, [OracleNext]_vars
    PROVE  CacheFollows' /\ Compared'
<1> USE DEF OracleInv
<1>a. /\ at \in 1..Len(Feed) /\ feed \in Feeds
      /\ pc \in {"idle", "fetch"} <=> price = None
  BY FeedInHand DEF OracleTypeOK
<1>b. \A f \in Feeds : redis[f] # None => redis[f] \in [price : Price, ttl : 1..TTL(f)]
  BY DEF OracleTypeOK, Price
<1>f. UNCHANGED at => feed' = feed
  BY DEF feed
<1>1. CASE Poll
  BY <1>1, <1>f DEF Poll, outside, CacheFollows, Compared
<1>2. CASE FetchFails
  <2>1. /\ pc' \in {"idle", "fetch"} /\ pc = "fetch" /\ smooth' \subseteq smooth
        /\ UNCHANGED <<redis, published>>
    BY <1>2, <1>a, NextFeedType DEF FetchFails, outside
  <2> QED BY <2>1 DEF CacheFollows, Compared
<1>3. ASSUME NEW f \in Feeds, FetchPrice(f) PROVE CacheFollows' /\ Compared'
  BY <1>3, <1>f DEF FetchPrice, outside, CacheFollows, Compared
<1>4. ASSUME NEW hit \in BOOLEAN, CheckPrice(hit) PROVE CacheFollows' /\ Compared'
  <2>1. CacheFollows'
    BY <1>4, <1>f DEF CheckPrice, outside, CacheFollows
  <2>2. ASSUME feed \in smooth' PROVE hit /\ redis[feed] # None /\ redis[feed].price = published[feed]
    BY <1>4, <1>a, <2>2 DEF CheckPrice, CacheFollows
  <2>3. Compared'
    BY <1>4, <1>f, <2>2 DEF CheckPrice, Compared, Deviates
  <2> QED BY <2>1, <2>3
<1>5. ASSUME NEW ok \in BOOLEAN, CachePrice(ok) PROVE CacheFollows' /\ Compared'
  <2>1. \A f \in Feeds : f # feed => redis'[f] = redis[f]
    BY <1>5, <1>a DEF CachePrice, OracleShape
  <2>2. CacheFollows'
    BY <1>5, <1>f, <2>1 DEF CachePrice, CacheFollows
  <2>3. Compared'
    BY <1>5, <1>f DEF CachePrice, Compared, Deviates
  <2> QED BY <2>2, <2>3
<1>6. ASSUME NEW ok \in BOOLEAN, PublishPrice(ok) PROVE CacheFollows' /\ Compared'
  <2>1. /\ pc = "publish" /\ pc' = "save" /\ feed' = feed /\ UNCHANGED redis
        /\ \A f \in Feeds : f # feed => published'[f] = published[f]
        /\ smooth' \subseteq smooth \cup {feed}
    BY <1>6, <1>a, <1>f DEF PublishPrice, outside, OracleShape
  <2>2. feed \in smooth' => /\ published'[feed] = price /\ redis[feed].price = price
                            /\ price # None
    BY <1>6, <1>a DEF PublishPrice, OracleShape
  <2>3. CacheFollows'
    BY <2>1, <2>2 DEF CacheFollows
  <2>4. Compared'
    BY <2>1 DEF Compared
  <2> QED BY <2>3, <2>4
<1>7. ASSUME NEW ok \in BOOLEAN, SavePrice(ok) PROVE CacheFollows' /\ Compared'
  <2>1. /\ pc' \in {"idle", "fetch"} /\ pc = "save"
        /\ UNCHANGED <<redis, published, smooth>>
    BY <1>7, <1>a, NextFeedType DEF SavePrice, outside
  <2> QED BY <2>1 DEF CacheFollows, Compared
<1>8. CASE Tick
  <2>1. ASSUME NEW f \in Feeds, redis'[f] # None
        PROVE  redis[f] # None /\ redis'[f].price = redis[f].price
    <3>1. ~(redis[f] = None \/ redis[f].ttl = 1) /\ redis'[f] = [redis[f] EXCEPT !.ttl = @ - 1]
      BY <1>8, <2>1 DEF Tick
    <3> QED BY <1>b, <3>1
  <2>2. UNCHANGED <<published, pc, at, price, alerts, smooth>>
    BY <1>8 DEF Tick
  <2>3. CacheFollows'
    BY <1>f, <2>1, <2>2 DEF CacheFollows
  <2>4. Compared'
    BY <1>f, <2>2 DEF Compared, Deviates
  <2> QED BY <2>3, <2>4
<1>9. CASE UNCHANGED <<redis, published, pc, at, price, alerts, smooth>>
  BY <1>9, <1>f DEF CacheFollows, Compared, Deviates
<1> QED
  BY <1>1, <1>2, <1>3, <1>4, <1>5, <1>6, <1>7, <1>8, <1>9
     DEF OracleNext, Update, NewRound, vars, outside, loop

\* The oracle's inductive invariant holds of every behaviour.
THEOREM OracleInvariant == OracleSpec => []OracleInv
<1>1. OracleInv /\ [OracleNext]_vars => OracleInv'
  BY OracleTypeStep, SmoothStep DEF OracleInv
<1> QED BY OracleInvInit, <1>1, PTL DEF OracleSpec

\* FetchAndUpdate caches, publishes and saves positive words only, whatever the
\* aggregators answer: what DecodeLatestRoundData refuses never gets out.
THEOREM PricesArePositive == OracleSpec => []OracleTypeOK
<1>1. OracleInv => OracleTypeOK
  BY DEF OracleInv
<1> QED BY OracleInvariant, <1>1, PTL

\* Only PublishPrice changes what is downstream, and its price was compared with the
\* one downstream has.
LEMMA JumpStep ==
    ASSUME OracleInv, [OracleNext]_vars, NEW f \in Feeds,
           published'[f] # published[f], published[f] # None, f \in smooth, DeviationPct[f] > 0,
           Jump(f, published[f], published'[f])
    PROVE  "jump" \in alerts
<1>1. PICK ok \in BOOLEAN : PublishPrice(ok)
  BY DEF OracleNext, Update, Poll, FetchFails, FetchPrice, CheckPrice, CachePrice, SavePrice,
         Tick, NewRound, vars
<1>2. feed = f /\ published'[f] = price /\ pc = "publish"
  BY <1>1, FeedInHand DEF PublishPrice, OracleInv, OracleShape, OracleTypeOK
<1>3. published[f] \in Price /\ price \in Price
  BY <1>2 DEF OracleInv, OracleTypeOK, Price
<1>4. Deviates(f, published[f], price)
  BY <1>2, <1>3, OracleAssumption DEF Deviates, Jump, Price
<1> QED BY <1>2, <1>4 DEF OracleInv, Compared

\* Two prices in a row that differ by more than the limit never reach Kafka without
\* the warning of FetchAndUpdate, as long as the cache holds the first.
THEOREM JumpsAreAlerted == OracleSpec => JumpAlerted
<1>1. OracleInv /\ [OracleNext]_vars =>
        [\A f \in Feeds :
           published'[f] # published[f] /\ published[f] # None /\ f \in smooth /\ DeviationPct[f] > 0 =>
             (Jump(f, published[f], published'[f]) => "jump" \in alerts)]_vars
  BY JumpStep
<1> QED BY OracleInvariant, <1>1, PTL DEF OracleSpec, JumpAlerted
=============================================================================
