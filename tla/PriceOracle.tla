----------------------------- MODULE PriceOracle -----------------------------
(***************************************************************************)
(* internal/oracle: RunLoop polls the Chainlink feeds one after the other; *)
(* FetchAndUpdate warns about a jump or a stale round, then caches,        *)
(* publishes and saves the price, going on whatever fails.  A step is one  *)
(* call to the outside.  The aggregator contracts, Redis with its expiry,  *)
(* Kafka and the database are external; a call to any of them may fail.    *)
(* Times are counted from now: the age of a round, up to MaxAge, and what  *)
(* is left of a cache entry's TTL.                                         *)
(***************************************************************************)
EXTENDS Integers, Sequences, SequencesExt

CONSTANTS
    Feed,          \* the feeds, as the sequence RunLoop is given
    Answer,        \* external: int256 answers each feed may give
    Word,          \* 2^256: the values of an ABI word
    HeartbeatSec,  \* of each feed; 0 turns the check off
    DeviationPct,  \* of each feed; 0 turns the check off
    DefaultTTL,    \* 30 seconds
    MaxAge,        \* bound: an age is counted no further, well past the feed's heartbeat
    Reliable,      \* external: feeds whose contract keeps answering
    None

Feeds == Range(Feed)

ASSUME OracleAssumption ==
    /\ Feed \in Seq(Feeds) /\ Feed # <<>>
    /\ Word \in Nat \ {0, 1} /\ DefaultTTL \in Nat \ {0} /\ Reliable \subseteq Feeds
    /\ \A f \in Feeds : /\ Answer[f] \subseteq Int
                        /\ HeartbeatSec[f] \in Nat /\ DeviationPct[f] \in Nat /\ MaxAge[f] \in Nat
                        /\ HeartbeatSec[f] > 0 => HeartbeatSec[f] + 1 < MaxAge[f]
    /\ None \notin Int

VARIABLES
    answer,     \* external: latest answer of each feed
    age,        \* external: seconds since it was updated
    redis,      \* external: [price, ttl] cached for each feed's asset, or None
    published,  \* external: last price of each feed Kafka accepted, or None
    saved,      \* external: last price of each feed in the database, or None
    pc,         \* what FetchAndUpdate does next: "idle" between two polls
    at,         \* the feed it is at, as its place in Feed
    price,      \* the price it holds for that feed
    heldAge,    \* seconds since UpdatedAt of that price
    alerts,     \* warnings logged for that price
    smooth      \* ghost: feeds whose last price was compared, cached and published

outside == <<answer, age, redis>>
loop == <<pc, at, price, heldAge, alerts>>
vars == <<outside, published, saved, loop, smooth>>

feed == Feed[at]

OracleInit ==
    /\ answer \in {a \in [Feeds -> UNION {Answer[f] : f \in Feeds}] : \A f \in Feeds : a[f] \in Answer[f]}
    /\ age = [f \in Feeds |-> 0]
    /\ redis = [f \in Feeds |-> None]
    /\ published = [f \in Feeds |-> None] /\ saved = [f \in Feeds |-> None]
    /\ pc = "fetch" /\ at = 1 /\ price = None /\ heldAge = 0 /\ alerts = {}
    /\ smooth = {}
-----------------------------------------------------------------------------
\* External: a new round, and the passing of a second.
NewRound(f, a) ==
    /\ a \in Answer[f]
    /\ answer' = [answer EXCEPT ![f] = a] /\ age' = [age EXCEPT ![f] = 0]
    /\ UNCHANGED <<redis, published, saved, loop, smooth>>

Older(n, f) == IF n < MaxAge[f] THEN n + 1 ELSE n

Tick ==
    /\ age' = [f \in Feeds |-> Older(age[f], f)]
    /\ heldAge' = IF price = None THEN 0 ELSE Older(heldAge, feed)
    /\ redis' = [f \in Feeds |-> IF redis[f] = None \/ redis[f].ttl = 1 THEN None
                                 ELSE [redis[f] EXCEPT !.ttl = @ - 1]]
    /\ UNCHANGED <<answer, published, saved, pc, at, price, alerts, smooth>>
-----------------------------------------------------------------------------
\* A mutation of Decode: zero passes for a price.
DecodeAny(a) == a % Word

\* DecodeLatestRoundData: SetBytes reads the int256 answer as an unsigned word,
\* and a word that is not positive is refused.  None: an error.
Decode(a) == IF a % Word > 0 THEN a % Word ELSE None

\* A mutation of Deviates: the change is taken relative to the new price.
DeviatesFromNew(f, old, new) ==
    /\ DeviationPct[f] > 0 /\ new # 0
    /\ (IF new > old THEN new - old ELSE old - new) * 100 > DeviationPct[f] * new

\* CalculateDeviation against the feed's limit.
Deviates(f, old, new) ==
    /\ DeviationPct[f] > 0 /\ old # 0
    /\ (IF new > old THEN new - old ELSE old - new) * 100 > DeviationPct[f] * old

Stale(f, seconds) == HeartbeatSec[f] > 0 /\ seconds > HeartbeatSec[f]

TTL(f) == IF HeartbeatSec[f] > 0 /\ HeartbeatSec[f] < DefaultTTL THEN HeartbeatSec[f] ELSE DefaultTTL

\* The for loop's next feed, or the end of the poll.
NextFeed ==
    /\ at' = IF at < Len(Feed) THEN at + 1 ELSE 1
    /\ pc' = IF at < Len(Feed) THEN "fetch" ELSE "idle"
    /\ price' = None /\ heldAge' = 0 /\ alerts' = {}

\* The ticker, and the first call RunLoop makes before it.
Poll ==
    /\ pc = "idle"
    /\ pc' = "fetch"
    /\ UNCHANGED <<outside, published, saved, at, price, heldAge, alerts, smooth>>

\* FetchPrice, with an answer it can decode.
FetchPrice(f) ==
    /\ pc = "fetch" /\ feed = f
    /\ Decode(answer[f]) # None
    /\ price' = Decode(answer[f]) /\ heldAge' = age[f]
    /\ pc' = "check"
    /\ UNCHANGED <<outside, published, saved, at, alerts, smooth>>

\* A mutation of FetchFails: the error is returned and ends the poll.
FetchFailsReturns ==
    /\ pc = "fetch"
    /\ pc' = "idle" /\ at' = 1 /\ price' = None /\ heldAge' = 0 /\ alerts' = {}
    /\ smooth' = smooth \ {feed}
    /\ UNCHANGED <<outside, published, saved>>

\* FetchPrice, when the call or the decoding fails: continue.
FetchFails ==
    /\ pc = "fetch"
    /\ NextFeed
    /\ smooth' = smooth \ {feed}
    /\ UNCHANGED <<outside, published, saved>>

\* A mutation of CheckPrice: the check of the heartbeat became the else of the one
\* against the cached price.
CheckPriceEitherOr(hit) ==
    /\ pc = "check"
    /\ hit => redis[feed] # None
    /\ alerts' = (IF hit /\ Deviates(feed, redis[feed].price, price) THEN {"jump"} ELSE {})
                 \cup (IF ~hit /\ Stale(feed, heldAge) THEN {"stale"} ELSE {})
    /\ smooth' = IF hit THEN smooth ELSE smooth \ {feed}
    /\ pc' = "cache"
    /\ UNCHANGED <<outside, published, saved, at, price, heldAge>>

\* The two warnings.  cache.Get misses when the entry expired or Redis fails.
CheckPrice(hit) ==
    /\ pc = "check"
    /\ hit => redis[feed] # None
    /\ alerts' = (IF hit /\ Deviates(feed, redis[feed].price, price) THEN {"jump"} ELSE {})
                 \cup (IF Stale(feed, heldAge) THEN {"stale"} ELSE {})
    /\ smooth' = IF hit THEN smooth ELSE smooth \ {feed}
    /\ pc' = "cache"
    /\ UNCHANGED <<outside, published, saved, at, price, heldAge>>

\* cache.Set; an error is logged.
CachePrice(ok) ==
    /\ pc = "cache"
    /\ redis' = IF ok THEN [redis EXCEPT ![feed] = [price |-> price, ttl |-> TTL(feed)]] ELSE redis
    /\ pc' = "publish"
    /\ UNCHANGED <<answer, age, published, saved, at, price, heldAge, alerts, smooth>>

\* PublishPrice; an error is logged.
PublishPrice(ok) ==
    /\ pc = "publish"
    /\ published' = IF ok THEN [published EXCEPT ![feed] = price] ELSE published
    /\ smooth' = IF ok /\ redis[feed] # None /\ redis[feed].price = price
                 THEN smooth \cup {feed} ELSE smooth \ {feed}
    /\ pc' = "save"
    /\ UNCHANGED <<outside, saved, at, price, heldAge, alerts>>

\* SavePrice; an error is logged, and the loop goes to the next feed.
SavePrice(ok) ==
    /\ pc = "save"
    /\ saved' = IF ok THEN [saved EXCEPT ![feed] = price] ELSE saved
    /\ NextFeed
    /\ UNCHANGED <<outside, published, smooth>>

Update ==
    \/ Poll \/ FetchFails
    \/ \E f \in Feeds : FetchPrice(f)
    \/ \E ok \in BOOLEAN : CheckPrice(ok) \/ CachePrice(ok) \/ PublishPrice(ok) \/ SavePrice(ok)

OracleNext ==
    \/ Update \/ Tick
    \/ \E f \in Feeds : \E a \in Answer[f] : NewRound(f, a)

OracleSpec == OracleInit /\ [][OracleNext]_vars

\* RunLoop is a goroutine of its own and its ticker keeps firing; the contracts
\* that are reliable, Kafka and the database do not fail for ever.
OracleFairness ==
    /\ WF_vars(Update)
    /\ \A f \in Reliable : SF_vars(FetchPrice(f))
    /\ \A f \in Feeds : SF_vars(feed = f /\ PublishPrice(TRUE)) /\ SF_vars(feed = f /\ SavePrice(TRUE))

FairOracleSpec == OracleSpec /\ OracleFairness
-----------------------------------------------------------------------------
\* No zero or malformed answer is cached, published or saved: what leaves the
\* service is a positive word.
OracleTypeOK ==
    LET Price == 1..(Word - 1)
    IN /\ \A f \in Feeds : /\ redis[f] = None \/ redis[f] \in [price : Price, ttl : 1..TTL(f)]
                           /\ {published[f], saved[f]} \subseteq Price \cup {None}
       /\ pc \in {"idle", "fetch", "check", "cache", "publish", "save"}
       /\ at \in 1..Len(Feed)
       /\ price \in Price \cup {None} /\ (pc \in {"idle", "fetch"} <=> price = None)
       /\ alerts \subseteq {"jump", "stale"}

\* When a feed stays at a positive answer, Kafka and the database end up with it,
\* whatever calls failed before and whatever happens to the other feeds.
DownstreamConverges ==
    \A f \in Reliable : \A a \in Answer[f] : a > 0 =>
        (<>[](answer[f] = a) => <>[](published[f] = a /\ saved[f] = a))

\* A feed that answers and stops updating is warned about again and again.
StaleFeedAlerted ==
    \A f \in Reliable :
        HeartbeatSec[f] > 0 /\ <>[](answer[f] > 0 /\ age[f] > HeartbeatSec[f])
            => []<>(pc # "idle" /\ feed = f /\ "stale" \in alerts)

Jump(f, old, new) == 100 * (IF new > old THEN new - old ELSE old - new) > DeviationPct[f] * old

\* Downstream never sees two prices in a row that differ by more than the limit
\* without a warning, as long as the one before was cached and published and its
\* entry is still there: the cache is the only memory of the last price.
JumpAlerted ==
    [][\A f \in Feeds :
         published'[f] # published[f] /\ published[f] # None /\ f \in smooth /\ DeviationPct[f] > 0 =>
             (Jump(f, published[f], published'[f]) => "jump" \in alerts)]_vars
-----------------------------------------------------------------------------
\* What the docs and comments say and the code does not do.

\* The comment on DecodeLatestRoundData, "int256 answer", and its refusal of what is not
\* positive: a negative answer is not served.  It is read as a huge unsigned word.
NegativeRefused ==
    \A f \in Feeds : published[f] # None => \E a \in Answer[f] : a > 0 /\ published[f] = a

\* The comment on FetchAndUpdate, "checks deviations", and the design, "a deviation above
\* 5% triggers an alert": a jump between two published prices does so, also after the entry of
\* the last price expired.
EveryJumpAlerted ==
    [][\A f \in Feeds :
         published'[f] # published[f] /\ published[f] # None /\ DeviationPct[f] > 0 =>
             (Jump(f, published[f], published'[f]) => "jump" \in alerts)]_vars
-----------------------------------------------------------------------------
\* What makes OracleTypeOK inductive: the tables have an entry for each feed, and
\* the contracts give the answers they may give.
OracleShape ==
    /\ DOMAIN answer = Feeds /\ \A f \in Feeds : answer[f] \in Answer[f]
    /\ DOMAIN redis = Feeds /\ DOMAIN published = Feeds /\ DOMAIN saved = Feeds
    /\ redis = [f \in Feeds |-> redis[f]]
    /\ published = [f \in Feeds |-> published[f]] /\ saved = [f \in Feeds |-> saved[f]]

\* The inductive invariant behind JumpAlerted.  The entry of a smooth feed, if it is
\* still there, is the price last published, except between CachePrice and
\* PublishPrice; and the price in hand for a smooth feed was compared with it.
CacheFollows ==
    \A f \in smooth :
        /\ published[f] # None
        /\ \/ redis[f] = None
           \/ redis[f].price = published[f]
           \/ pc = "publish" /\ feed = f

Compared ==
    pc \in {"cache", "publish"} /\ feed \in smooth =>
        (Deviates(feed, published[feed], price) => "jump" \in alerts)

OracleInv == OracleShape /\ OracleTypeOK /\ smooth \subseteq Feeds /\ CacheFollows /\ Compared
=============================================================================
