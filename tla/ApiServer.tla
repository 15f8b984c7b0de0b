------------------------------ MODULE ApiServer ------------------------------
(***************************************************************************)
(* The HTTP API: NewRouter's middleware in their order (CORS, the rate     *)
(* limit, JWT on the account's routes) and the handlers of market and      *)
(* account behind them.  Each connection's request is a goroutine; a step  *)
(* ends at a call to Redis or the database (external, may fail).  A second *)
(* is a tick; what counts down (a cache entry, a counter, a token) is kept *)
(* as the ticks it has left.  Minutes are numbered modulo MaxMinutes: a    *)
(* number is used again when no request and no counter has it any more.  A *)
(* cached or held market value is fresh until the database changes.        *)
(***************************************************************************)
EXTENDS Calldata

CONSTANTS
    Conn, Client,       \* connections, and the IPs they come from
    Address,            \* wallets
    Asked,              \* routes the requests are for
    RequestsPerMinute,
    Minute,             \* ticks of a minute
    MaxMinutes,         \* bound: minutes told apart
    Expiration,         \* ticks a token lives
    TTL,                \* ticks a cache entry of "list" and "detail" lives
    Asset, Amount,      \* of BuildTx: texts [malformed, bytes]; [negative, bytes]
    Selector,           \* the selector of each known action
    None

Key == {"list", "detail"}
Public == Key \cup {"healthz", "market_history", "login"}
Authed == {"positions", "account_history", "build"}
Route == Public \cup Authed

ASSUME ApiAssumption ==
    /\ {RequestsPerMinute, Minute, MaxMinutes, Expiration} \subseteq Nat \ {0}
    /\ Asked \subseteq Route
    /\ TTL \in [Key -> Nat \ {0}]
    /\ \A a \in Asset \cup Amount : a.bytes \in Seq(Nat)
    /\ \A action \in DOMAIN Selector : Selector[action] \in Seq(Nat) /\ Len(Selector[action]) = SelectorLen

VARIABLES
    second,    \* of the current minute
    minute,    \* its number
    counter,   \* external, Redis: [n, ttl] under each key of a client and a minute
    conn,      \* the request each connection is serving
    cache,     \* external, Redis: [fresh, ttl] under each market key, or None
    token,     \* ticks each wallet's last token has left
    passed,    \* ghost: requests of each client with this minute's key let through in it
    settled    \* ghost: ticks since anyone held or could read an old market value

time == <<second, minute>>
ghosts == <<passed, settled>>
vars == <<time, counter, conn, cache, token, ghosts>>

MinuteNo == 0..(MaxMinutes - 1)
LimitKey == Client \X MinuteNo

Idle == [at |-> "idle"]
NoCount == [n |-> 0, ttl |-> 0]

ApiInit ==
    /\ second = 0 /\ minute = 0
    /\ counter = [k \in LimitKey |-> NoCount]
    /\ passed = [i \in Client |-> 0]
    /\ conn = [c \in Conn |-> Idle]
    /\ cache = [k \in Key |-> None] /\ settled = [k \in Key |-> 0]
    /\ token = [a \in Address |-> 0]

\* The handler chain ends, and with it the logging middleware's part.  Of the status it
\* matters whether it is an error's.
Respond(c, status) == conn' = [conn EXCEPT ![c] = [at |-> "done", ok |-> status < 400]]

Close(c) ==
    /\ conn[c].at = "done"
    /\ conn' = [conn EXCEPT ![c] = Idle]
    /\ UNCHANGED <<time, counter, cache, token, ghosts>>
-----------------------------------------------------------------------------
\* CORSMiddleware answers a preflight before anything else is run.
Preflight(c) ==
    /\ conn[c].at = "idle"
    /\ Respond(c, 204)
    /\ UNCHANGED <<time, counter, cache, token, ghosts>>

Left(n) == IF n > 0 THEN n - 1 ELSE 0

\* One more request; counts past the limit are alike, so they are not told apart.
Counted(n) == IF n > RequestsPerMinute THEN n ELSE n + 1

\* A mutation of CounterTTL: the counter is kept for a second.
CounterTTLShort == 1

\* The window RateLimitMiddleware passes to Increment.
CounterTTL == Minute

\* The key of the client and the minute it is now.
KeyRequest(c, i, r) ==
    /\ conn[c].at = "idle"
    /\ conn' = [conn EXCEPT ![c] = [at |-> "limit", key |-> <<i, minute>>, route |-> r]]
    /\ UNCHANGED <<time, counter, cache, token, ghosts>>

\* Increment on the key, whatever minute it is by then; a key's first count starts its
\* expiry.  Past the limit, 429.
RateLimited(c) ==
    /\ conn[c].at = "limit"
    /\ LET key == conn[c].key
           n == Counted(counter[key].n)
           i == key[1]
       IN /\ counter' = [counter EXCEPT ![key] = [n |-> n, ttl |-> IF n = 1 THEN CounterTTL ELSE @.ttl]]
          /\ IF n > RequestsPerMinute
             THEN Respond(c, 429) /\ UNCHANGED passed
             ELSE /\ conn' = [conn EXCEPT ![c] = [at |-> "route", route |-> conn[c].route]]
                  /\ passed' = IF key[2] = minute THEN [passed EXCEPT ![i] = @ + 1] ELSE passed
    /\ UNCHANGED <<time, cache, token, settled>>

\* The limiter has no Store, as cmd/api builds it, or Redis fails: the request is let
\* through uncounted.
FailOpen(c) ==
    /\ conn[c].at = "limit"
    /\ conn' = [conn EXCEPT ![c] = [at |-> "route", route |-> conn[c].route]]
    /\ UNCHANGED <<time, counter, cache, token, ghosts>>
-----------------------------------------------------------------------------
Routed(c, r) == conn[c].at = "route" /\ conn[c].route = r

\* healthz, readyz and metrics.
Health(c) ==
    /\ Routed(c, "healthz") /\ Respond(c, 200)
    /\ UNCHANGED <<time, counter, cache, token, ghosts>>

\* A mutation of MarketHit: a hit writes the entry back.
MarketHitRenews(c, k) ==
    /\ Routed(c, k) /\ cache[k] # None
    /\ cache' = [cache EXCEPT ![k].ttl = TTL[k]]
    /\ Respond(c, 200)
    /\ UNCHANGED <<time, counter, token, ghosts>>

\* ListMarkets and GetMarketDetail: the entry in the cache is the answer.
MarketHit(c, k) ==
    /\ Routed(c, k) /\ cache[k] # None
    /\ Respond(c, 200)
    /\ UNCHANGED <<time, counter, cache, token, ghosts>>

\* A miss, or a failing cache: the repository is asked.
MarketRead(c, k) ==
    /\ Routed(c, k)
    /\ conn' = [conn EXCEPT ![c] = [at |-> "read", key |-> k, fresh |-> TRUE]]
    /\ UNCHANGED <<time, counter, cache, token, ghosts>>

\* A bad parameter (400), or the repository's error: 500 for the list and the
\* history, 404 for one market.  Nothing is cached.
MarketFails(c) ==
    /\ conn[c].at = "route" /\ conn[c].route \in Key \cup {"market_history"}
    /\ \E status \in {400, IF conn[c].route = "detail" THEN 404 ELSE 500} : Respond(c, status)
    /\ UNCHANGED <<time, counter, cache, token, ghosts>>

\* What was read is cached, or not when Redis fails, and is the answer.
MarketCached(c, ok) ==
    /\ conn[c].at = "read"
    /\ cache' = IF ok THEN [cache EXCEPT ![conn[c].key] = [fresh |-> conn[c].fresh, ttl |-> TTL[conn[c].key]]]
                ELSE cache
    /\ Respond(c, 200)
    /\ UNCHANGED <<time, counter, token, ghosts>>

MarketHistory(c) ==
    /\ Routed(c, "market_history") /\ Respond(c, 200)
    /\ UNCHANGED <<time, counter, cache, token, ghosts>>
-----------------------------------------------------------------------------
\* Login: the wallet that signed must be the one the message names; the token
\* carries its address in lower case.
Login(c, recovered, claimed) ==
    /\ Routed(c, "login")
    /\ recovered # None /\ claimed = recovered
    /\ token' = [token EXCEPT ![recovered] = Expiration]
    /\ Respond(c, 200)
    /\ UNCHANGED <<time, counter, cache, ghosts>>

\* A malformed body or message (400), a bad signature or another wallet's (401),
\* or a token that cannot be made (500).
LoginFails(c) ==
    /\ Routed(c, "login")
    /\ \E status \in {400, 401, 500} : Respond(c, status)
    /\ UNCHANGED <<time, counter, cache, token, ghosts>>

\* JWTAuthMiddleware with a wallet's token that has not expired.
Authenticate(c, a) ==
    /\ conn[c].at = "route" /\ conn[c].route \in Authed
    /\ token[a] > 0
    /\ conn' = [conn EXCEPT ![c] = [at |-> "authed", route |-> conn[c].route, wallet |-> a]]
    /\ UNCHANGED <<time, counter, cache, token, ghosts>>

\* No header, another format, or a token that is expired or not one of ours.
Unauthorized(c) ==
    /\ conn[c].at = "route" /\ conn[c].route \in Authed
    /\ Respond(c, 401)
    /\ UNCHANGED <<time, counter, cache, token, ghosts>>

\* GetPositions, and GetHistory with its limit and offset put within bounds: the
\* database answers or fails.
AccountRead(c) ==
    /\ conn[c].at = "authed" /\ conn[c].route \in {"positions", "account_history"}
    /\ \E status \in {200, 500} : Respond(c, status)
    /\ UNCHANGED <<time, counter, cache, token, ghosts>>

\* BuildTx: the calldata, or 500 from Recovery when the amount is too long for it.
BuildTx(c, action, asset, amount) ==
    /\ conn[c].at = "authed" /\ conn[c].route = "build"
    /\ IF Panics(2, amount.bytes) THEN Respond(c, 500)
       ELSE conn' = [conn EXCEPT ![c] =
              [at |-> "done", action |-> action, asset |-> asset, amount |-> amount,
               data |-> BuildTransaction(Selector[action], HexToAddress(asset), amount.bytes)]]
    /\ UNCHANGED <<time, counter, cache, token, ghosts>>

\* A body that does not bind, an amount that is no number, an unknown action.
BuildFails(c) ==
    /\ conn[c].at = "authed" /\ conn[c].route = "build"
    /\ Respond(c, 400)
    /\ UNCHANGED <<time, counter, cache, token, ghosts>>
-----------------------------------------------------------------------------
\* External: the market's rows change, and what was read of them is old.
MarketChanges ==
    /\ cache' = [k \in Key |-> IF cache[k] = None THEN None ELSE [cache[k] EXCEPT !.fresh = FALSE]]
    /\ conn' = [c \in Conn |-> IF conn[c].at = "read" THEN [conn[c] EXCEPT !.fresh = FALSE] ELSE conn[c]]
    /\ settled' = [k \in Key |-> 0]
    /\ UNCHANGED <<time, counter, token, passed>>

HeldOld(k) == \E c \in Conn : conn[c].at = "read" /\ conn[c].key = k /\ ~conn[c].fresh

\* A second passes: a counter that has none left is gone.
Tick ==
    /\ second' = (second + 1) % Minute
    /\ minute' = IF second' = 0 THEN (minute + 1) % MaxMinutes ELSE minute
    /\ counter' = [k \in LimitKey |-> IF counter[k].ttl <= 1 THEN NoCount
                                      ELSE [counter[k] EXCEPT !.ttl = @ - 1]]
    /\ second' = 0 => \A i \in Client : /\ counter'[<<i, minute'>>] = NoCount
                                        /\ \A c \in Conn : conn[c].at = "limit" => conn[c].key # <<i, minute'>>
    /\ passed' = IF second' = 0 THEN [i \in Client |-> 0] ELSE passed
    /\ cache' = [k \in Key |-> IF cache[k] = None \/ cache[k].ttl = 1 THEN None
                               ELSE [cache[k] EXCEPT !.ttl = @ - 1]]
    /\ token' = [a \in Address |-> Left(token[a])]
    /\ settled' = [k \in Key |-> IF HeldOld(k) THEN 0
                                 ELSE IF settled[k] < TTL[k] THEN settled[k] + 1 ELSE settled[k]]
    /\ UNCHANGED conn

Serve(c) ==
    \/ Close(c) \/ Preflight(c) \/ Health(c) \/ MarketFails(c) \/ MarketHistory(c)
    \/ LoginFails(c) \/ Unauthorized(c) \/ AccountRead(c) \/ BuildFails(c)
    \/ RateLimited(c) \/ FailOpen(c)
    \/ \E r \in Asked, i \in Client : KeyRequest(c, i, r)
    \/ \E k \in Key : MarketHit(c, k) \/ MarketRead(c, k)
    \/ \E ok \in BOOLEAN : MarketCached(c, ok)
    \/ \E a \in Address : Authenticate(c, a)
    \/ \E recovered, claimed \in Address \cup {None} : Login(c, recovered, claimed)
    \/ \E action \in DOMAIN Selector, asset \in Asset, amount \in Amount : BuildTx(c, action, asset, amount)

ApiNext == MarketChanges \/ Tick \/ \E c \in Conn : Serve(c)

ApiSpec == ApiInit /\ [][ApiNext]_vars
-----------------------------------------------------------------------------
\* However requests interleave and whenever in the minute they come, at most
\* RequestsPerMinute of a client's requests that get their key and are counted in one
\* minute are let through, while Redis counts: the counter outlives its minute.
\* (A request that is counted after its key's minute comes on top, and nothing bounds
\* what passes in the halves of two neighbouring minutes.)
QuotaPerMinute == \A i \in Client : passed[i] <= RequestsPerMinute

\* Once the market has not changed for a TTL and no request in flight still holds
\* an old value, the cache has none either: an old value written over a newer one
\* by a slow request goes with its TTL, however often it is read.
StaleAtMostTTL == \A k \in Key : settled[k] = TTL[k] => cache[k] = None \/ cache[k].fresh

WellFormed(asset) == ~asset.malformed /\ Len(asset.bytes) = AddressLen
Fits(amount) == ~amount.negative /\ Len(amount.bytes) <= WordLen

\* Calldata handed out for an amount that fits a word is the selector of the action
\* that was asked for, the word of the address HexToAddress makes of the asset, which
\* is the asset itself when that is well formed, and the word of the amount, none
\* reaching into another; so is the liquidation call for the same amount.
CalldataFaithful ==
    \A c \in Conn : "data" \in DOMAIN conn[c] =>
        LET d == conn[c]
            selector == Selector[d.action]
            address == IF WellFormed(d.asset) THEN d.asset.bytes ELSE HexToAddress(d.asset)
        IN Fits(d.amount) =>
             /\ d.data = selector \o PaddedWord(address) \o PaddedWord(d.amount.bytes)
             /\ \A x \in Asset \ {d.asset}, flag \in BOOLEAN :
                  BuildLiquidationCalldata(selector, HexToAddress(x), address, HexToAddress(x), d.amount.bytes, flag)
                  = selector \o PaddedWord(HexToAddress(x)) \o PaddedWord(address) \o PaddedWord(HexToAddress(x))
                    \o PaddedWord(d.amount.bytes) \o PaddedWord(IF flag THEN <<1>> ELSE <<>>)
-----------------------------------------------------------------------------
\* What a connection's request can be: waiting, keyed, behind the middleware, reading the
\* market, behind JWT, answered, or answered with calldata.
Answer == [at : {"done"}, ok : BOOLEAN]
CalldataAnswer ==
    {[at |-> "done", action |-> action, asset |-> x, amount |-> m,
      data |-> BuildTransaction(Selector[action], HexToAddress(x), m.bytes)] :
        action \in DOMAIN Selector, x \in Asset, m \in Amount}
Request ==
    {Idle} \cup [at : {"limit"}, key : LimitKey, route : Route]
    \cup [at : {"route"}, route : Route] \cup [at : {"read"}, key : Key, fresh : BOOLEAN]
    \cup [at : {"authed"}, route : Authed, wallet : Address] \cup Answer \cup CalldataAnswer

\* The types: a counter, an entry and a token hold what they have left, an entry
\* never more than its key's TTL.
ApiTypeOK ==
    /\ second \in 0..(Minute - 1) /\ minute \in MinuteNo
    /\ counter \in [LimitKey -> [n : Nat, ttl : Nat]] /\ passed \in [Client -> Nat]
    /\ conn \in [Conn -> Request]
    /\ token \in [Address -> Nat]
    /\ DOMAIN cache = Key /\ settled \in [Key -> Nat]
    /\ \A k \in Key : cache[k] = None \/ cache[k] \in [fresh : BOOLEAN, ttl : 1..TTL[k]]

\* Whoever was let through in time is in this minute's counter, which lives to the end
\* of the minute once it has a count.
CounterHolds ==
    \A i \in Client :
        LET this == counter[<<i, minute>>]
        IN passed[i] <= this.n /\ (this.n > 0 => this.ttl + second >= Minute)

\* While a request holds an old value nothing is settled, and an old value in the
\* cache is gone before its key can be settled for a TTL.
OldExpires ==
    \A k \in Key :
        /\ HeldOld(k) => settled[k] = 0
        /\ cache[k] # None /\ ~cache[k].fresh => settled[k] + cache[k].ttl <= TTL[k]

\* The inductive invariant behind QuotaPerMinute, StaleAtMostTTL and CalldataFaithful.
ApiInv == ApiTypeOK /\ CounterHolds /\ OldExpires /\ QuotaPerMinute
-----------------------------------------------------------------------------
\* What the docs and comments say and the code does not do.

\* The comment in BuildTransaction, "selector + asset + amount": also when the amount is
\* negative or too long for its word, or the asset is no address.
EveryCalldataFaithful ==
    \A c \in Conn : "data" \in DOMAIN conn[c] =>
        /\ ~conn[c].amount.negative /\ WellFormed(conn[c].asset)
        /\ ReadWord(conn[c].data, 1) = PaddedWord(conn[c].asset.bytes)
=============================================================================
