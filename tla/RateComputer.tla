---------------------------- MODULE RateComputer ----------------------------
(***************************************************************************)
(* internal/liquidation/ratecomputer: the local copy of each lending pool, *)
(* moved by the pool's events (HandleEvent) and corrected by indices read  *)
(* from the chain (CalibratePool).  Every method holds rc.mu, so each is   *)
(* one action.  The lending contract, the event feed and the calibrator's  *)
(* read are external: the contract charges interest by the same formulas,  *)
(* the feed delivers a market's events in order and late, and a snapshot   *)
(* is applied some time after it was read.                                 *)
(***************************************************************************)
EXTENDS WadRay, Sequences, FiniteSets

CONSTANTS
    Market,
    Tracked,       \* markets the program follows; the others have no pool
    BaseRate, Slope1, Slope2, OptimalUtilization,  \* Model, Ray-scaled
    InitialSupply, InitialBorrow,  \* of every pool on the chain
    Delta,         \* <<supplyDelta, borrowDelta>> of an event; nil counts as 0
    MaxTime,       \* bound: seconds
    MaxEvents      \* bound: events of one market

ASSUME RateAssumption ==
    /\ {BaseRate, Slope1, Slope2, InitialSupply, InitialBorrow, MaxTime, MaxEvents} \subseteq Nat
    /\ OptimalUtilization \in 0..RAY
    /\ Tracked \subseteq Market /\ Delta \subseteq Int \X Int

VARIABLES
    clock,
    pools,      \* rc.pools: the pools SetPool has been called for
    onChain,    \* external: [state, event] of each market after each of its events
    delivered,  \* external: how many states of onChain the feed has got to
    snapshots,  \* external: indices read from the chain and not applied yet
    inStep,     \* ghost: the last snapshot applied was of the last event handled
    once        \* ghost: no event was handled twice

rateVars == <<clock, pools, onChain, delivered, snapshots, inStep, once>>
-----------------------------------------------------------------------------
CalculateUtilizationRate(supply, borrow) ==
    IF supply + borrow = 0 THEN 0
    ELSE RayDiv(WadToRay(borrow), WadToRay(supply + borrow))

\* A mutation of CalculateBorrowRate: above the kink, slope1 is forgotten.
BorrowRateWithoutSlope1(util) ==
    IF util <= OptimalUtilization
    THEN IF OptimalUtilization = 0 THEN BaseRate
         ELSE BaseRate + RayMul(RayDiv(util, OptimalUtilization), Slope1)
    ELSE BaseRate + RayMul(RayDiv(util - OptimalUtilization, RAY - OptimalUtilization), Slope2)

\* The jump-rate model.
CalculateBorrowRate(util) ==
    IF util <= OptimalUtilization
    THEN IF OptimalUtilization = 0 THEN BaseRate
         ELSE BaseRate + RayMul(RayDiv(util, OptimalUtilization), Slope1)
    ELSE LET remaining == IF RAY = OptimalUtilization THEN RAY ELSE RAY - OptimalUtilization
         IN BaseRate + Slope1 + RayMul(RayDiv(util - OptimalUtilization, remaining), Slope2)

CalculateSupplyRate(borrowRate, util) == RayMul(borrowRate, util)

\* A mutation of ExtrapolateIndex: a time before the last update is not caught, and
\* the conversion to an unsigned integer (of 16 bits here) makes a huge one of it.
ExtrapolateUnsigned(index, rate, last, now) ==
    RayMul(index, CalculateLinearInterest(rate, (now - last) % 65536))

ExtrapolateIndex(index, rate, last, now) ==
    IF now - last <= 0 THEN index
    ELSE RayMul(index, CalculateLinearInterest(rate, now - last))

\* The recalculation HandleEvent and CalibratePool end with.
Rated(p) ==
    LET util == CalculateUtilizationRate(p.supply, p.borrow)
        rate == CalculateBorrowRate(util)
    IN [p EXCEPT !.borRate = rate, !.supRate = CalculateSupplyRate(rate, util)]
-----------------------------------------------------------------------------
\* External: the contract after an operation that moves its totals by d at time
\* t.  Its blocks never go back in time and it refuses to go below zero.
ContractAccepts(c, d) == c.supply + d[1] >= 0 /\ c.borrow + d[2] >= 0

Contract(c, d, t) ==
    LET grown(index, rate) ==
            IF t = c.ts THEN index ELSE RayMul(index, CalculateLinearInterest(rate, t - c.ts))
        util == CalculateUtilizationRate(c.supply + d[1], c.borrow + d[2])
        rate == CalculateBorrowRate(util)
    IN [supply |-> c.supply + d[1], borrow |-> c.borrow + d[2],
        liqIndex |-> grown(c.liqIndex, c.supRate), borIndex |-> grown(c.borIndex, c.borRate),
        borRate |-> rate, supRate |-> CalculateSupplyRate(rate, util), ts |-> t]

InitialPool ==
    Rated([supply |-> InitialSupply, borrow |-> InitialBorrow, liqIndex |-> RAY,
           borIndex |-> RAY, borRate |-> 0, supRate |-> 0, ts |-> 0])

NoDelta == <<0, 0>>
Latest(m) == onChain[m][Len(onChain[m])].state
Unhandled(m) == delivered[m] < Len(onChain[m])

RateInit ==
    /\ clock = 0
    /\ pools = [m \in {} |-> InitialPool]
    /\ onChain = [m \in Market |-> <<[state |-> InitialPool, event |-> NoDelta]>>]
    /\ delivered = [m \in Market |-> 1]
    /\ snapshots = {}
    /\ inStep = [m \in Market |-> TRUE] /\ once = [m \in Market |-> TRUE]

Tick ==
    /\ clock < MaxTime
    /\ clock' = clock + 1
    /\ UNCHANGED <<pools, onChain, delivered, snapshots, inStep, once>>

\* A deposit, withdrawal, borrowing or repayment on the chain.
UseMarket(m, d) ==
    /\ Len(onChain[m]) <= MaxEvents
    /\ ContractAccepts(Latest(m), d)
    /\ onChain' = [onChain EXCEPT ![m] =
                     Append(@, [state |-> Contract(Latest(m), d, clock), event |-> d])]
    /\ UNCHANGED <<clock, pools, delivered, snapshots, inStep, once>>

\* SetPool, the first time or again, with the pool as it was on the chain after its
\* event n, the last one or an older one; the feed goes on from there.
SetPool(m, n) ==
    /\ pools' = [k \in DOMAIN pools \cup {m} |-> IF k = m THEN onChain[m][n].state ELSE pools[k]]
    /\ delivered' = [delivered EXCEPT ![m] = n]
    /\ inStep' = [inStep EXCEPT ![m] = TRUE] /\ once' = [once EXCEPT ![m] = TRUE]
    /\ UNCHANGED <<clock, onChain, snapshots>>

ClampedAtZero(n) == IF n < 0 THEN 0 ELSE n

\* A mutation of Handled: the rates of the new totals are charged for the past.
HandledRatesFirst(p, d, t) ==
    LET q == Rated([p EXCEPT !.supply = ClampedAtZero(@ + d[1]), !.borrow = ClampedAtZero(@ + d[2])])
    IN [q EXCEPT !.borIndex = ExtrapolateIndex(@, q.borRate, p.ts, t),
                 !.liqIndex = ExtrapolateIndex(@, q.supRate, p.ts, t), !.ts = t]

\* What HandleEvent makes of a pool: accrue to the event, apply it, recalculate.
Handled(p, d, t) ==
    Rated([p EXCEPT
        !.borIndex = ExtrapolateIndex(@, p.borRate, p.ts, t),
        !.liqIndex = ExtrapolateIndex(@, p.supRate, p.ts, t),
        !.ts = t,
        !.supply = ClampedAtZero(@ + d[1]),
        !.borrow = ClampedAtZero(@ + d[2])])

\* HandleEvent with the market's next event; without a pool it does nothing.
HandleEvent(m) ==
    /\ Unhandled(m)
    /\ delivered' = [delivered EXCEPT ![m] = @ + 1]
    /\ LET next == onChain[m][delivered[m] + 1]
       IN pools' = [k \in DOMAIN pools |->
                      IF k = m THEN Handled(pools[m], next.event, next.state.ts) ELSE pools[k]]
    /\ UNCHANGED <<clock, onChain, snapshots, inStep, once>>

\* External: the feed delivers at least once; a consumer that restarts before it
\* has committed gets its last event again.
Redeliver(m) ==
    /\ delivered[m] > 1 /\ once[m] /\ m \in DOMAIN pools
    /\ delivered' = [delivered EXCEPT ![m] = @ - 1]
    /\ once' = [once EXCEPT ![m] = FALSE]
    /\ UNCHANGED <<clock, pools, onChain, snapshots, inStep>>

\* External: the calibrator reads the contract's indices and their timestamp.
ReadIndices(m) ==
    /\ \A s \in snapshots : s.market # m
    /\ snapshots' = snapshots \cup
         {[market |-> m, at |-> Len(onChain[m]), borIndex |-> Latest(m).borIndex,
           liqIndex |-> Latest(m).liqIndex, ts |-> Latest(m).ts]}
    /\ UNCHANGED <<clock, pools, onChain, delivered, inStep, once>>

\* What CalibratePool makes of a pool; the deviation it returns is not kept.
Calibrated(p, s) ==
    Rated([p EXCEPT !.borIndex = s.borIndex, !.liqIndex = s.liqIndex, !.ts = s.ts])

CalibratePool(s) ==
    LET m == s.market
    IN /\ pools' = [k \in DOMAIN pools |-> IF k = m THEN Calibrated(pools[k], s) ELSE pools[k]]
       /\ inStep' = [inStep EXCEPT ![m] = m \notin DOMAIN pools \/ s.at = delivered[m]]
       /\ snapshots' = snapshots \ {s}
       /\ UNCHANGED <<clock, onChain, delivered, once>>

RateNext ==
    \/ Tick
    \/ \E m \in Tracked : HandleEvent(m) \/ Redeliver(m) \/ ReadIndices(m)
    \/ \E m \in Tracked : \E n \in 1..Len(onChain[m]) : SetPool(m, n)
    \/ \E m \in Tracked, d \in Delta : UseMarket(m, d)
    \/ \E s \in snapshots : CalibratePool(s)

RateSpec == RateInit /\ [][RateNext]_rateVars

\* CurrentBorrowIndex and CurrentLiquidityIndex of a market with a pool.
CurrentBorrowIndex(m, now) ==
    ExtrapolateIndex(pools[m].borIndex, pools[m].borRate, pools[m].ts, now)
CurrentLiquidityIndex(m, now) ==
    ExtrapolateIndex(pools[m].liqIndex, pools[m].supRate, pools[m].ts, now)
-----------------------------------------------------------------------------
\* "Locally replicates on-chain interest rate calculations": a pool is exactly
\* the contract as it was after the last event handled, totals, rates and
\* indices, as long as no event came twice and the last snapshot applied was of
\* that event; a snapshot of any other moment ends it until one is in step again.
ReplicatesPrefix ==
    \A m \in DOMAIN pools : inStep[m] /\ once[m] => pools[m] = onChain[m][delivered[m]].state

\* An event, late, early or repeated, never lowers an index and never charges more
\* than the highest rate for all the time there has been, whatever snapshots were
\* applied before it: its time may lie before the pool's, and timeDelta is unsigned.
MostInterest(index) == RayMul(index, CalculateLinearInterest(BaseRate + Slope1 + Slope2, clock))

AccrualBounded ==
    [][\A m \in DOMAIN pools :
         HandleEvent(m) =>
            /\ pools'[m].borIndex \in pools[m].borIndex..MostInterest(pools[m].borIndex)
            /\ pools'[m].liqIndex \in pools[m].liqIndex..MostInterest(pools[m].liqIndex)]_rateVars

\* The rate charged is the least of the rates at this or a higher utilization,
\* across the kink too, and stays between the model's ends.
RateRisesWithUse ==
    \A m \in DOMAIN pools :
        LET p == pools[m]
            util == CalculateUtilizationRate(p.supply, p.borrow)
        IN /\ p.borRate \in BaseRate..(BaseRate + Slope1 + Slope2)
           /\ \A u \in util..RAY : CalculateBorrowRate(u) >= p.borRate

\* The powers that CompoundedMatchesPower needs, as products.
Power(b, n) == <<1, b, b * b, b * b * b>>[n + 1]

\* CalculateCompoundedInterest against (1 + rate / year) ^ n, of which its three
\* terms are all there is for n <= 3, at the rates the pools reach: at most a unit
\* above, and below by the unit that each floored term may lose.
CompoundedMatchesPower ==
    \A m \in DOMAIN pools, n \in 0..3 :
        LET base == RAY * SECONDS_PER_YEAR
            diff == CalculateCompoundedInterest(pools[m].borRate, n) * Power(base, n)
                    - RAY * Power(base + pools[m].borRate, n)
        IN diff <= Power(base, n) /\ -diff <= 3 * Power(base, n)
-----------------------------------------------------------------------------
\* A pool, the program's or the contract's.
Pool == [supply : Nat, borrow : Nat, liqIndex : Nat, borIndex : Nat, borRate : Nat, supRate : Nat, ts : Nat]

\* The types; the feed is never ahead of the chain, and only followed markets have
\* a pool or a snapshot.
RateTypeOK ==
    /\ clock \in Nat
    /\ DOMAIN pools \subseteq Tracked /\ \A m \in DOMAIN pools : pools[m] \in Pool
    /\ onChain \in [Market -> Seq([state : Pool, event : Int \X Int])]
    /\ delivered \in [Market -> Nat] /\ \A m \in Market : delivered[m] \in 1..Len(onChain[m])
    /\ snapshots \subseteq [market : Tracked, at : Nat, borIndex : Nat, liqIndex : Nat, ts : Nat]
    /\ inStep \in [Market -> BOOLEAN] /\ once \in [Market -> BOOLEAN]

\* Every state of a market is what its event makes of the one before, at a time
\* between that one's and now.
ContractHistory ==
    \A m \in Market : \A j \in 1..Len(onChain[m]) :
        LET c == onChain[m][j].state
        IN /\ Rated(c) = c /\ c.ts <= clock
           /\ j > 1 => LET before == onChain[m][j - 1].state
                       IN before.ts <= c.ts /\ c = Contract(before, onChain[m][j].event, c.ts)

\* A snapshot holds the indices of one of the market's states.
SnapshotOfChain ==
    \A s \in snapshots :
        /\ s.at \in 1..Len(onChain[s.market])
        /\ LET c == onChain[s.market][s.at].state
           IN s.borIndex = c.borIndex /\ s.liqIndex = c.liqIndex /\ s.ts = c.ts

\* A pool's rates are those of its totals, and its totals are the contract's after
\* the last event handled, whatever snapshots were applied, unless one was handled twice.
TotalsFollow ==
    \A m \in DOMAIN pools :
        /\ Rated(pools[m]) = pools[m]
        /\ once[m] => LET c == onChain[m][delivered[m]].state
                      IN pools[m].supply = c.supply /\ pools[m].borrow = c.borrow

\* The inductive invariant behind ReplicatesPrefix, AccrualBounded and RateRisesWithUse.
RateInv == RateTypeOK /\ ContractHistory /\ SnapshotOfChain /\ TotalsFollow /\ ReplicatesPrefix
-----------------------------------------------------------------------------
\* What the docs and comments say and the code does not do.

\* The comment on RateComputer, "locally replicates on-chain": once every event is
\* handled and none twice, the borrow index is not above the contract's.  A snapshot applied ahead of its events is charged again:
\* the first of them moves LastUpdateTimestamp back.
AccruedOnce ==
    \A m \in DOMAIN pools : once[m] /\ ~Unhandled(m) => pools[m].borIndex <= Latest(m).borIndex
=============================================================================
