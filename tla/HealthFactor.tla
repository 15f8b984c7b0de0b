---------------------------- MODULE HealthFactor ----------------------------
(***************************************************************************)
(* scanner.CalculateHealthFactor over the rate computer's indices, and the *)
(* simplified figure account.GetOverview shows, from stored values.  One   *)
(* account: its collaterals and debts are functions of the market, an      *)
(* entry its principal and the user's index when it was opened.  Prices,   *)
(* decimals and thresholds are fields of the entries and stay as they are. *)
(* The figures are functions of the rate computer's state: no variables.   *)
(***************************************************************************)
EXTENDS RateComputer, Functions

CONSTANTS
    Balance,        \* principals
    PriceUSD, DecimalsFactor, LiquidationThreshold  \* functions of the market

ASSUME HealthAssumption ==
    /\ Balance \subseteq Nat /\ IsFiniteSet(Market)
    /\ \A m \in Market : /\ PriceUSD[m] \in Nat /\ DecimalsFactor[m] \in Nat \ {0}
                         /\ LiquidationThreshold[m] \in 0..RAY

\* The index provider, and RAY for a market it does not know.
IndexOr(m, index) == IF m \in DOMAIN pools THEN index ELSE RAY

\* principal * currentIndex / userIndex; a nil or zero index is no index.
ActualBalance(e, index) ==
    IF e.index = 0 THEN e.balance
    ELSE RayToWad(RayMul(WadToRay(e.balance), RayDiv(index, e.index)))

ValueUSD(m, balance) == (balance * PriceUSD[m]) \div DecimalsFactor[m]

SuppliedValue(cs, m, now) ==
    ValueUSD(m, ActualBalance(cs[m], IndexOr(m, CurrentLiquidityIndex(m, now))))
OwedValue(ds, m, now) ==
    ValueUSD(m, ActualBalance(ds[m], IndexOr(m, CurrentBorrowIndex(m, now))))

\* A mutation of TotalDebt: the last debt is taken for the sum.
TotalDebtLastOnly(ds, now) ==
    IF DOMAIN ds = {} THEN 0 ELSE WadToRay(OwedValue(ds, CHOOSE m \in DOMAIN ds : TRUE, now))

TotalDebt(ds, now) == SumFunction([m \in DOMAIN ds |-> WadToRay(OwedValue(ds, m, now))])

WeightedCollateral(cs, now) ==
    SumFunction([m \in DOMAIN cs |->
                   RayMul(WadToRay(SuppliedValue(cs, m, now)), LiquidationThreshold[m])])

\* A mutation of CalculateHealthFactor: the debt is inverted first, and rounded twice.
HealthFactorByInverse(cs, ds, now) ==
    IF TotalDebt(ds, now) = 0 THEN 1000 * RAY
    ELSE RayMul(WeightedCollateral(cs, now), RayDiv(RAY, TotalDebt(ds, now)))

CalculateHealthFactor(cs, ds, now) ==
    IF TotalDebt(ds, now) = 0 THEN 1000 * RAY
    ELSE RayDiv(WeightedCollateral(cs, now), TotalDebt(ds, now))

\* GetOverview: a stored position holds two decimal texts, of any age.  A text that
\* SetString refuses adds nothing; the shown health factor is the quotient of the sums,
\* and there is none without debt.
Text(usd) == [ok |-> TRUE, usd |-> usd]
Added(text) == IF text.ok THEN text.usd ELSE 0

TotalSupplyUSD(ps) == SumFunction([m \in DOMAIN ps |-> Added(ps[m].supply)])
TotalBorrowUSD(ps) == SumFunction([m \in DOMAIN ps |-> Added(ps[m].borrow)])

ShownBelowOne(ps) == TotalBorrowUSD(ps) > 0 /\ TotalSupplyUSD(ps) < TotalBorrowUSD(ps)
-----------------------------------------------------------------------------
\* The entries an account may hold in a market: opened at the first event the
\* program knows of, or at the last one.
Opened(m, field) ==
    {[balance |-> b, index |-> onChain[m][k].state[field]] : b \in Balance, k \in {1, delivered[m]}}

Accounts(field) ==
    UNION {{es \in [ms -> UNION {Opened(m, field) : m \in ms}] :
              \A m \in ms : es[m] \in Opened(m, field)} : ms \in SUBSET Market}

WithEntry(es, m, e) == [k \in DOMAIN es \cup {m} |-> IF k = m THEN e ELSE es[k]]

\* Whatever the pools, tracked or not, more debt never raises the health factor
\* of an account in debt and more collateral never lowers it.
HealthMonotone ==
    \A cs \in Accounts("liqIndex"), ds \in Accounts("borIndex") :
        TotalDebt(ds, clock) > 0 =>
            LET health == CalculateHealthFactor(cs, ds, clock)
            IN /\ \A m \in Market \ DOMAIN ds : \A e \in Opened(m, "borIndex") :
                     CalculateHealthFactor(cs, WithEntry(ds, m, e), clock) <= health
               /\ \A m \in Market \ DOMAIN cs : \A e \in Opened(m, "liqIndex") :
                     CalculateHealthFactor(WithEntry(cs, m, e), ds, clock) >= health

\* The rounding of RayDiv never makes a covered account liquidatable, and hides a
\* shortfall only if it is at most the debt's share of 1 / (2 * RAY).
RoundingFair ==
    \A cs \in Accounts("liqIndex"), ds \in Accounts("borIndex") :
        LET weighted == WeightedCollateral(cs, clock)
            debt == TotalDebt(ds, clock)
            health == CalculateHealthFactor(cs, ds, clock)
        IN /\ health < RAY => weighted < debt
           /\ 2 * RAY * (debt - weighted) > debt => health < RAY
-----------------------------------------------------------------------------
\* What the docs and comments say and the code does not do.

\* The positions of an account as they are stored, if each value is that of its entry.
Stored(cs, ds, now) ==
    [m \in DOMAIN cs \cup DOMAIN ds |->
        [supply |-> Text(IF m \in DOMAIN cs THEN SuppliedValue(cs, m, now) ELSE 0),
         borrow |-> Text(IF m \in DOMAIN ds THEN OwedValue(ds, m, now) ELSE 0)]]

\* The health factor shown is the one liquidations use ("shared with the liquidation
\* engine"): an account is shown below one when the scanner would liquidate it, at least
\* if its stored values are of now.
LiquidatableShown ==
    \A cs \in Accounts("liqIndex"), ds \in Accounts("borIndex") :
        CalculateHealthFactor(cs, ds, clock) < RAY => ShownBelowOne(Stored(cs, ds, clock))
=============================================================================
