----------------------------- MODULE RateProofs -----------------------------
(***************************************************************************)
(* Proofs about RateComputer and HealthFactor for any scale, rate model,   *)
(* markets, deltas and delays: the copy of a pool against the contract,    *)
(* the indices, the rate model's shape, the health factors of every        *)
(* account, and the compounded interest.                                   *)
(***************************************************************************)
EXTENDS HealthFactor, FiniteSetTheorems, WellFoundedInduction, TLAPS

LEMMA RayPositive == RAY \in Nat \ {0}
<1>1. WAD \in Nat \ {0} /\ Factor \in Nat \ {0}
  BY WadRayAssumption
<1>2. \A a, b \in Nat \ {0} : a * b \in Nat \ {0}
  OBVIOUS
<1> QED BY <1>1, <1>2 DEF RAY

LEMMA DivAtLeast ==
    ASSUME NEW a \in Int, NEW b \in Nat \ {0}, NEW q \in Int, q * b <= a
    PROVE  a \div b >= q
OBVIOUS

LEMMA DivAtMost ==
    ASSUME NEW a \in Int, NEW b \in Nat \ {0}, NEW q \in Int, a < (q + 1) * b
    PROVE  a \div b <= q
OBVIOUS

LEMMA DivMonotone ==
    ASSUME NEW a \in Int, NEW c \in Int, NEW b \in Nat \ {0}, a <= c
    PROVE  a \div b <= c \div b
OBVIOUS

LEMMA HalfBelow ==
    ASSUME NEW b \in Nat \ {0}
    PROVE  b \div 2 \in Nat /\ b \div 2 < b
OBVIOUS

LEMMA TimesMonotone ==
    ASSUME NEW a \in Nat, NEW b \in Nat, NEW c \in Nat, a <= b
    PROVE  a * c \in Nat /\ b * c \in Nat /\ a * c <= b * c
OBVIOUS
-----------------------------------------------------------------------------
\* RayMul is monotone, RAY is its one, and a factor of at least one never shrinks.
LEMMA RayMulMonotone ==
    ASSUME NEW a \in Nat, NEW b \in Nat, NEW c \in Nat, a <= b
    PROVE  RayMul(a, c) \in Nat /\ RayMul(b, c) \in Nat /\ RayMul(a, c) <= RayMul(b, c)
<1> DEFINE h == RAY \div 2
<1>1. h \in Nat /\ RAY \in Nat \ {0}
  BY RayPositive, HalfBelow
<1>2. a * c \in Nat /\ b * c \in Nat /\ a * c <= b * c
  BY TimesMonotone
<1> HIDE DEF h
<1>3. a * c + h \in Nat /\ b * c + h \in Nat /\ a * c + h <= b * c + h
  BY <1>1, <1>2
<1>4. (a * c + h) \div RAY <= (b * c + h) \div RAY
  BY <1>1, <1>3, DivMonotone
<1>5. \A x \in Nat : x \div RAY \in Nat
  BY <1>1
<1> QED BY <1>3, <1>4, <1>5 DEF RayMul, MulAt, h

LEMMA RayMulNat == \A a, c \in Nat : RayMul(a, c) \in Nat
<1> SUFFICES ASSUME NEW a \in Nat, NEW c \in Nat PROVE RayMul(a, c) \in Nat
  OBVIOUS
<1>1. a <= a
  OBVIOUS
<1> QED BY <1>1, RayMulMonotone

\* No time at any rate leaves at least one.
LEMMA InterestNat ==
    ASSUME NEW r \in Nat, NEW s \in Nat
    PROVE  CalculateLinearInterest(r, s) \in Nat /\ RAY <= CalculateLinearInterest(r, s)
<1>1. PICK x \in Nat : x = r * s
  OBVIOUS
<1>2. x \div SECONDS_PER_YEAR \in Nat
  BY WadRayAssumption
<1> QED BY <1>1, <1>2, RayPositive DEF CalculateLinearInterest

LEMMA RayMulCommutes == \A a, b \in Nat : RayMul(a, b) = RayMul(b, a)
<1>1. \A a, b \in Nat : a * b = b * a
  OBVIOUS
<1> QED BY <1>1 DEF RayMul, MulAt

LEMMA RayMulOne ==
    ASSUME NEW a \in Nat
    PROVE  RayMul(a, RAY) = a /\ RayMul(RAY, a) = a
<1> DEFINE h == RAY \div 2
<1>1. h \in Nat /\ RAY \in Nat \ {0} /\ h < RAY
  BY RayPositive, HalfBelow
<1> HIDE DEF h
<1>2. a * RAY \in Nat /\ a * RAY <= a * RAY + h /\ a * RAY + h < (a + 1) * RAY
  BY <1>1
<1>3. (a * RAY + h) \div RAY >= a /\ (a * RAY + h) \div RAY <= a
  BY <1>1, <1>2, DivAtLeast, DivAtMost
<1>4. (a * RAY + h) \div RAY \in Nat
  BY <1>1, <1>2
<1>5. RayMul(a, RAY) = a
  BY <1>3, <1>4 DEF RayMul, MulAt, h
<1> QED BY <1>1, <1>5, RayMulCommutes

LEMMA RayDivMonotone ==
    ASSUME NEW a \in Nat, NEW b \in Nat, NEW c \in Nat \ {0}, a <= b
    PROVE  RayDiv(a, c) \in Nat /\ RayDiv(b, c) \in Nat /\ RayDiv(a, c) <= RayDiv(b, c)
<1> DEFINE h == c \div 2
<1>1. h \in Nat /\ RAY \in Nat
  BY RayPositive, HalfBelow
<1>2. a * RAY \in Nat /\ b * RAY \in Nat /\ a * RAY <= b * RAY
  BY <1>1, TimesMonotone
<1> HIDE DEF h
<1>3. a * RAY + h \in Nat /\ b * RAY + h \in Nat /\ a * RAY + h <= b * RAY + h
  BY <1>1, <1>2
<1>4. (a * RAY + h) \div c <= (b * RAY + h) \div c
  BY <1>3, DivMonotone
<1>5. \A x \in Nat : x \div c \in Nat
  OBVIOUS
<1> QED BY <1>3, <1>4, <1>5 DEF RayDiv, DivAt, h

LEMMA RayDivWhole ==
    ASSUME NEW c \in Nat \ {0}
    PROVE  RayDiv(c, c) = RAY
<1> DEFINE h == c \div 2
<1>1. h \in Nat /\ RAY \in Nat /\ h < c
  BY RayPositive, HalfBelow
<1> HIDE DEF h
<1>2. c * RAY \in Nat /\ RAY * c <= c * RAY + h /\ c * RAY + h < (RAY + 1) * c
  BY <1>1
<1>3. (c * RAY + h) \div c >= RAY /\ (c * RAY + h) \div c <= RAY
  BY <1>1, <1>2, DivAtLeast, DivAtMost
<1>4. (c * RAY + h) \div c \in Nat
  BY <1>1, <1>2
<1> QED BY <1>1, <1>3, <1>4 DEF RayDiv, DivAt, h

\* A share of a whole is between nothing and RAY.
LEMMA RayShare ==
    ASSUME NEW c \in Nat \ {0}, NEW a \in 0..c
    PROVE  RayDiv(a, c) \in 0..RAY
<1>1. RayDiv(a, c) \in Nat /\ RayDiv(a, c) <= RayDiv(c, c)
  BY RayDivMonotone
<1> QED BY <1>1, RayDivWhole, RayPositive

LEMMA RayMulShare ==
    ASSUME NEW a \in 0..RAY, NEW c \in Nat
    PROVE  RayMul(a, c) \in 0..c
<1>1. RayMul(a, c) \in Nat /\ RayMul(a, c) <= RayMul(RAY, c)
  BY RayPositive, RayMulMonotone
<1> QED BY <1>1, RayMulOne
-----------------------------------------------------------------------------
\* A pool's utilization is a share, whatever its totals.
LEMMA UtilizationIsShare ==
    ASSUME NEW supply \in Nat, NEW borrow \in Nat
    PROVE  CalculateUtilizationRate(supply, borrow) \in 0..RAY
<1>1. CASE supply + borrow = 0
  BY <1>1, RayPositive DEF CalculateUtilizationRate
<1>2. CASE supply + borrow # 0
  <2> DEFINE part == borrow * Factor
             whole == (supply + borrow) * Factor
  <2>1. supply + borrow \in Nat \ {0} /\ Factor \in Nat \ {0} /\ borrow <= supply + borrow
    BY <1>2, WadRayAssumption
  <2>2. part \in Nat /\ whole \in Nat /\ part <= whole
    BY <2>1, TimesMonotone
  <2>3. whole # 0
    <3>1. \A a, b \in Nat \ {0} : a * b # 0
      OBVIOUS
    <3> QED BY <2>1, <3>1
  <2> HIDE DEF part, whole
  <2>4. RayDiv(part, whole) \in 0..RAY
    BY <2>2, <2>3, RayShare
  <2> QED BY <1>2, <2>4 DEF CalculateUtilizationRate, WadToRay, part, whole
<1> QED BY <1>1, <1>2

\* The two branches of the jump-rate model, from the base rate to slope1 and from
\* there to slope2.
LEMMA BelowKink ==
    ASSUME NEW u \in 0..OptimalUtilization, OptimalUtilization # 0
    PROVE  /\ RayDiv(u, OptimalUtilization) \in 0..RAY
           /\ RayMul(RayDiv(u, OptimalUtilization), Slope1) \in 0..Slope1
<1>1. OptimalUtilization \in Nat \ {0} /\ Slope1 \in Nat
  BY RateAssumption, RayPositive
<1> QED BY <1>1, RayShare, RayMulShare

LEMMA AboveKink ==
    ASSUME NEW u \in (OptimalUtilization + 1)..RAY
    PROVE  /\ RAY - OptimalUtilization \in Nat \ {0} /\ u - OptimalUtilization \in 0..(RAY - OptimalUtilization)
           /\ RAY # OptimalUtilization
           /\ RayDiv(u - OptimalUtilization, RAY - OptimalUtilization) \in 0..RAY
           /\ RayMul(RayDiv(u - OptimalUtilization, RAY - OptimalUtilization), Slope2) \in 0..Slope2
<1>1. OptimalUtilization \in Nat /\ Slope2 \in Nat /\ RAY \in Nat
  BY RateAssumption, RayPositive
<1>2. /\ RAY - OptimalUtilization \in Nat \ {0} /\ u - OptimalUtilization \in 0..(RAY - OptimalUtilization)
      /\ RAY # OptimalUtilization
  BY <1>1
<1>3. RayDiv(u - OptimalUtilization, RAY - OptimalUtilization) \in 0..RAY
  BY <1>2, RayShare
<1> QED BY <1>1, <1>2, <1>3, RayMulShare

LEMMA BorrowRateLow ==
    ASSUME NEW u \in 0..OptimalUtilization
    PROVE  CalculateBorrowRate(u) \in BaseRate..(BaseRate + Slope1)
<1>1. /\ OptimalUtilization \in Nat /\ BaseRate \in Nat /\ Slope1 \in Nat
      /\ u <= OptimalUtilization
  BY RateAssumption, RayPositive
<1>2. CASE OptimalUtilization = 0
  BY <1>1, <1>2 DEF CalculateBorrowRate
<1>3. CASE OptimalUtilization # 0
  <2>1. CalculateBorrowRate(u) = BaseRate + RayMul(RayDiv(u, OptimalUtilization), Slope1)
    BY <1>1, <1>3 DEF CalculateBorrowRate
  <2> QED BY <1>1, <1>3, <2>1, BelowKink
<1> QED BY <1>2, <1>3

LEMMA BorrowRateHigh ==
    ASSUME NEW u \in (OptimalUtilization + 1)..RAY
    PROVE  /\ CalculateBorrowRate(u)
                = BaseRate + Slope1 + RayMul(RayDiv(u - OptimalUtilization, RAY - OptimalUtilization), Slope2)
           /\ CalculateBorrowRate(u) \in (BaseRate + Slope1)..(BaseRate + Slope1 + Slope2)
<1>1. /\ OptimalUtilization \in Nat /\ BaseRate \in Nat /\ Slope1 \in Nat /\ Slope2 \in Nat
      /\ ~(u <= OptimalUtilization)
  BY RateAssumption, RayPositive
<1>2. RAY # OptimalUtilization
      /\ RayMul(RayDiv(u - OptimalUtilization, RAY - OptimalUtilization), Slope2) \in 0..Slope2
  BY AboveKink
<1>3. CalculateBorrowRate(u)
      = BaseRate + Slope1 + RayMul(RayDiv(u - OptimalUtilization, RAY - OptimalUtilization), Slope2)
  BY <1>1, <1>2 DEF CalculateBorrowRate
<1> QED BY <1>1, <1>2, <1>3

\* A higher utilization never costs less, on either side of the kink and across it,
\* and the rate stays between the model's ends.
LEMMA BorrowRateRises ==
    ASSUME NEW u \in 0..RAY, NEW v \in u..RAY
    PROVE  /\ CalculateBorrowRate(u) \in BaseRate..(BaseRate + Slope1 + Slope2)
           /\ CalculateBorrowRate(u) <= CalculateBorrowRate(v)
<1> DEFINE Opt == OptimalUtilization
<1>1. /\ Opt \in Nat /\ BaseRate \in Nat /\ Slope1 \in Nat /\ Slope2 \in Nat /\ RAY \in Nat
      /\ u \in Nat /\ v \in Nat /\ u <= v /\ v <= RAY
  BY RateAssumption, RayPositive
<1>2. u \in 0..Opt \/ u \in (Opt + 1)..RAY
  BY <1>1
<1>3. CalculateBorrowRate(u) \in BaseRate..(BaseRate + Slope1 + Slope2)
  BY <1>1, <1>2, BorrowRateLow, BorrowRateHigh
<1>4. CASE v <= Opt
  <2>1. u \in 0..Opt /\ v \in 0..Opt /\ u <= Opt
    BY <1>1, <1>4
  <2>2. CASE Opt = 0
    BY <1>1, <1>4, <2>1, <2>2 DEF CalculateBorrowRate
  <2>3. CASE Opt # 0
    <3>1. /\ RayDiv(u, Opt) \in Nat /\ RayDiv(v, Opt) \in Nat /\ RayDiv(u, Opt) <= RayDiv(v, Opt)
      BY <1>1, <2>3, RayDivMonotone
    <3>2. /\ RayMul(RayDiv(u, Opt), Slope1) \in Nat /\ RayMul(RayDiv(v, Opt), Slope1) \in Nat
          /\ RayMul(RayDiv(u, Opt), Slope1) <= RayMul(RayDiv(v, Opt), Slope1)
      BY <1>1, <3>1, RayMulMonotone
    <3>3. /\ CalculateBorrowRate(u) = BaseRate + RayMul(RayDiv(u, Opt), Slope1)
          /\ CalculateBorrowRate(v) = BaseRate + RayMul(RayDiv(v, Opt), Slope1)
      BY <1>4, <2>1, <2>3 DEF CalculateBorrowRate
    <3> QED BY <1>1, <1>3, <3>2, <3>3
  <2> QED BY <2>2, <2>3
<1>5. CASE v > Opt /\ u <= Opt
  <2>1. u \in 0..Opt /\ v \in (Opt + 1)..RAY
    BY <1>1, <1>5
  <2>2. /\ CalculateBorrowRate(u) \in BaseRate..(BaseRate + Slope1)
        /\ CalculateBorrowRate(v) \in (BaseRate + Slope1)..(BaseRate + Slope1 + Slope2)
    BY <2>1, BorrowRateLow, BorrowRateHigh
  <2> QED BY <1>1, <1>3, <2>2
<1>6. CASE u > Opt
  <2>1. u \in (Opt + 1)..RAY /\ v \in (Opt + 1)..RAY
    BY <1>1, <1>6
  <2> DEFINE x == u - Opt
             y == v - Opt
             rest == RAY - Opt
  <2>2. x \in Nat /\ y \in Nat /\ x <= y /\ rest \in Nat \ {0}
    BY <1>1, <1>6
  <2>3. /\ CalculateBorrowRate(u) = BaseRate + Slope1 + RayMul(RayDiv(x, rest), Slope2)
        /\ CalculateBorrowRate(v) = BaseRate + Slope1 + RayMul(RayDiv(y, rest), Slope2)
    BY <2>1, BorrowRateHigh
  <2> HIDE DEF x, y, rest
  <2>4. RayDiv(x, rest) \in Nat /\ RayDiv(y, rest) \in Nat /\ RayDiv(x, rest) <= RayDiv(y, rest)
    BY <2>2, RayDivMonotone
  <2>5. /\ RayMul(RayDiv(x, rest), Slope2) \in Nat /\ RayMul(RayDiv(y, rest), Slope2) \in Nat
        /\ RayMul(RayDiv(x, rest), Slope2) <= RayMul(RayDiv(y, rest), Slope2)
    BY <1>1, <2>4, RayMulMonotone
  <2> QED BY <1>1, <1>3, <2>3, <2>5
<1> QED BY <1>1, <1>4, <1>5, <1>6

\* Interest is a factor of at least one, so an index never falls with time, and a time
\* before the last update leaves it alone.
LEMMA ExtrapolateGrows ==
    ASSUME NEW index \in Nat, NEW rate \in Nat, NEW last \in Nat, NEW now \in Nat
    PROVE  ExtrapolateIndex(index, rate, last, now) \in Nat
           /\ ExtrapolateIndex(index, rate, last, now) >= index
<1>1. CASE now - last <= 0
  BY <1>1 DEF ExtrapolateIndex
<1>2. CASE ~(now - last <= 0)
  <2> DEFINE f == CalculateLinearInterest(rate, now - last)
  <2>1. f \in Nat /\ RAY <= f
    <3>1. now - last \in Nat
      BY <1>2
    <3>2. rate * (now - last) \in Nat
      BY <3>1
    <3>3. (rate * (now - last)) \div SECONDS_PER_YEAR \in Nat
      BY <3>2, WadRayAssumption
    <3> QED BY <3>3, RayPositive DEF CalculateLinearInterest
  <2>2. ExtrapolateIndex(index, rate, last, now) = RayMul(index, f)
    BY <1>2 DEF ExtrapolateIndex
  <2> HIDE DEF f
  <2>3. RayMul(RAY, index) <= RayMul(f, index) /\ RayMul(f, index) \in Nat
    BY <2>1, RayPositive, RayMulMonotone
  <2>4. RayMul(RAY, index) = index /\ RayMul(index, f) = RayMul(f, index)
    BY <2>1, RayMulOne, RayMulCommutes
  <2> QED BY <2>2, <2>3, <2>4
<1> QED BY <1>1, <1>2

\* More time and a higher rate never earn less.
LEMMA InterestMonotone ==
    ASSUME NEW r \in Nat, NEW q \in Nat, NEW s \in Nat, NEW t \in Nat, r <= q, s <= t
    PROVE  /\ CalculateLinearInterest(r, s) \in Nat /\ CalculateLinearInterest(q, t) \in Nat
           /\ CalculateLinearInterest(r, s) <= CalculateLinearInterest(q, t)
<1>1. r * s \in Nat /\ q * s \in Nat /\ r * s <= q * s
  BY TimesMonotone
<1>2. s * q \in Nat /\ t * q \in Nat /\ s * q <= t * q
  BY TimesMonotone
<1>3. s * q = q * s /\ t * q = q * t
  OBVIOUS
<1>4. PICK x \in Nat, y \in Nat : x = r * s /\ y = q * t /\ x <= y
  BY <1>1, <1>2, <1>3
<1>5. x \div SECONDS_PER_YEAR \in Nat /\ y \div SECONDS_PER_YEAR \in Nat
      /\ x \div SECONDS_PER_YEAR <= y \div SECONDS_PER_YEAR
  <2>1. PICK n \in Nat : n = SECONDS_PER_YEAR /\ n > 0
    BY WadRayAssumption
  <2>2. x \div n \in Nat /\ y \div n \in Nat /\ x \div n <= y \div n
    BY <1>4, <2>1, DivMonotone
  <2> QED BY <2>1, <2>2
<1> QED BY <1>4, <1>5, RayPositive DEF CalculateLinearInterest

\* What is charged from one time to another is at most what a higher rate charges for
\* the whole time to a later one.
LEMMA ExtrapolateBounded ==
    ASSUME NEW index \in Nat, NEW rate \in Nat, NEW last \in Nat, NEW now \in Nat,
           NEW top \in Nat, NEW end \in Nat, rate <= top, now <= end
    PROVE  ExtrapolateIndex(index, rate, last, now) <= RayMul(index, CalculateLinearInterest(top, end))
<1>1. PICK g \in Nat : g = CalculateLinearInterest(top, end) /\ RAY <= g
  BY InterestNat
<1>2. CASE now - last <= 0
  <2>1. RayMul(RAY, index) <= RayMul(g, index) /\ RayMul(g, index) \in Nat
    BY <1>1, RayPositive, RayMulMonotone
  <2>2. RayMul(RAY, index) = index /\ RayMul(index, g) = RayMul(g, index)
    BY RayMulOne, RayMulCommutes
  <2> QED BY <1>1, <1>2, <2>1, <2>2 DEF ExtrapolateIndex
<1>3. CASE ~(now - last <= 0)
  <2>1. now - last \in Nat /\ now - last <= end
    BY <1>3
  <2>2. PICK f \in Nat : f = CalculateLinearInterest(rate, now - last) /\ f <= g
    BY <1>1, <2>1, InterestMonotone
  <2>3. RayMul(f, index) <= RayMul(g, index) /\ RayMul(f, index) \in Nat /\ RayMul(g, index) \in Nat
    BY <2>2, RayMulMonotone
  <2>4. RayMul(index, f) = RayMul(f, index) /\ RayMul(index, g) = RayMul(g, index)
    BY RayMulCommutes
  <2>5. ExtrapolateIndex(index, rate, last, now) = RayMul(index, f)
    BY <1>3, <2>2 DEF ExtrapolateIndex
  <2> QED BY <1>1, <2>3, <2>4, <2>5
<1> QED BY <1>2, <1>3
-----------------------------------------------------------------------------
RateOf(p) == CalculateBorrowRate(CalculateUtilizationRate(p.supply, p.borrow))
SupplyRateOf(p) == CalculateSupplyRate(RateOf(p), CalculateUtilizationRate(p.supply, p.borrow))

LEMMA RatedIs ==
    ASSUME NEW p \in Pool
    PROVE  Rated(p) = [p EXCEPT !.borRate = RateOf(p), !.supRate = SupplyRateOf(p)]
BY DEF Rated, RateOf, SupplyRateOf

LEMMA PoolEqual ==
    ASSUME NEW p \in Pool, NEW q \in Pool,
           p.supply = q.supply, p.borrow = q.borrow, p.liqIndex = q.liqIndex, p.borIndex = q.borIndex,
           p.borRate = q.borRate, p.supRate = q.supRate, p.ts = q.ts
    PROVE  p = q
BY DEF Pool

Replaced(p, b, l, t, x, y) ==
    [p EXCEPT !.borIndex = b, !.liqIndex = l, !.ts = t, !.supply = x, !.borrow = y]

LEMMA ReplacedIs ==
    ASSUME NEW p \in Pool, NEW b \in Nat, NEW l \in Nat, NEW t \in Nat, NEW x \in Nat, NEW y \in Nat
    PROVE  Replaced(p, b, l, t, x, y)
           = [supply |-> x, borrow |-> y, liqIndex |-> l, borIndex |-> b,
              borRate |-> p.borRate, supRate |-> p.supRate, ts |-> t]
<1> DEFINE e == [p EXCEPT !.borIndex = b, !.liqIndex = l, !.ts = t, !.supply = x, !.borrow = y]
           f == [supply |-> x, borrow |-> y, liqIndex |-> l, borIndex |-> b,
                 borRate |-> p.borRate, supRate |-> p.supRate, ts |-> t]
<1>1. e \in Pool
  BY DEF Pool
<1>2. f \in Pool
  BY DEF Pool
<1>3. /\ e.supply = x /\ e.borrow = y /\ e.liqIndex = l /\ e.borIndex = b
      /\ e.borRate = p.borRate /\ e.supRate = p.supRate /\ e.ts = t
  BY DEF Pool
<1>4. /\ f.supply = x /\ f.borrow = y /\ f.liqIndex = l /\ f.borIndex = b
      /\ f.borRate = p.borRate /\ f.supRate = p.supRate /\ f.ts = t
  OBVIOUS
<1> HIDE DEF e, f
<1>5. e = f
  BY <1>1, <1>2, <1>3, <1>4, PoolEqual
<1> QED BY <1>5 DEF e, f, Replaced

\* Recalculation replaces the two rates by those of the totals.
LEMMA RatedFields ==
    ASSUME NEW p \in Pool
    PROVE  /\ RateOf(p) \in Nat /\ SupplyRateOf(p) \in Nat
           /\ Rated(p) = [supply |-> p.supply, borrow |-> p.borrow, liqIndex |-> p.liqIndex,
                          borIndex |-> p.borIndex, borRate |-> RateOf(p), supRate |-> SupplyRateOf(p),
                          ts |-> p.ts]
           /\ Rated(p) \in Pool
<1> DEFINE util == CalculateUtilizationRate(p.supply, p.borrow)
<1>1. p.supply \in Nat /\ p.borrow \in Nat
  BY DEF Pool
<1>2. util \in 0..RAY
  BY <1>1, UtilizationIsShare
<1> HIDE DEF util
<1>3. CalculateBorrowRate(util) \in Nat
  <2>1. util \in util..RAY
    BY <1>2, RayPositive
  <2>2. CalculateBorrowRate(util) \in BaseRate..(BaseRate + Slope1 + Slope2)
    BY <1>2, <2>1, BorrowRateRises
  <2> QED BY <2>2, RateAssumption
<1>4. RayMul(CalculateBorrowRate(util), util) \in Nat
  <2>1. util \in Nat
    BY <1>2, RayPositive
  <2> QED BY <1>3, <2>1, RayMulMonotone
<1>5. RateOf(p) \in Nat /\ SupplyRateOf(p) \in Nat
  BY <1>3, <1>4 DEF RateOf, SupplyRateOf, CalculateSupplyRate, util
<1>6. Rated(p) = [p EXCEPT !.borRate = RateOf(p), !.supRate = SupplyRateOf(p)]
  BY RatedIs
<1>7. Rated(p) = [supply |-> p.supply, borrow |-> p.borrow, liqIndex |-> p.liqIndex,
                  borIndex |-> p.borIndex, borRate |-> RateOf(p), supRate |-> SupplyRateOf(p),
                  ts |-> p.ts]
  BY <1>6 DEF Pool
<1>8. Rated(p) \in Pool
  BY <1>5, <1>7 DEF Pool
<1> QED BY <1>5, <1>7, <1>8

\* Recalculating again changes nothing.
LEMMA RatedPool ==
    ASSUME NEW p \in Pool
    PROVE  /\ Rated(p) = [supply |-> p.supply, borrow |-> p.borrow, liqIndex |-> p.liqIndex,
                          borIndex |-> p.borIndex, borRate |-> RateOf(p), supRate |-> SupplyRateOf(p),
                          ts |-> p.ts]
           /\ Rated(p) \in Pool /\ Rated(Rated(p)) = Rated(p)
<1>1. PICK q \in Pool :
        q = Rated(p) /\ q = [supply |-> p.supply, borrow |-> p.borrow, liqIndex |-> p.liqIndex,
                             borIndex |-> p.borIndex, borRate |-> RateOf(p), supRate |-> SupplyRateOf(p),
                             ts |-> p.ts]
  BY RatedFields
<1>2. /\ q.supply = p.supply /\ q.borrow = p.borrow /\ q.liqIndex = p.liqIndex
      /\ q.borIndex = p.borIndex /\ q.borRate = RateOf(p) /\ q.supRate = SupplyRateOf(p) /\ q.ts = p.ts
  BY <1>1
<1>3. RateOf(q) = RateOf(p) /\ SupplyRateOf(q) = SupplyRateOf(p)
  BY <1>2 DEF RateOf, SupplyRateOf
<1>4. Rated(q) = [supply |-> q.supply, borrow |-> q.borrow, liqIndex |-> q.liqIndex,
                  borIndex |-> q.borIndex, borRate |-> RateOf(q), supRate |-> SupplyRateOf(q),
                  ts |-> q.ts]
  BY RatedFields
<1>5. Rated(q) = q
  BY <1>1, <1>2, <1>3, <1>4
<1> QED BY <1>1, <1>5

\* A pool that is its own recalculation carries the rates of its totals.
LEMMA RatedRates ==
    ASSUME NEW p \in Pool, Rated(p) = p
    PROVE  p.borRate = RateOf(p) /\ p.supRate = SupplyRateOf(p)
<1>1. Rated(p).borRate = RateOf(p) /\ Rated(p).supRate = SupplyRateOf(p)
  BY RatedPool
<1> QED BY <1>1

\* The pool HandleEvent recalculates: accrued to the event, with its totals.
Moved(p, d, t) ==
    [supply |-> ClampedAtZero(p.supply + d[1]), borrow |-> ClampedAtZero(p.borrow + d[2]),
     liqIndex |-> ExtrapolateIndex(p.liqIndex, p.supRate, p.ts, t),
     borIndex |-> ExtrapolateIndex(p.borIndex, p.borRate, p.ts, t),
     borRate |-> p.borRate, supRate |-> p.supRate, ts |-> t]

LEMMA HandledPool ==
    ASSUME NEW p \in Pool, NEW d \in Int \X Int, NEW t \in Nat
    PROVE  /\ Moved(p, d, t) \in Pool /\ Handled(p, d, t) = Rated(Moved(p, d, t))
           /\ Handled(p, d, t) \in Pool /\ Rated(Handled(p, d, t)) = Handled(p, d, t)
           /\ Handled(p, d, t).borIndex >= p.borIndex /\ Handled(p, d, t).liqIndex >= p.liqIndex
           /\ Handled(p, d, t).borIndex = ExtrapolateIndex(p.borIndex, p.borRate, p.ts, t)
           /\ Handled(p, d, t).liqIndex = ExtrapolateIndex(p.liqIndex, p.supRate, p.ts, t)
           /\ Handled(p, d, t).supply = ClampedAtZero(p.supply + d[1])
           /\ Handled(p, d, t).borrow = ClampedAtZero(p.borrow + d[2])
<1> DEFINE L == ExtrapolateIndex(p.liqIndex, p.supRate, p.ts, t)
           B == ExtrapolateIndex(p.borIndex, p.borRate, p.ts, t)
           q == Moved(p, d, t)
<1>1. /\ p.supply \in Nat /\ p.borrow \in Nat /\ p.liqIndex \in Nat /\ p.borIndex \in Nat
      /\ p.borRate \in Nat /\ p.supRate \in Nat /\ p.ts \in Nat
      /\ d[1] \in Int /\ d[2] \in Int
  BY DEF Pool
<1>2. L \in Nat /\ L >= p.liqIndex /\ B \in Nat /\ B >= p.borIndex
  BY <1>1, ExtrapolateGrows
<1>3. ClampedAtZero(p.supply + d[1]) \in Nat /\ ClampedAtZero(p.borrow + d[2]) \in Nat
  BY <1>1 DEF ClampedAtZero
<1>4. q \in Pool
  BY <1>1, <1>2, <1>3 DEF Moved, Pool
<1>5. Handled(p, d, t) = Rated(q)
  <2> DEFINE x == ClampedAtZero(p.supply + d[1])
             y == ClampedAtZero(p.borrow + d[2])
  <2>1. Handled(p, d, t) = Rated(Replaced(p, B, L, t, x, y))
    BY DEF Handled, Replaced, Pool
  <2>2. q = [supply |-> x, borrow |-> y, liqIndex |-> L, borIndex |-> B,
             borRate |-> p.borRate, supRate |-> p.supRate, ts |-> t]
    BY DEF Moved
  <2>3. x \in Nat /\ y \in Nat /\ B \in Nat /\ L \in Nat
    BY <1>2, <1>3
  <2> HIDE DEF x, y, q, B, L
  <2>4. Replaced(p, B, L, t, x, y) = q
    BY <2>2, <2>3, ReplacedIs
  <2> QED BY <2>1, <2>4
<1>6. q.liqIndex = L /\ q.borIndex = B /\ q.supply = ClampedAtZero(p.supply + d[1])
      /\ q.borrow = ClampedAtZero(p.borrow + d[2])
  BY DEF Moved
<1> HIDE DEF q, L, B
<1>7. Rated(q) = [supply |-> q.supply, borrow |-> q.borrow, liqIndex |-> q.liqIndex,
                  borIndex |-> q.borIndex, borRate |-> RateOf(q), supRate |-> SupplyRateOf(q),
                  ts |-> q.ts]
      /\ Rated(q) \in Pool /\ Rated(Rated(q)) = Rated(q)
  BY <1>4, RatedPool
<1>8. Rated(q).borIndex = B /\ Rated(q).liqIndex = L
      /\ Rated(q).supply = ClampedAtZero(p.supply + d[1]) /\ Rated(q).borrow = ClampedAtZero(p.borrow + d[2])
  BY <1>6, <1>7
<1> QED BY <1>2, <1>4, <1>5, <1>7, <1>8 DEF q, L, B

\* An event the contract accepted, handled in its order, makes of the pool what it made
\* of the contract: nothing is clamped and the time is not before the last update.
LEMMA HandledFollowsContract ==
    ASSUME NEW c \in Pool, NEW d \in Int \X Int, NEW t \in Nat, c.ts <= t, ContractAccepts(c, d)
    PROVE  Handled(c, d, t) = Contract(c, d, t)
<1>1. /\ c.supply \in Nat /\ c.borrow \in Nat /\ c.liqIndex \in Nat /\ c.borIndex \in Nat
      /\ c.borRate \in Nat /\ c.supRate \in Nat /\ c.ts \in Nat
      /\ d[1] \in Int /\ d[2] \in Int
  BY DEF Pool
<1>2. /\ ClampedAtZero(c.supply + d[1]) = c.supply + d[1]
      /\ ClampedAtZero(c.borrow + d[2]) = c.borrow + d[2]
  BY <1>1 DEF ContractAccepts, ClampedAtZero
<1>3. \A index, rate : ExtrapolateIndex(index, rate, c.ts, t)
        = IF t = c.ts THEN index ELSE RayMul(index, CalculateLinearInterest(rate, t - c.ts))
  <2>1. t - c.ts <= 0 <=> t = c.ts
    BY <1>1
  <2> QED BY <2>1 DEF ExtrapolateIndex
<1> DEFINE q == Moved(c, d, t)
<1>4. q = [supply |-> c.supply + d[1], borrow |-> c.borrow + d[2],
           liqIndex |-> ExtrapolateIndex(c.liqIndex, c.supRate, c.ts, t),
           borIndex |-> ExtrapolateIndex(c.borIndex, c.borRate, c.ts, t),
           borRate |-> c.borRate, supRate |-> c.supRate, ts |-> t]
  BY <1>2 DEF Moved
<1>5. q \in Pool /\ Handled(c, d, t) = Rated(q)
  BY HandledPool
<1> HIDE DEF q
<1>6. Rated(q) = [supply |-> q.supply, borrow |-> q.borrow, liqIndex |-> q.liqIndex,
                  borIndex |-> q.borIndex, borRate |-> RateOf(q), supRate |-> SupplyRateOf(q),
                  ts |-> q.ts]
  BY <1>5, RatedPool
<1>7. /\ RateOf(q) = CalculateBorrowRate(CalculateUtilizationRate(c.supply + d[1], c.borrow + d[2]))
      /\ SupplyRateOf(q) = CalculateSupplyRate(RateOf(q), CalculateUtilizationRate(c.supply + d[1], c.borrow + d[2]))
  BY <1>4 DEF RateOf, SupplyRateOf
<1>8. Rated(q) = [supply |-> c.supply + d[1], borrow |-> c.borrow + d[2],
                  liqIndex |-> ExtrapolateIndex(c.liqIndex, c.supRate, c.ts, t),
                  borIndex |-> ExtrapolateIndex(c.borIndex, c.borRate, c.ts, t),
                  borRate |-> RateOf(q), supRate |-> SupplyRateOf(q), ts |-> t]
  BY <1>4, <1>6
<1> QED BY <1>3, <1>5, <1>7, <1>8 DEF Contract
-----------------------------------------------------------------------------
\* CalibratePool replaces the indices and their time, and recalculates.
LEMMA CalibratedPool ==
    ASSUME NEW p \in Pool, NEW s, s.borIndex \in Nat, s.liqIndex \in Nat, s.ts \in Nat
    PROVE  /\ Calibrated(p, s) \in Pool /\ Rated(Calibrated(p, s)) = Calibrated(p, s)
           /\ Calibrated(p, s).supply = p.supply /\ Calibrated(p, s).borrow = p.borrow
           /\ Calibrated(p, s).borIndex = s.borIndex /\ Calibrated(p, s).liqIndex = s.liqIndex
           /\ Calibrated(p, s).ts = s.ts
<1> DEFINE r == [p EXCEPT !.borIndex = s.borIndex, !.liqIndex = s.liqIndex, !.ts = s.ts]
<1>1. r \in Pool
  BY DEF Pool
<1>2. /\ r.supply = p.supply /\ r.borrow = p.borrow /\ r.borIndex = s.borIndex
      /\ r.liqIndex = s.liqIndex /\ r.ts = s.ts
  BY DEF Pool
<1>3. Calibrated(p, s) = Rated(r)
  BY DEF Calibrated
<1> HIDE DEF r
<1>4. /\ Rated(r) \in Pool /\ Rated(Rated(r)) = Rated(r)
      /\ Rated(r) = [supply |-> r.supply, borrow |-> r.borrow, liqIndex |-> r.liqIndex,
                     borIndex |-> r.borIndex, borRate |-> RateOf(r), supRate |-> SupplyRateOf(r),
                     ts |-> r.ts]
  BY <1>1, RatedPool
<1> QED BY <1>2, <1>3, <1>4

\* Two recalculated pools with the same totals, indices and time are the same.
LEMMA RatedEqual ==
    ASSUME NEW p \in Pool, NEW q \in Pool, Rated(p) = p, Rated(q) = q,
           p.supply = q.supply, p.borrow = q.borrow, p.liqIndex = q.liqIndex,
           p.borIndex = q.borIndex, p.ts = q.ts
    PROVE  p = q
<1>1. /\ p.borRate = RateOf(p) /\ p.supRate = SupplyRateOf(p)
      /\ q.borRate = RateOf(q) /\ q.supRate = SupplyRateOf(q)
  BY RatedRates
<1>2. RateOf(p) = RateOf(q) /\ SupplyRateOf(p) = SupplyRateOf(q)
  BY DEF RateOf, SupplyRateOf
<1> QED BY <1>1, <1>2, PoolEqual

LEMMA InitialPoolRated == InitialPool \in Pool /\ Rated(InitialPool) = InitialPool /\ InitialPool.ts = 0
<1> DEFINE q == [supply |-> InitialSupply, borrow |-> InitialBorrow, liqIndex |-> RAY,
                 borIndex |-> RAY, borRate |-> 0, supRate |-> 0, ts |-> 0]
<1>1. q \in Pool /\ q.ts = 0
  BY RateAssumption, RayPositive DEF Pool
<1>2. InitialPool = Rated(q)
  BY DEF InitialPool
<1> HIDE DEF q
<1>3. /\ Rated(q) \in Pool /\ Rated(Rated(q)) = Rated(q)
      /\ Rated(q) = [supply |-> q.supply, borrow |-> q.borrow, liqIndex |-> q.liqIndex,
                     borIndex |-> q.borIndex, borRate |-> RateOf(q), supRate |-> SupplyRateOf(q),
                     ts |-> q.ts]
  BY <1>1, RatedPool
<1> QED BY <1>1, <1>2, <1>3

LEMMA RateInvInit == RateInit => RateInv
<1> SUFFICES ASSUME RateInit PROVE RateInv
  OBVIOUS
<1> DEFINE first == [state |-> InitialPool, event |-> NoDelta]
<1>1. first \in [state : Pool, event : Int \X Int] /\ first.state = InitialPool
  BY InitialPoolRated DEF NoDelta
<1>2. onChain = [m \in Market |-> <<first>>]
  BY DEF RateInit
<1> HIDE DEF first
<1>3. /\ <<first>> \in Seq([state : Pool, event : Int \X Int])
      /\ Len(<<first>>) = 1 /\ <<first>>[1] = first
  BY <1>1
<1>4. RateTypeOK
  BY <1>2, <1>3 DEF RateInit, RateTypeOK
<1>5. ContractHistory
  <2> SUFFICES ASSUME NEW m \in Market, NEW j \in 1..Len(onChain[m])
               PROVE  j = 1 /\ Rated(onChain[m][j].state) = onChain[m][j].state
                      /\ onChain[m][j].state.ts <= clock
    BY DEF ContractHistory
  <2>1. j = 1
    BY <1>2, <1>3
  <2> QED BY <2>1, <1>1, <1>2, <1>3, InitialPoolRated DEF RateInit
<1>6. DOMAIN pools = {} /\ snapshots = {}
  BY DEF RateInit
<1> QED BY <1>4, <1>5, <1>6 DEF RateInv, SnapshotOfChain, TotalsFollow, ReplicatesPrefix

\* What the invariant says of one state of the chain.
LEMMA ChainState ==
    ASSUME RateInv, NEW m \in Market, NEW j \in 1..Len(onChain[m])
    PROVE  /\ onChain[m][j] \in [state : Pool, event : Int \X Int]
           /\ onChain[m][j].state \in Pool /\ onChain[m][j].event \in Int \X Int
           /\ onChain[m][j].state.ts \in Nat /\ onChain[m][j].state.ts <= clock
           /\ Rated(onChain[m][j].state) = onChain[m][j].state
<1>1. onChain[m][j] \in [state : Pool, event : Int \X Int]
  <2> DEFINE Entry == [state : Pool, event : Int \X Int]
  <2>1. onChain[m] \in Seq(Entry)
    BY DEF RateInv, RateTypeOK
  <2> HIDE DEF Entry
  <2>2. onChain[m][j] \in Entry
    BY <2>1
  <2> QED BY <2>2 DEF Entry
<1>2. onChain[m][j].state \in Pool /\ onChain[m][j].event \in Int \X Int
  BY <1>1
<1>3. onChain[m][j].state.ts \in Nat
  BY <1>2 DEF Pool
<1> QED BY <1>1, <1>2, <1>3 DEF RateInv, ContractHistory

LEMMA ChainLast ==
    ASSUME RateInv, NEW m \in Market
    PROVE  Len(onChain[m]) \in Nat /\ Len(onChain[m]) \in 1..Len(onChain[m])
BY DEF RateInv, RateTypeOK

\* The steps that leave the chain alone keep what is said of it.
LEMMA ChainFrame ==
    ASSUME RateInv, onChain' = onChain, clock' \in Nat, clock' >= clock
    PROVE  ContractHistory'
<1> SUFFICES ASSUME NEW m \in Market, NEW j \in 1..Len(onChain[m])
             PROVE  onChain[m][j].state.ts <= clock'
  BY DEF RateInv, ContractHistory
<1>1. clock \in Nat
  BY DEF RateInv, RateTypeOK
<1>2. onChain[m][j].state.ts \in Nat /\ onChain[m][j].state.ts <= clock
  BY ChainState
<1> QED BY <1>1, <1>2

LEMMA TickStep ==
    ASSUME RateInv, Tick
    PROVE  RateInv'
<1> USE DEF RateInv
<1>1. clock' \in Nat /\ clock' >= clock /\ UNCHANGED <<pools, onChain, delivered, snapshots, inStep, once>>
  BY DEF Tick, RateTypeOK
<1>2. RateTypeOK'
  BY <1>1 DEF RateTypeOK
<1>3. ContractHistory'
  BY <1>1, ChainFrame
<1> QED BY <1>1, <1>2, <1>3 DEF SnapshotOfChain, TotalsFollow, ReplicatesPrefix

\* The contract takes a new state; those before it stay where they were.
LEMMA UseMarketStep ==
    ASSUME RateInv, NEW m \in Tracked, NEW d \in Delta, UseMarket(m, d)
    PROVE  RateInv'
<1> DEFINE n == Len(onChain[m])
           c == onChain[m][n].state
           new == [state |-> Contract(c, d, clock), event |-> d]
           Entry == [state : Pool, event : Int \X Int]
<1>a. m \in Market /\ d \in Int \X Int /\ clock \in Nat
  BY RateAssumption DEF RateInv, RateTypeOK
<1>b. n \in Nat /\ n \in 1..n
  BY <1>a, ChainLast
<1>c. c \in Pool /\ c.ts <= clock
  BY <1>a, <1>b, ChainState
<1>1. ContractAccepts(c, d)
  BY DEF UseMarket, Latest
<1>2. /\ Contract(c, d, clock) \in Pool /\ Rated(Contract(c, d, clock)) = Contract(c, d, clock)
  <2> HIDE DEF c
  <2>1. Handled(c, d, clock) = Contract(c, d, clock)
    BY <1>a, <1>c, <1>1, HandledFollowsContract
  <2>2. Handled(c, d, clock) \in Pool /\ Rated(Handled(c, d, clock)) = Handled(c, d, clock)
    BY <1>a, <1>c, HandledPool
  <2> QED BY <2>1, <2>2
<1>3. Contract(c, d, clock).ts = clock
  BY DEF Contract
<1>4. /\ new \in Entry /\ new.state = Contract(c, d, clock) /\ new.event = d
  BY <1>a, <1>2
<1>5. onChain' = [onChain EXCEPT ![m] = Append(onChain[m], new)]
  BY DEF UseMarket, Latest
<1>6. UNCHANGED <<clock, pools, delivered, snapshots, inStep, once>>
  BY DEF UseMarket
<1>7. onChain \in [Market -> Seq(Entry)]
  BY DEF RateInv, RateTypeOK
<1> HIDE DEF c, new, Entry
<1>8. /\ onChain' \in [Market -> Seq(Entry)]
      /\ \A k \in Market : k # m => onChain'[k] = onChain[k]
      /\ Len(onChain'[m]) = n + 1 /\ onChain'[m][n + 1] = new
      /\ \A j \in 1..n : onChain'[m][j] = onChain[m][j]
  BY <1>a, <1>b, <1>4, <1>5, <1>7
<1>9. \A k \in Market : /\ Len(onChain'[k]) \in Nat /\ Len(onChain[k]) \in Nat
                        /\ Len(onChain'[k]) >= Len(onChain[k])
                        /\ \A j \in 1..Len(onChain[k]) : onChain'[k][j] = onChain[k][j]
  <2> SUFFICES ASSUME NEW k \in Market
               PROVE  /\ Len(onChain'[k]) \in Nat /\ Len(onChain[k]) \in Nat
                      /\ Len(onChain'[k]) >= Len(onChain[k])
                      /\ \A j \in 1..Len(onChain[k]) : onChain'[k][j] = onChain[k][j]
    OBVIOUS
  <2>1. Len(onChain[k]) \in Nat
    BY <1>7
  <2> QED BY <1>b, <1>8, <2>1
<1>10. RateTypeOK'
  <2>1. \A k \in Market : delivered[k] \in 1..Len(onChain'[k])
    BY <1>9 DEF RateInv, RateTypeOK
  <2>2. onChain' \in [Market -> Seq([state : Pool, event : Int \X Int])]
    BY <1>8 DEF Entry
  <2> QED BY <1>6, <2>1, <2>2 DEF RateInv, RateTypeOK
<1>11. ContractHistory'
  <2> SUFFICES ASSUME NEW k \in Market, NEW j \in 1..Len(onChain'[k])
               PROVE  LET e == onChain'[k][j].state
                      IN /\ Rated(e) = e /\ e.ts <= clock
                         /\ j > 1 => LET before == onChain'[k][j - 1].state
                                     IN before.ts <= e.ts /\ e = Contract(before, onChain'[k][j].event, e.ts)
    BY <1>6 DEF ContractHistory
  <2>1. CASE k = m /\ j = n + 1
    <3>1. onChain'[k][j].state = Contract(c, d, clock) /\ onChain'[k][j].event = d
      BY <1>4, <1>8, <2>1
    <3>2. onChain'[k][j - 1].state = c
      BY <1>b, <1>8, <2>1 DEF c
    <3> QED BY <1>a, <1>c, <1>2, <1>3, <3>1, <3>2
  <2>2. CASE ~(k = m /\ j = n + 1)
    <3>1. j \in 1..Len(onChain[k])
      BY <1>b, <1>8, <2>2
    <3>2. j > 1 => j - 1 \in 1..Len(onChain[k])
      BY <3>1, <1>9
    <3>3. onChain'[k][j] = onChain[k][j] /\ (j > 1 => onChain'[k][j - 1] = onChain[k][j - 1])
      BY <1>9, <3>1, <3>2
    <3> QED BY <3>1, <3>3 DEF RateInv, ContractHistory
  <2> QED BY <2>1, <2>2
<1>12. SnapshotOfChain'
  <2> SUFFICES ASSUME NEW s \in snapshots
               PROVE  /\ s.at \in 1..Len(onChain'[s.market])
                      /\ onChain'[s.market][s.at] = onChain[s.market][s.at]
    BY <1>6 DEF RateInv, SnapshotOfChain
  <2>1. s.market \in Market /\ s.at \in 1..Len(onChain[s.market])
    BY RateAssumption DEF RateInv, RateTypeOK, SnapshotOfChain
  <2> QED BY <1>9, <2>1
<1>13. \A k \in DOMAIN pools : onChain'[k][delivered[k]] = onChain[k][delivered[k]]
  BY <1>9, RateAssumption DEF RateInv, RateTypeOK
<1>14. TotalsFollow' /\ ReplicatesPrefix'
  BY <1>6, <1>13 DEF RateInv, TotalsFollow, ReplicatesPrefix
<1> QED BY <1>10, <1>11, <1>12, <1>14 DEF RateInv

LEMMA SetPoolStep ==
    ASSUME RateInv, NEW m \in Tracked, NEW n \in 1..Len(onChain[m]), SetPool(m, n)
    PROVE  RateInv'
<1>a. m \in Market
  BY RateAssumption
<1>b. Len(onChain[m]) \in Nat /\ n \in Nat
  BY <1>a, ChainLast
<1>1. onChain[m][n].state \in Pool /\ Rated(onChain[m][n].state) = onChain[m][n].state
  BY <1>a, <1>b, ChainState
<1>2. /\ DOMAIN pools' = DOMAIN pools \cup {m} /\ pools'[m] = onChain[m][n].state
      /\ \A k \in DOMAIN pools : k # m => pools'[k] = pools[k]
  BY DEF SetPool
<1>3. /\ delivered' \in [Market -> Nat] /\ delivered'[m] = n
      /\ \A k \in Market : k # m => delivered'[k] = delivered[k]
      /\ inStep' \in [Market -> BOOLEAN] /\ once' \in [Market -> BOOLEAN]
      /\ \A k \in Market : k # m => inStep'[k] = inStep[k] /\ once'[k] = once[k]
  BY <1>a, <1>b DEF SetPool, RateInv, RateTypeOK
<1>4. UNCHANGED <<clock, onChain, snapshots>>
  BY DEF SetPool
<1>5. RateTypeOK'
  <2>1. \A k \in Market : delivered'[k] \in 1..Len(onChain[k])
    BY <1>b, <1>3 DEF RateInv, RateTypeOK
  <2> QED BY <1>1, <1>2, <1>3, <1>4, <2>1 DEF RateInv, RateTypeOK
<1>6. ContractHistory'
  <2>1. clock \in Nat
    BY DEF RateInv, RateTypeOK
  <2> QED BY <1>4, <2>1, ChainFrame
<1>7. DOMAIN pools \subseteq Market
  BY RateAssumption DEF RateInv, RateTypeOK
<1>8. TotalsFollow' /\ ReplicatesPrefix'
  <2> SUFFICES ASSUME NEW k \in DOMAIN pools'
               PROVE  /\ Rated(pools'[k]) = pools'[k]
                      /\ once'[k] => LET c == onChain'[k][delivered'[k]].state
                                     IN pools'[k].supply = c.supply /\ pools'[k].borrow = c.borrow
                      /\ inStep'[k] /\ once'[k] => pools'[k] = onChain'[k][delivered'[k]].state
    BY DEF TotalsFollow, ReplicatesPrefix
  <2>1. CASE k = m
    BY <1>1, <1>2, <1>3, <1>4, <2>1
  <2>2. CASE k # m
    <3>1. k \in DOMAIN pools /\ k \in Market /\ pools'[k] = pools[k]
      BY <1>2, <1>7, <2>2
    <3>2. delivered'[k] = delivered[k] /\ inStep'[k] = inStep[k] /\ once'[k] = once[k]
      BY <1>3, <2>2, <3>1
    <3> QED BY <1>4, <3>1, <3>2 DEF RateInv, TotalsFollow, ReplicatesPrefix
  <2> QED BY <2>1, <2>2
<1> QED BY <1>4, <1>5, <1>6, <1>8 DEF RateInv, SnapshotOfChain

\* What HandleEvent makes of the pool of a followed market.
LEMMA HandleEventPool ==
    ASSUME RateInv, NEW m \in Tracked, HandleEvent(m)
    PROVE  LET now == delivered[m]
               next == onChain[m][now + 1]
           IN /\ now \in 1..Len(onChain[m]) /\ now + 1 \in 1..Len(onChain[m])
              /\ next.state \in Pool /\ next.event \in Int \X Int /\ next.state.ts \in Nat
              /\ DOMAIN pools' = DOMAIN pools /\ \A k \in DOMAIN pools : k # m => pools'[k] = pools[k]
              /\ m \in DOMAIN pools => pools'[m] = Handled(pools[m], next.event, next.state.ts)
<1>1. m \in Market /\ Len(onChain[m]) \in Nat /\ delivered[m] \in 1..Len(onChain[m])
  BY ChainLast, RateAssumption DEF RateInv, RateTypeOK
<1>2. delivered[m] + 1 \in 1..Len(onChain[m])
  BY <1>1 DEF HandleEvent, Unhandled
<1>3. /\ DOMAIN pools' = DOMAIN pools /\ \A k \in DOMAIN pools : k # m => pools'[k] = pools[k]
      /\ m \in DOMAIN pools => pools'[m] = Handled(pools[m], onChain[m][delivered[m] + 1].event,
                                                   onChain[m][delivered[m] + 1].state.ts)
  BY DEF HandleEvent
<1> QED BY <1>1, <1>2, <1>3, ChainState

\* The next event of the feed takes the pool from the contract's state it was at to the
\* next one.
LEMMA HandleEventStep ==
    ASSUME RateInv, NEW m \in Tracked, HandleEvent(m)
    PROVE  RateInv'
<1> DEFINE now == delivered[m]
           c == onChain[m][now].state
           next == onChain[m][now + 1]
<1>a. m \in Market
  BY RateAssumption
<1>1. /\ now \in 1..Len(onChain[m]) /\ now + 1 \in 1..Len(onChain[m]) /\ now + 1 > 1 /\ (now + 1) - 1 = now
      /\ next.state \in Pool /\ next.event \in Int \X Int /\ next.state.ts \in Nat
      /\ DOMAIN pools' = DOMAIN pools /\ \A k \in DOMAIN pools : k # m => pools'[k] = pools[k]
      /\ m \in DOMAIN pools => pools'[m] = Handled(pools[m], next.event, next.state.ts)
  BY HandleEventPool
<1>2. c \in Pool
  BY <1>a, <1>1, ChainState
<1>3. c.ts <= next.state.ts /\ next.state = Contract(c, next.event, next.state.ts)
  BY <1>a, <1>1 DEF RateInv, ContractHistory
<1>4. ContractAccepts(c, next.event) /\ next.state.supply = c.supply + next.event[1]
      /\ next.state.borrow = c.borrow + next.event[2]
  <2>1. next.state.supply = c.supply + next.event[1] /\ next.state.borrow = c.borrow + next.event[2]
    BY <1>3 DEF Contract
  <2>2. next.state.supply \in Nat /\ next.state.borrow \in Nat
    BY <1>1 DEF Pool
  <2> QED BY <2>1, <2>2 DEF ContractAccepts
<1>5. /\ delivered' \in [Market -> Nat] /\ delivered'[m] = now + 1
      /\ \A k \in Market : k # m => delivered'[k] = delivered[k]
  BY <1>a DEF HandleEvent, RateInv, RateTypeOK
<1>6. UNCHANGED <<clock, onChain, snapshots, inStep, once>>
  BY DEF HandleEvent
<1> HIDE DEF c, next, now
<1>7. m \in DOMAIN pools => /\ pools[m] \in Pool /\ pools'[m] \in Pool /\ Rated(pools'[m]) = pools'[m]
                            /\ pools'[m].supply = ClampedAtZero(pools[m].supply + next.event[1])
                            /\ pools'[m].borrow = ClampedAtZero(pools[m].borrow + next.event[2])
  <2> SUFFICES ASSUME m \in DOMAIN pools
               PROVE  /\ pools[m] \in Pool /\ pools'[m] \in Pool /\ Rated(pools'[m]) = pools'[m]
                      /\ pools'[m].supply = ClampedAtZero(pools[m].supply + next.event[1])
                      /\ pools'[m].borrow = ClampedAtZero(pools[m].borrow + next.event[2])
    OBVIOUS
  <2>1. pools[m] \in Pool
    BY DEF RateInv, RateTypeOK
  <2>2. PICK p \in Pool, d \in Int \X Int, t \in Nat : p = pools[m] /\ d = next.event /\ t = next.state.ts
    BY <1>1, <2>1
  <2>3. /\ Handled(p, d, t) \in Pool /\ Rated(Handled(p, d, t)) = Handled(p, d, t)
        /\ Handled(p, d, t).supply = ClampedAtZero(p.supply + d[1])
        /\ Handled(p, d, t).borrow = ClampedAtZero(p.borrow + d[2])
    BY HandledPool
  <2>4. pools'[m] = Handled(p, d, t)
    BY <1>1, <2>2
  <2> QED BY <2>1, <2>2, <2>3, <2>4
<1>8. RateTypeOK'
  <2>1. \A k \in DOMAIN pools' : pools'[k] \in Pool
    BY <1>1, <1>7 DEF RateInv, RateTypeOK
  <2>2. \A k \in Market : delivered'[k] \in 1..Len(onChain[k])
    BY <1>1, <1>5 DEF RateInv, RateTypeOK
  <2> QED BY <1>1, <1>5, <1>6, <2>1, <2>2 DEF RateInv, RateTypeOK
<1>9. ContractHistory'
  <2>1. clock \in Nat
    BY DEF RateInv, RateTypeOK
  <2> QED BY <1>6, <2>1, ChainFrame
<1>10. DOMAIN pools \subseteq Market
  BY RateAssumption DEF RateInv, RateTypeOK
<1>11. ASSUME m \in DOMAIN pools, once[m]
       PROVE  pools'[m].supply = next.state.supply /\ pools'[m].borrow = next.state.borrow
  <2>1. pools[m].supply = c.supply /\ pools[m].borrow = c.borrow
    BY <1>11 DEF RateInv, TotalsFollow, c, now
  <2>2. ~(c.supply + next.event[1] < 0) /\ ~(c.borrow + next.event[2] < 0)
    <3>1. c.supply + next.event[1] \in Nat /\ c.borrow + next.event[2] \in Nat
      BY <1>1, <1>4 DEF Pool
    <3> QED BY <3>1
  <2> QED BY <1>4, <1>7, <1>11, <2>1, <2>2 DEF ClampedAtZero
<1>12. ASSUME m \in DOMAIN pools, once[m], inStep[m]
       PROVE  pools'[m] = next.state
  <2>1. pools[m] = c
    BY <1>12 DEF RateInv, ReplicatesPrefix, c, now
  <2>2. Handled(c, next.event, next.state.ts) = Contract(c, next.event, next.state.ts)
    BY <1>1, <1>2, <1>3, <1>4, HandledFollowsContract
  <2> QED BY <1>1, <1>3, <1>12, <2>1, <2>2
<1>13. onChain'[m][delivered'[m]].state = next.state
  BY <1>5, <1>6 DEF next
<1>14. ASSUME NEW k \in DOMAIN pools, k # m
       PROVE  pools'[k] = pools[k] /\ onChain'[k][delivered'[k]] = onChain[k][delivered[k]]
  BY <1>1, <1>5, <1>6, <1>10, <1>14
<1>15. TotalsFollow'
  <2> SUFFICES ASSUME NEW k \in DOMAIN pools
               PROVE  /\ Rated(pools'[k]) = pools'[k]
                      /\ once[k] => LET e == onChain'[k][delivered'[k]].state
                                    IN pools'[k].supply = e.supply /\ pools'[k].borrow = e.borrow
    BY <1>1, <1>6 DEF TotalsFollow
  <2>1. CASE k = m
    BY <1>7, <1>11, <1>13, <2>1
  <2>2. CASE k # m
    BY <1>14, <2>2 DEF RateInv, TotalsFollow
  <2> QED BY <2>1, <2>2
<1>16. ReplicatesPrefix'
  <2> SUFFICES ASSUME NEW k \in DOMAIN pools, inStep[k], once[k]
               PROVE  pools'[k] = onChain'[k][delivered'[k]].state
    BY <1>1, <1>6 DEF ReplicatesPrefix
  <2>1. CASE k = m
    BY <1>12, <1>13, <2>1
  <2>2. CASE k # m
    BY <1>14, <2>2 DEF RateInv, ReplicatesPrefix
  <2> QED BY <2>1, <2>2
<1> QED BY <1>6, <1>8, <1>9, <1>15, <1>16 DEF RateInv, SnapshotOfChain

LEMMA RedeliverStep ==
    ASSUME RateInv, NEW m \in Tracked, Redeliver(m)
    PROVE  RateInv'
<1>a. m \in Market /\ delivered[m] \in 1..Len(onChain[m]) /\ Len(onChain[m]) \in Nat /\ delivered[m] > 1
  BY ChainLast, RateAssumption DEF RateInv, RateTypeOK, Redeliver
<1>1. /\ delivered' \in [Market -> Nat] /\ delivered'[m] \in 1..Len(onChain[m])
      /\ once' \in [Market -> BOOLEAN] /\ ~once'[m]
      /\ \A k \in Market : k # m => delivered'[k] = delivered[k] /\ once'[k] = once[k]
  BY <1>a DEF Redeliver, RateInv, RateTypeOK
<1>2. UNCHANGED <<clock, pools, onChain, snapshots, inStep>>
  BY DEF Redeliver
<1>3. RateTypeOK'
  BY <1>1, <1>2 DEF RateInv, RateTypeOK
<1>4. ContractHistory'
  <2>1. clock \in Nat
    BY DEF RateInv, RateTypeOK
  <2> QED BY <1>2, <2>1, ChainFrame
<1>5. DOMAIN pools \subseteq Market
  BY RateAssumption DEF RateInv, RateTypeOK
<1>6. TotalsFollow' /\ ReplicatesPrefix'
  BY <1>1, <1>2, <1>5 DEF RateInv, TotalsFollow, ReplicatesPrefix
<1> QED BY <1>2, <1>3, <1>4, <1>6 DEF RateInv, SnapshotOfChain

LEMMA ReadIndicesStep ==
    ASSUME RateInv, NEW m \in Tracked, ReadIndices(m)
    PROVE  RateInv'
<1> DEFINE n == Len(onChain[m])
           c == onChain[m][n].state
           new == [market |-> m, at |-> n, borIndex |-> c.borIndex, liqIndex |-> c.liqIndex, ts |-> c.ts]
<1>a. m \in Market /\ n \in Nat /\ n \in 1..n
  BY ChainLast, RateAssumption
<1>1. c \in Pool
  BY <1>a, ChainState
<1>2. snapshots' = snapshots \cup {new}
  BY DEF ReadIndices, Latest
<1>3. UNCHANGED <<clock, pools, onChain, delivered, inStep, once>>
  BY DEF ReadIndices
<1> HIDE DEF c
<1>4. new \in [market : Tracked, at : Nat, borIndex : Nat, liqIndex : Nat, ts : Nat]
  <2>1. c.borIndex \in Nat /\ c.liqIndex \in Nat /\ c.ts \in Nat
    BY <1>1 DEF Pool
  <2> QED BY <1>a, <2>1
<1>5. /\ new.market = m /\ new.at = n /\ new.borIndex = c.borIndex /\ new.liqIndex = c.liqIndex
      /\ new.ts = c.ts
  OBVIOUS
<1> HIDE DEF new
<1>6. RateTypeOK'
  BY <1>2, <1>3, <1>4 DEF RateInv, RateTypeOK
<1>7. SnapshotOfChain'
  <2>1. /\ new.at \in 1..Len(onChain[new.market])
        /\ LET e == onChain[new.market][new.at].state
           IN new.borIndex = e.borIndex /\ new.liqIndex = e.liqIndex /\ new.ts = e.ts
    BY <1>a, <1>5 DEF c
  <2> QED BY <1>2, <1>3, <2>1 DEF RateInv, SnapshotOfChain
<1>8. ContractHistory'
  <2>1. clock \in Nat
    BY DEF RateInv, RateTypeOK
  <2> QED BY <1>3, <2>1, ChainFrame
<1> QED BY <1>3, <1>6, <1>7, <1>8 DEF RateInv, TotalsFollow, ReplicatesPrefix

\* A snapshot of the state the pool's totals are at makes the pool that state, whatever
\* its indices were.
LEMMA CalibratePoolStep ==
    ASSUME RateInv, NEW s \in snapshots, CalibratePool(s)
    PROVE  RateInv'
<1> DEFINE m == s.market
<1>1. /\ s.market \in Tracked /\ s.at \in Nat
      /\ s.borIndex \in Nat /\ s.liqIndex \in Nat /\ s.ts \in Nat
  BY DEF RateInv, RateTypeOK
<1>a. m \in Market
  BY <1>1, RateAssumption
<1>2. /\ s.at \in 1..Len(onChain[m])
      /\ s.borIndex = onChain[m][s.at].state.borIndex
      /\ s.liqIndex = onChain[m][s.at].state.liqIndex
      /\ s.ts = onChain[m][s.at].state.ts
  BY DEF RateInv, SnapshotOfChain
<1>3. /\ DOMAIN pools' = DOMAIN pools
      /\ \A k \in DOMAIN pools : pools'[k] = IF k = m THEN Calibrated(pools[k], s) ELSE pools[k]
  BY DEF CalibratePool
<1>4. /\ inStep' \in [Market -> BOOLEAN]
      /\ inStep'[m] <=> (m \notin DOMAIN pools \/ s.at = delivered[m])
      /\ \A k \in Market : k # m => inStep'[k] = inStep[k]
  BY <1>a DEF CalibratePool, RateInv, RateTypeOK
<1>5. snapshots' \subseteq snapshots /\ UNCHANGED <<clock, onChain, delivered, once>>
  BY DEF CalibratePool
<1> HIDE DEF m
<1>6. ASSUME m \in DOMAIN pools
      PROVE  /\ pools[m] \in Pool /\ pools'[m] \in Pool /\ Rated(pools'[m]) = pools'[m]
             /\ pools'[m].supply = pools[m].supply /\ pools'[m].borrow = pools[m].borrow
             /\ pools'[m].borIndex = s.borIndex /\ pools'[m].liqIndex = s.liqIndex /\ pools'[m].ts = s.ts
  <2>1. PICK p \in Pool : p = pools[m]
    BY <1>6 DEF RateInv, RateTypeOK
  <2>2. pools'[m] = Calibrated(p, s)
    BY <1>3, <1>6, <2>1
  <2>3. /\ Calibrated(p, s) \in Pool /\ Rated(Calibrated(p, s)) = Calibrated(p, s)
        /\ Calibrated(p, s).supply = p.supply /\ Calibrated(p, s).borrow = p.borrow
        /\ Calibrated(p, s).borIndex = s.borIndex /\ Calibrated(p, s).liqIndex = s.liqIndex
        /\ Calibrated(p, s).ts = s.ts
    BY <1>1, CalibratedPool
  <2> QED BY <2>1, <2>2, <2>3
<1>7. RateTypeOK'
  <2>1. \A k \in DOMAIN pools' : pools'[k] \in Pool
    BY <1>3, <1>6 DEF RateInv, RateTypeOK
  <2> QED BY <1>3, <1>4, <1>5, <2>1 DEF RateInv, RateTypeOK
<1>8. ContractHistory'
  <2>1. clock \in Nat
    BY DEF RateInv, RateTypeOK
  <2> QED BY <1>5, <2>1, ChainFrame
<1>9. SnapshotOfChain'
  BY <1>5 DEF RateInv, SnapshotOfChain
<1>10. DOMAIN pools \subseteq Market
  BY RateAssumption DEF RateInv, RateTypeOK
<1>11. TotalsFollow'
  <2> SUFFICES ASSUME NEW k \in DOMAIN pools
               PROVE  /\ Rated(pools'[k]) = pools'[k]
                      /\ once[k] => LET e == onChain[k][delivered[k]].state
                                    IN pools'[k].supply = e.supply /\ pools'[k].borrow = e.borrow
    BY <1>3, <1>5 DEF TotalsFollow
  <2>1. CASE k = m
    BY <1>6, <2>1 DEF RateInv, TotalsFollow
  <2>2. CASE k # m
    BY <1>3, <2>2 DEF RateInv, TotalsFollow
  <2> QED BY <2>1, <2>2
<1>12. ReplicatesPrefix'
  <2> SUFFICES ASSUME NEW k \in DOMAIN pools, inStep'[k], once[k]
               PROVE  pools'[k] = onChain[k][delivered[k]].state
    BY <1>3, <1>5 DEF ReplicatesPrefix
  <2>1. CASE k = m
    <3>1. s.at = delivered[m]
      BY <1>4, <2>1
    <3>2. PICK c \in Pool : c = onChain[m][s.at].state /\ Rated(c) = c
      BY <1>a, <1>2, ChainState
    <3>3. pools[m].supply = c.supply /\ pools[m].borrow = c.borrow
      BY <2>1, <3>1, <3>2 DEF RateInv, TotalsFollow
    <3>4. PICK q \in Pool : q = pools'[m] /\ Rated(q) = q
      BY <1>6, <2>1
    <3>5. /\ q.supply = c.supply /\ q.borrow = c.borrow /\ q.liqIndex = c.liqIndex
          /\ q.borIndex = c.borIndex /\ q.ts = c.ts
      BY <1>2, <1>6, <2>1, <3>2, <3>3, <3>4
    <3>6. q = c
      BY <3>2, <3>4, <3>5, RatedEqual
    <3> QED BY <2>1, <3>1, <3>2, <3>4, <3>6
  <2>2. CASE k # m
    BY <1>3, <1>4, <1>10, <2>2 DEF RateInv, ReplicatesPrefix
  <2> QED BY <2>1, <2>2
<1> QED BY <1>7, <1>8, <1>9, <1>11, <1>12 DEF RateInv

LEMMA RateInvStep == RateInv /\ [RateNext]_rateVars => RateInv'
<1> SUFFICES ASSUME RateInv, [RateNext]_rateVars PROVE RateInv'
  OBVIOUS
<1>1. CASE UNCHANGED rateVars
  BY <1>1 DEF rateVars, RateInv, RateTypeOK, ContractHistory, SnapshotOfChain, TotalsFollow,
              ReplicatesPrefix
<1>2. CASE Tick
  BY <1>2, TickStep
<1>3. CASE \/ \E m \in Tracked : HandleEvent(m) \/ Redeliver(m) \/ ReadIndices(m)
          \/ \E m \in Tracked : \E n \in 1..Len(onChain[m]) : SetPool(m, n)
  BY <1>3, SetPoolStep, HandleEventStep, RedeliverStep, ReadIndicesStep
<1>4. CASE \E m \in Tracked, d \in Delta : UseMarket(m, d)
  BY <1>4, UseMarketStep
<1>5. CASE \E s \in snapshots : CalibratePool(s)
  BY <1>5, CalibratePoolStep
<1> QED BY <1>1, <1>2, <1>3, <1>4, <1>5 DEF RateNext
-----------------------------------------------------------------------------
\* The pools, the chain they copy and the snapshots in flight stay as RateInv says,
\* however late events and snapshots are.
THEOREM RateInvariant == RateSpec => []RateInv
BY RateInvInit, RateInvStep, PTL DEF RateSpec

\* HandleEvent, SetPool and CalibratePool against the contract, for every rate model and
\* scale.  While no event has been handled twice, a pool's totals and both its rates are the
\* contract's after the last event handled, whatever snapshots CalibratePool has applied,
\* in step or not; its indices are too while the last of them was of that event.  A pool's
\* rates are those of its totals even after a repeat.  The contract charges by the formulas
\* of the code: what is shown is that accruing, applying and recalculating event by event,
\* late, is what it does itself, and which of the fields a snapshot can spoil.
THEOREM PoolsReplicateTheContract == RateSpec => [](ReplicatesPrefix /\ TotalsFollow)
<1>1. RateInv => ReplicatesPrefix /\ TotalsFollow
  BY DEF RateInv
<1> QED BY <1>1, RateInvariant, PTL

\* CalculateBorrowRate charges a pool the least of the rates at this or a higher
\* utilization, across the kink too, between the base rate and the sum of the slopes.
THEOREM BorrowRateIsMonotone == RateSpec => []RateRisesWithUse
<1>1. RateInv => RateRisesWithUse
  <2> SUFFICES ASSUME RateInv, NEW m \in DOMAIN pools
               PROVE  LET p == pools[m]
                          util == CalculateUtilizationRate(p.supply, p.borrow)
                      IN /\ p.borRate \in BaseRate..(BaseRate + Slope1 + Slope2)
                         /\ \A u \in util..RAY : CalculateBorrowRate(u) >= p.borRate
    BY DEF RateRisesWithUse
  <2>1. PICK p \in Pool : p = pools[m] /\ Rated(p) = p
    BY DEF RateInv, RateTypeOK, TotalsFollow
  <2> DEFINE util == CalculateUtilizationRate(p.supply, p.borrow)
  <2>2. util \in 0..RAY
    <3>1. p.supply \in Nat /\ p.borrow \in Nat
      BY DEF Pool
    <3> QED BY <3>1, UtilizationIsShare
  <2>3. p.borRate = CalculateBorrowRate(util)
    BY <2>1, RatedRates DEF RateOf
  <2> HIDE DEF util
  <2>4. util \in util..RAY
    BY <2>2, RayPositive
  <2>5. CalculateBorrowRate(util) \in BaseRate..(BaseRate + Slope1 + Slope2)
    BY <2>2, <2>4, BorrowRateRises
  <2>6. \A u \in util..RAY : CalculateBorrowRate(util) <= CalculateBorrowRate(u)
    BY <2>2, BorrowRateRises
  <2>7. \A u \in util..RAY : CalculateBorrowRate(u) >= CalculateBorrowRate(util)
    <3> SUFFICES ASSUME NEW u \in util..RAY PROVE CalculateBorrowRate(u) >= CalculateBorrowRate(util)
      OBVIOUS
    <3>1. u \in 0..RAY /\ u \in u..RAY
      BY <2>2, RayPositive
    <3>2. CalculateBorrowRate(u) \in BaseRate..(BaseRate + Slope1 + Slope2)
      BY <3>1, BorrowRateRises
    <3> QED BY <2>5, <2>6, <3>2, RateAssumption
  <2> QED BY <2>1, <2>3, <2>5, <2>7 DEF util
<1> QED BY <1>1, RateInvariant, PTL

\* The rates of a pool are at most the model's upper end.
LEMMA RatesBounded ==
    ASSUME NEW p \in Pool, Rated(p) = p
    PROVE  /\ BaseRate + Slope1 + Slope2 \in Nat
           /\ p.borRate \in Nat /\ p.borRate <= BaseRate + Slope1 + Slope2
           /\ p.supRate \in Nat /\ p.supRate <= BaseRate + Slope1 + Slope2
<1>1. PICK util \in 0..RAY : util = CalculateUtilizationRate(p.supply, p.borrow)
  <2>1. p.supply \in Nat /\ p.borrow \in Nat
    BY DEF Pool
  <2> QED BY <2>1, UtilizationIsShare
<1>2. p.borRate = CalculateBorrowRate(util) /\ p.supRate = RayMul(p.borRate, util)
  BY <1>1, RatedRates DEF RateOf, SupplyRateOf, CalculateSupplyRate
<1>3. util \in util..RAY /\ util \in Nat
  BY RayPositive
<1>4. p.borRate \in BaseRate..(BaseRate + Slope1 + Slope2)
  BY <1>2, <1>3, BorrowRateRises
<1>5. BaseRate \in Nat /\ Slope1 \in Nat /\ Slope2 \in Nat
  BY RateAssumption
<1>6. p.borRate \in Nat
  BY <1>4, <1>5
<1>7. RayMul(util, p.borRate) \in 0..p.borRate /\ RayMul(p.borRate, util) = RayMul(util, p.borRate)
  BY <1>3, <1>6, RayMulShare, RayMulCommutes
<1> QED BY <1>2, <1>4, <1>5, <1>6, <1>7

\* HandleEvent never lowers an index and never charges more than the model's highest rate
\* for all the time there has been, whatever the event's time against the pool's and
\* whatever snapshots were applied before.
THEOREM AccrualIsBounded == RateSpec => AccrualBounded
<1> DEFINE Grows == \A m \in DOMAIN pools :
              HandleEvent(m) =>
                 /\ pools'[m].borIndex \in pools[m].borIndex..MostInterest(pools[m].borIndex)
                 /\ pools'[m].liqIndex \in pools[m].liqIndex..MostInterest(pools[m].liqIndex)
<1>1. RateInv /\ [RateNext]_rateVars => [Grows]_rateVars
  <2> SUFFICES ASSUME RateInv, NEW m \in DOMAIN pools, HandleEvent(m)
               PROVE  /\ pools'[m].borIndex \in pools[m].borIndex..MostInterest(pools[m].borIndex)
                      /\ pools'[m].liqIndex \in pools[m].liqIndex..MostInterest(pools[m].liqIndex)
    OBVIOUS
  <2>1. m \in Tracked /\ m \in Market /\ pools[m] \in Pool /\ Rated(pools[m]) = pools[m] /\ clock \in Nat
    BY RateAssumption DEF RateInv, RateTypeOK, TotalsFollow
  <2>2. PICK p \in Pool, d \in Int \X Int, t \in Nat :
           p = pools[m] /\ pools'[m] = Handled(p, d, t) /\ t <= clock
    <3>0. delivered[m] + 1 \in 1..Len(onChain[m])
      BY <2>1, HandleEventPool
    <3>1. PICK j \in 1..Len(onChain[m]) : j = delivered[m] + 1
      BY <3>0
    <3>2. onChain[m][j].state.ts \in Nat /\ onChain[m][j].state.ts <= clock
          /\ onChain[m][j].event \in Int \X Int
      BY <2>1, ChainState
    <3>3. pools'[m] = Handled(pools[m], onChain[m][j].event, onChain[m][j].state.ts)
      BY <2>1, <3>1, HandleEventPool
    <3> QED BY <2>1, <3>2, <3>3
  <2>3. /\ Handled(p, d, t).borIndex >= p.borIndex /\ Handled(p, d, t).liqIndex >= p.liqIndex
        /\ Handled(p, d, t).borIndex = ExtrapolateIndex(p.borIndex, p.borRate, p.ts, t)
        /\ Handled(p, d, t).liqIndex = ExtrapolateIndex(p.liqIndex, p.supRate, p.ts, t)
        /\ Handled(p, d, t) \in Pool
    BY HandledPool
  <2>4. PICK top \in Nat : /\ top = BaseRate + Slope1 + Slope2
                           /\ p.borRate \in Nat /\ p.borRate <= top
                           /\ p.supRate \in Nat /\ p.supRate <= top
    BY <2>1, <2>2, RatesBounded
  <2>5. p.borIndex \in Nat /\ p.liqIndex \in Nat /\ p.ts \in Nat
        /\ Handled(p, d, t).borIndex \in Nat /\ Handled(p, d, t).liqIndex \in Nat
    BY <2>3 DEF Pool
  <2>6. /\ ExtrapolateIndex(p.borIndex, p.borRate, p.ts, t) <= RayMul(p.borIndex, CalculateLinearInterest(top, clock))
        /\ ExtrapolateIndex(p.liqIndex, p.supRate, p.ts, t) <= RayMul(p.liqIndex, CalculateLinearInterest(top, clock))
    BY <2>1, <2>2, <2>4, <2>5, ExtrapolateBounded
  <2>7. \A x \in Nat : MostInterest(x) = RayMul(x, CalculateLinearInterest(top, clock)) /\ MostInterest(x) \in Nat
    <3>1. CalculateLinearInterest(top, clock) \in Nat
      BY <2>1, InterestNat
    <3> QED BY <2>4, <3>1, RayMulNat DEF MostInterest
  <2>8. /\ Handled(p, d, t).borIndex \in p.borIndex..MostInterest(p.borIndex)
        /\ Handled(p, d, t).liqIndex \in p.liqIndex..MostInterest(p.liqIndex)
    BY <2>3, <2>5, <2>6, <2>7
  <2> QED BY <2>2, <2>8
<1>2. RateSpec => [][RateNext]_rateVars
  BY DEF RateSpec
<1>3. RateSpec => [][Grows]_rateVars
  BY <1>1, <1>2, RateInvariant, PTL
<1> QED BY <1>3 DEF AccrualBounded
-----------------------------------------------------------------------------
(* Induction, stated for sets.                                             *)

LEMMA LeastNat ==
    ASSUME NEW T, T \subseteq Nat, T # {}
    PROVE  \E n \in T : \A m \in T : n <= m
<1> DEFINE R == OpToRel(<, Nat)
<1>1. IsWellFoundedOn(R, Nat)
  BY NatLessThanWellFounded
<1>2. \A x, y \in Nat : y < x => <<y, x>> \in R
  BY DEF OpToRel
<1> HIDE DEF R
<1>3. PICK x \in T : \A y \in T : ~(<<y, x>> \in R)
  BY <1>1, WFMin
<1>4. ASSUME NEW y \in T
      PROVE  x <= y
  <2>1. x \in Nat /\ y \in Nat
    OBVIOUS
  <2>2. ~(y < x)
    BY <1>2, <1>3, <2>1, Zenon
  <2> QED BY <2>1, <2>2
<1> QED BY <1>4

LEMMA Induction ==
    ASSUME NEW T, 0 \in T, \A k \in Nat : k \in T => k + 1 \in T
    PROVE  Nat \subseteq T
<1> SUFFICES ASSUME NEW bad \in Nat, bad \notin T
             PROVE  FALSE
  OBVIOUS
<1>1. PICK U : U = Nat \ T
  OBVIOUS
<1>2. PICK n \in U : \A m \in U : n <= m
  BY <1>1, LeastNat
<1>3. n \in Nat /\ n # 0 /\ n - 1 \in Nat /\ n - 1 \notin U
  BY <1>1, <1>2
<1>4. n - 1 \in T /\ (n - 1) + 1 = n
  BY <1>1, <1>3
<1> QED BY <1>1, <1>3, <1>4
-----------------------------------------------------------------------------
(* Sums of natural numbers over finite sets.                               *)

Sum(v, s) == SumFunctionOnSet(v, s)

Pick(s) == CHOOSE x \in s : TRUE

\* What SumFunctionOnSet's fold is, as a function of the subsets of s.
IsFold(g, v, s) ==
    g = [t \in SUBSET s |-> IF t = {} THEN 0 ELSE v[Pick(t)] + g[t \ {Pick(t)}]]

LEMMA SumIs ==
    ASSUME NEW v, NEW s
    PROVE  Sum(v, s) = (CHOOSE g : IsFold(g, v, s))[s]
BY DEF Sum, SumFunctionOnSet, FoldFunctionOnSet, MapThenFoldSet, IsFold, Pick

\* A set of subsets that contains a subset when it contains all that lack one element of it.
LEMMA SubsetInduction ==
    ASSUME NEW D, IsFiniteSet(D), NEW T,
           \A t \in SUBSET D : (\A x \in t : t \ {x} \in T) => t \in T
    PROVE  SUBSET D \subseteq T
<1> DEFINE C == {n \in Nat : \A t \in SUBSET D : Cardinality(t) = n => t \in T}
<1>1. \A t \in SUBSET D : IsFiniteSet(t) /\ Cardinality(t) \in Nat
  BY FS_Subset, FS_CardinalityType
<1>2. 0 \in C
  <2> SUFFICES ASSUME NEW t \in SUBSET D, Cardinality(t) = 0 PROVE t \in T
    OBVIOUS
  <2>1. t = {}
    BY <1>1, FS_EmptySet
  <2> QED BY <2>1
<1>3. ASSUME NEW k \in Nat, k \in C
      PROVE  k + 1 \in C
  <2> SUFFICES ASSUME NEW t \in SUBSET D, Cardinality(t) = k + 1 PROVE t \in T
    OBVIOUS
  <2>1. ASSUME NEW x \in t
        PROVE  t \ {x} \in T
    <3>1. Cardinality(t \ {x}) = Cardinality(t) - 1
      BY <1>1, FS_RemoveElement
    <3>2. t \ {x} \in SUBSET D /\ Cardinality(t \ {x}) = k
      BY <3>1
    <3> QED BY <1>3, <3>2
  <2> QED BY <2>1
<1> HIDE DEF C
<1>4. Nat \subseteq C
  BY <1>2, <1>3, Induction
<1> QED BY <1>1, <1>4 DEF C

LEMMA PickIn == \A s : s # {} => Pick(s) \in s
BY DEF Pick

Small(S, n) == {t \in SUBSET S : Cardinality(t) <= n}

FoldTo(g, v, S, n) ==
    g = [t \in Small(S, n) |-> IF t = {} THEN 0 ELSE v[Pick(t)] + g[t \ {Pick(t)}]]

LEMMA FoldExists ==
    ASSUME NEW v, NEW S, IsFiniteSet(S)
    PROVE  \E g : IsFold(g, v, S)
<1> DEFINE C == {n \in Nat : \E g : FoldTo(g, v, S, n)}
<1>1. \A t \in SUBSET S : IsFiniteSet(t) /\ Cardinality(t) \in Nat /\ Cardinality(t) <= Cardinality(S)
  BY FS_Subset, FS_CardinalityType
<1>2. 0 \in C
  <2>1. Small(S, 0) = {{}}
    BY <1>1, FS_EmptySet DEF Small
  <2>2. PICK g : g = [t \in {{}} |-> 0]
    OBVIOUS
  <2>3. FoldTo(g, v, S, 0)
    BY <2>1, <2>2 DEF FoldTo
  <2> QED BY <2>3
<1>3. ASSUME NEW k \in Nat, k \in C
      PROVE  k + 1 \in C
  <2>1. PICK g : FoldTo(g, v, S, k)
    BY <1>3
  <2>2. PICK h : h = [t \in Small(S, k + 1) |-> IF t = {} THEN 0 ELSE v[Pick(t)] + g[t \ {Pick(t)}]]
    OBVIOUS
  <2>3. \A t \in Small(S, k) : t \in Small(S, k + 1) /\ h[t] = g[t]
    <3>1. \A t \in Small(S, k) : t \in Small(S, k + 1)
      BY <1>1 DEF Small
    <3>2. \A t \in Small(S, k) : g[t] = IF t = {} THEN 0 ELSE v[Pick(t)] + g[t \ {Pick(t)}]
      BY <2>1 DEF FoldTo
    <3> QED BY <2>2, <3>1, <3>2
  <2>4. \A t \in Small(S, k + 1) : t # {} => t \ {Pick(t)} \in Small(S, k)
    <3> SUFFICES ASSUME NEW t \in Small(S, k + 1), t # {}
                 PROVE  t \ {Pick(t)} \in Small(S, k)
      OBVIOUS
    <3>1. t \in SUBSET S /\ Cardinality(t) <= k + 1 /\ Pick(t) \in t
      BY PickIn DEF Small
    <3>2. Cardinality(t \ {Pick(t)}) = Cardinality(t) - 1
      BY <1>1, <3>1, FS_RemoveElement
    <3> QED BY <1>1, <3>1, <3>2 DEF Small
  <2>5. \A t \in Small(S, k + 1) : t # {} => g[t \ {Pick(t)}] = h[t \ {Pick(t)}]
    BY <2>3, <2>4
  <2>6. FoldTo(h, v, S, k + 1)
    BY <2>2, <2>5 DEF FoldTo
  <2> QED BY <2>6
<1> HIDE DEF C
<1>4. Nat \subseteq C
  BY <1>2, <1>3, Induction
<1>5. Cardinality(S) \in Nat /\ Small(S, Cardinality(S)) = SUBSET S
  BY <1>1 DEF Small
<1>6. PICK g : FoldTo(g, v, S, Cardinality(S))
  BY <1>4, <1>5 DEF C
<1>7. IsFold(g, v, S)
  BY <1>5, <1>6 DEF FoldTo, IsFold
<1> QED BY <1>7

\* The recursion of the fold, at every subset.
Folds(g, v, S) ==
    \A t \in SUBSET S : g[t] = IF t = {} THEN 0 ELSE v[Pick(t)] + g[t \ {Pick(t)}]

LEMMA FoldAt ==
    ASSUME NEW v, NEW S, IsFiniteSet(S)
    PROVE  \E g : Sum(v, S) = g[S] /\ Folds(g, v, S)
<1>1. PICK g : g = CHOOSE h : IsFold(h, v, S)
  OBVIOUS
<1>2. IsFold(g, v, S)
  BY <1>1, FoldExists
<1>3. Sum(v, S) = g[S]
  BY <1>1, SumIs
<1>4. Folds(g, v, S)
  BY <1>2 DEF IsFold, Folds
<1> QED BY <1>3, <1>4

\* Any such function is the sum.
LEMMA FoldIsSum ==
    ASSUME NEW v, NEW S, IsFiniteSet(S), NEW g, Folds(g, v, S)
    PROVE  \A t \in SUBSET S : g[t] = Sum(v, t)
<1> DEFINE T == {t \in SUBSET S : \A h : Folds(h, v, t) => h[t] = g[t]}
<1>1. \A t \in SUBSET S : (\A x \in t : t \ {x} \in T) => t \in T
  <2> SUFFICES ASSUME NEW t \in SUBSET S, \A x \in t : t \ {x} \in T,
                      NEW h, Folds(h, v, t)
               PROVE  h[t] = g[t]
    OBVIOUS
  <2>1. CASE t = {}
    BY <2>1 DEF Folds
  <2>2. CASE t # {}
    <3>1. Pick(t) \in t
      BY <2>2, PickIn
    <3>2. t \ {Pick(t)} \in T
      BY <3>1
    <3>3. Folds(h, v, t \ {Pick(t)})
      BY DEF Folds
    <3>4. h[t \ {Pick(t)}] = g[t \ {Pick(t)}]
      BY <3>2, <3>3
    <3>5. h[t] = v[Pick(t)] + h[t \ {Pick(t)}] /\ g[t] = v[Pick(t)] + g[t \ {Pick(t)}]
      BY <2>2 DEF Folds
    <3> QED BY <3>4, <3>5
  <2> QED BY <2>1, <2>2
<1> HIDE DEF T
<1>2. SUBSET S \subseteq T
  BY <1>1, SubsetInduction
<1> SUFFICES ASSUME NEW t \in SUBSET S PROVE g[t] = Sum(v, t)
  OBVIOUS
<1>3. IsFiniteSet(t) /\ t \in T
  BY <1>2, FS_Subset
<1>4. PICK h : Sum(v, t) = h[t] /\ Folds(h, v, t)
  BY <1>3, FoldAt
<1>5. h[t] = g[t]
  BY <1>3, <1>4 DEF T
<1> QED BY <1>4, <1>5

LEMMA SumPick ==
    ASSUME NEW v, NEW S, IsFiniteSet(S)
    PROVE  /\ S = {} => Sum(v, S) = 0
           /\ S # {} => \E c \in S : Sum(v, S) = v[c] + Sum(v, S \ {c})
<1>1. PICK g : Sum(v, S) = g[S] /\ Folds(g, v, S)
  BY FoldAt
<1>2. \A t \in SUBSET S : g[t] = Sum(v, t)
  BY <1>1, FoldIsSum
<1>3. S = {} => g[S] = 0
  BY <1>1 DEF Folds
<1>4. S # {} => g[S] = v[Pick(S)] + g[S \ {Pick(S)}]
  BY <1>1 DEF Folds
<1>5. g[S \ {Pick(S)}] = Sum(v, S \ {Pick(S)})
  BY <1>2
<1> QED BY <1>1, <1>3, <1>4, <1>5, PickIn

LEMMA SumNat ==
    ASSUME NEW D, IsFiniteSet(D), NEW v \in [D -> Nat]
    PROVE  \A t \in SUBSET D : Sum(v, t) \in Nat
<1> DEFINE T == {t \in SUBSET D : Sum(v, t) \in Nat}
<1>1. \A t \in SUBSET D : (\A x \in t : t \ {x} \in T) => t \in T
  <2> SUFFICES ASSUME NEW t \in SUBSET D, \A x \in t : t \ {x} \in T
               PROVE  Sum(v, t) \in Nat
    OBVIOUS
  <2>1. /\ t = {} => Sum(v, t) = 0
        /\ t # {} => \E c \in t : Sum(v, t) = v[c] + Sum(v, t \ {c})
    BY FS_Subset, SumPick
  <2>2. ASSUME NEW c \in t PROVE v[c] + Sum(v, t \ {c}) \in Nat
    <3>1. v[c] \in Nat /\ Sum(v, t \ {c}) \in Nat
      OBVIOUS
    <3> QED BY <3>1
  <2>3. CASE t = {}
    <3>1. Sum(v, t) = 0
      BY <2>1, <2>3
    <3> QED BY <3>1
  <2>4. CASE t # {}
    <3>1. PICK c \in t : Sum(v, t) = v[c] + Sum(v, t \ {c})
      BY <2>1, <2>4
    <3> QED BY <2>2, <3>1
  <2> QED BY <2>3, <2>4
<1> HIDE DEF T
<1>2. SUBSET D \subseteq T
  BY <1>1, SubsetInduction
<1> QED BY <1>2 DEF T

\* Any element may be taken out of a sum.
LEMMA SumTake ==
    ASSUME NEW D, IsFiniteSet(D), NEW v \in [D -> Nat]
    PROVE  \A t \in SUBSET D : \A x \in t : Sum(v, t) = v[x] + Sum(v, t \ {x})
<1> DEFINE T == {t \in SUBSET D : \A x \in t : Sum(v, t) = v[x] + Sum(v, t \ {x})}
<1>1. \A t \in SUBSET D : (\A x \in t : t \ {x} \in T) => t \in T
  <2> SUFFICES ASSUME NEW t \in SUBSET D, \A x \in t : t \ {x} \in T, NEW x \in t
               PROVE  Sum(v, t) = v[x] + Sum(v, t \ {x})
    OBVIOUS
  <2>1. PICK c \in t : Sum(v, t) = v[c] + Sum(v, t \ {c})
    <3>1. t # {} => \E c \in t : Sum(v, t) = v[c] + Sum(v, t \ {c})
      BY FS_Subset, SumPick
    <3> QED BY <3>1
  <2>2. CASE x # c
    <3>1. /\ Sum(v, t \ {c}) = v[x] + Sum(v, (t \ {c}) \ {x})
          /\ Sum(v, t \ {x}) = v[c] + Sum(v, (t \ {x}) \ {c})
      BY <2>2
    <3>2. PICK rest \in Nat : rest = Sum(v, (t \ {c}) \ {x})
      <4>1. (t \ {c}) \ {x} \in SUBSET D
        OBVIOUS
      <4> QED BY <4>1, SumNat
    <3>3. (t \ {c}) \ {x} = (t \ {x}) \ {c}
      OBVIOUS
    <3>4. v[c] \in Nat /\ v[x] \in Nat
      OBVIOUS
    <3>5. Sum(v, t \ {c}) = v[x] + rest /\ Sum(v, t \ {x}) = v[c] + rest
      BY <3>1, <3>2, <3>3
    <3> QED BY <2>1, <3>4, <3>5
  <2> QED BY <2>1, <2>2
<1> HIDE DEF T
<1>2. SUBSET D \subseteq T
  BY <1>1, SubsetInduction
<1> QED BY <1>2 DEF T

\* Sums of the same elements are the same.
LEMMA SumAgree ==
    ASSUME NEW D, IsFiniteSet(D), NEW v, NEW w, \A x \in D : v[x] = w[x]
    PROVE  Sum(v, D) = Sum(w, D)
<1>1. PICK g : Sum(v, D) = g[D] /\ Folds(g, v, D)
  BY FoldAt
<1>2. Folds(g, w, D)
  BY <1>1, PickIn DEF Folds
<1>3. \A t \in SUBSET D : g[t] = Sum(w, t)
  BY <1>2, FoldIsSum
<1> QED BY <1>1, <1>3

\* A sum grows with its elements.
LEMMA SumFunctionIs ==
    ASSUME NEW D, NEW v, DOMAIN v = D
    PROVE  SumFunction(v) = Sum(v, D)
BY DEF SumFunction, Sum

\* One more element adds its value.
LEMMA SumExtends ==
    ASSUME NEW D, IsFiniteSet(D), NEW m, m \notin D,
           NEW v \in [D -> Nat], NEW w \in [D \cup {m} -> Nat], \A k \in D : w[k] = v[k]
    PROVE  SumFunction(v) \in Nat /\ SumFunction(w) = w[m] + SumFunction(v)
<1>1. IsFiniteSet(D \cup {m}) /\ (D \cup {m}) \ {m} = D
  BY FS_AddElement
<1>2. SumFunction(v) = Sum(v, D) /\ SumFunction(w) = Sum(w, D \cup {m})
  BY SumFunctionIs
<1>3. Sum(v, D) \in Nat
  BY SumNat
<1>4. Sum(w, D) = Sum(v, D)
  BY SumAgree
<1>5. Sum(w, D \cup {m}) = w[m] + Sum(w, (D \cup {m}) \ {m})
  <2>1. PICK E : E = D \cup {m}
    OBVIOUS
  <2>2. IsFiniteSet(E) /\ w \in [E -> Nat] /\ m \in E
    BY <1>1, <2>1
  <2>3. E \in SUBSET E
    OBVIOUS
  <2>4. Sum(w, E) = w[m] + Sum(w, E \ {m})
    BY <2>2, <2>3, SumTake
  <2> QED BY <2>1, <2>4
<1> QED BY <1>1, <1>2, <1>3, <1>4, <1>5
-----------------------------------------------------------------------------
(* The health factor.                                                      *)

\* A larger divisor gives no larger quotient, rounded half up too.
LEMMA RayDivAntitone ==
    ASSUME NEW a \in Nat, NEW b \in Nat \ {0}, NEW c \in Nat \ {0}, b <= c
    PROVE  RayDiv(a, c) <= RayDiv(a, b)
<1>1. PICK x \in Nat : x = a * RAY
  <2>1. a * RAY \in Nat
    BY RayPositive
  <2> QED BY <2>1
<1>2. PICK h \in Nat, k \in Nat, q \in Nat : h = b \div 2 /\ k = c \div 2 /\ q = (x + h) \div b
  <2>1. PICK h \in Nat, k \in Nat : h = b \div 2 /\ k = c \div 2
    BY HalfBelow
  <2>2. (x + h) \div b \in Nat
    OBVIOUS
  <2> QED BY <2>1, <2>2
<1>3. x + h < (q + 1) * b
  BY <1>2
<1>4. b - h <= c - k
  BY <1>2
<1>5. q * b <= q * c
  <2>1. b * q <= c * q /\ b * q = q * b /\ c * q = q * c
    BY TimesMonotone
  <2> QED BY <2>1
<1>6. (q + 1) * b = q * b + b /\ (q + 1) * c = q * c + c /\ q * b \in Nat /\ q * c \in Nat
  OBVIOUS
<1>7. x + k < (q + 1) * c
  BY <1>3, <1>4, <1>5, <1>6
<1>8. (x + k) \div c <= q
  BY <1>7, DivAtMost
<1> QED BY <1>1, <1>2, <1>8 DEF RayDiv, DivAt

LEMMA AccountOf ==
    ASSUME NEW field, NEW es \in Accounts(field)
    PROVE  /\ DOMAIN es \subseteq Market /\ IsFiniteSet(DOMAIN es)
           /\ \A m \in DOMAIN es : es[m] \in Opened(m, field)
<1>1. PICK ms \in SUBSET Market : DOMAIN es = ms /\ \A m \in ms : es[m] \in Opened(m, field)
  BY DEF Accounts
<1> QED BY <1>1, FS_Subset, HealthAssumption

LEMMA OpenedEntry ==
    ASSUME RateInv, NEW field \in {"liqIndex", "borIndex"}, NEW m \in Market, NEW e \in Opened(m, field)
    PROVE  e.balance \in Nat /\ e.index \in Nat
<1>1. PICK b \in Balance, k \in {1, delivered[m]} :
        e = [balance |-> b, index |-> onChain[m][k].state[field]]
  BY DEF Opened
<1>2. onChain[m][k].state \in Pool
  <2>1. k \in 1..Len(onChain[m])
    BY ChainLast DEF RateInv, RateTypeOK
  <2> QED BY <2>1, ChainState
<1>3. onChain[m][k].state["liqIndex"] \in Nat /\ onChain[m][k].state["borIndex"] \in Nat
  BY <1>2 DEF Pool
<1>4. b \in Nat
  BY HealthAssumption
<1> QED BY <1>1, <1>3, <1>4

LEMMA BalanceNat ==
    ASSUME NEW e, e.balance \in Nat, e.index \in Nat, NEW index \in Nat
    PROVE  ActualBalance(e, index) \in Nat
<1>1. CASE e.index = 0
  BY <1>1 DEF ActualBalance
<1>2. CASE e.index # 0
  <2>1. RayDiv(index, e.index) \in Nat
    BY <1>2, RayDivMonotone
  <2>2. WadToRay(e.balance) \in Nat
    BY WadRayAssumption DEF WadToRay
  <2>3. PICK a \in Nat : a = RayMul(WadToRay(e.balance), RayDiv(index, e.index))
    BY <2>1, <2>2, RayMulMonotone
  <2>4. RayToWad(a) \in Nat
    BY WadRayAssumption DEF RayToWad
  <2> QED BY <1>2, <2>3, <2>4 DEF ActualBalance
<1> QED BY <1>1, <1>2

LEMMA ValueNat ==
    ASSUME NEW m \in Market, NEW b \in Nat
    PROVE  ValueUSD(m, b) \in Nat
<1>1. PriceUSD[m] \in Nat /\ DecimalsFactor[m] \in Nat \ {0}
  BY HealthAssumption
<1>2. b * PriceUSD[m] \in Nat
  BY <1>1
<1> QED BY <1>1, <1>2 DEF ValueUSD

LEMMA IndexNat ==
    ASSUME RateInv, NEW m
    PROVE  /\ IndexOr(m, CurrentLiquidityIndex(m, clock)) \in Nat
           /\ IndexOr(m, CurrentBorrowIndex(m, clock)) \in Nat
<1>1. CASE m \in DOMAIN pools
  <2>1. pools[m] \in Pool /\ clock \in Nat
    BY <1>1 DEF RateInv, RateTypeOK
  <2>2. /\ pools[m].liqIndex \in Nat /\ pools[m].borIndex \in Nat /\ pools[m].supRate \in Nat
        /\ pools[m].borRate \in Nat /\ pools[m].ts \in Nat
    BY <2>1 DEF Pool
  <2>3. CurrentLiquidityIndex(m, clock) \in Nat /\ CurrentBorrowIndex(m, clock) \in Nat
    BY <2>1, <2>2, ExtrapolateGrows DEF CurrentLiquidityIndex, CurrentBorrowIndex
  <2> QED BY <1>1, <2>3 DEF IndexOr
<1>2. CASE m \notin DOMAIN pools
  BY <1>2, RayPositive DEF IndexOr
<1> QED BY <1>1, <1>2

LEMMA Valued ==
    ASSUME RateInv, NEW field \in {"liqIndex", "borIndex"}, NEW m \in Market, NEW es,
           es[m] \in Opened(m, field)
    PROVE  SuppliedValue(es, m, clock) \in Nat /\ OwedValue(es, m, clock) \in Nat
<1>1. es[m].balance \in Nat /\ es[m].index \in Nat
  BY OpenedEntry
<1>2. /\ ActualBalance(es[m], IndexOr(m, CurrentLiquidityIndex(m, clock))) \in Nat
      /\ ActualBalance(es[m], IndexOr(m, CurrentBorrowIndex(m, clock))) \in Nat
  BY <1>1, IndexNat, BalanceNat
<1> QED BY <1>2, ValueNat DEF SuppliedValue, OwedValue

\* The totals of the scanner.
LEMMA DebtTotals ==
    ASSUME RateInv, NEW ds \in Accounts("borIndex")
    PROVE  TotalDebt(ds, clock) \in Nat
<1>1. PICK D : D = DOMAIN ds /\ IsFiniteSet(D)
  BY AccountOf
<1>2. PICK w : w = [m \in D |-> WadToRay(OwedValue(ds, m, clock))]
  OBVIOUS
<1>3. \A m \in D : OwedValue(ds, m, clock) \in Nat
  BY <1>1, AccountOf, Valued
<1>4. w \in [D -> Nat]
  BY <1>2, <1>3, WadRayAssumption DEF WadToRay
<1>5. Sum(w, D) \in Nat
  BY <1>1, <1>4, SumNat
<1> QED BY <1>1, <1>2, <1>5, SumFunctionIs DEF TotalDebt

LEMMA CollateralTotals ==
    ASSUME RateInv, NEW cs \in Accounts("liqIndex")
    PROVE  WeightedCollateral(cs, clock) \in Nat
<1>1. PICK D : D = DOMAIN cs /\ IsFiniteSet(D) /\ D \subseteq Market
  BY AccountOf
<1>2. PICK u : u = [m \in D |-> RayMul(WadToRay(SuppliedValue(cs, m, clock)), LiquidationThreshold[m])]
  OBVIOUS
<1>3. \A m \in D : SuppliedValue(cs, m, clock) \in Nat
  BY <1>1, AccountOf, Valued
<1>4. \A m \in D : u[m] \in Nat
  <2> SUFFICES ASSUME NEW m \in D PROVE u[m] \in Nat
    OBVIOUS
  <2>a. WadToRay(SuppliedValue(cs, m, clock)) \in Nat
    BY <1>3, WadRayAssumption DEF WadToRay
  <2>b. LiquidationThreshold[m] \in Nat
    BY <1>1, HealthAssumption, RayPositive
  <2>1. PICK a \in Nat, t \in Nat : a = WadToRay(SuppliedValue(cs, m, clock)) /\ t = LiquidationThreshold[m]
    BY <2>a, <2>b
  <2> QED BY <1>2, <2>1, RayMulNat
<1>5. u \in [D -> Nat]
  BY <1>2, <1>4
<1>6. Sum(u, D) \in Nat
  BY <1>1, <1>5, SumNat
<1> QED BY <1>1, <1>2, <1>6, SumFunctionIs DEF WeightedCollateral

\* An entry in another market adds to the totals.
LEMMA MoreDebt ==
    ASSUME RateInv, NEW ds \in Accounts("borIndex"), NEW m \in Market \ DOMAIN ds,
           NEW e \in Opened(m, "borIndex")
    PROVE  /\ TotalDebt(WithEntry(ds, m, e), clock) \in Nat
           /\ TotalDebt(ds, clock) <= TotalDebt(WithEntry(ds, m, e), clock)
<1>1. PICK D : /\ D = DOMAIN ds /\ IsFiniteSet(D) /\ D \subseteq Market /\ m \notin D
               /\ \A k \in D : ds[k] \in Opened(k, "borIndex")
  BY AccountOf
<1>2. PICK es : es = WithEntry(ds, m, e)
  OBVIOUS
<1>3. /\ DOMAIN es = D \cup {m} /\ es[m] = e
      /\ \A k \in D : es[k] = ds[k]
  BY <1>1, <1>2 DEF WithEntry
<1>4. PICK v, w : /\ v = [k \in D |-> WadToRay(OwedValue(ds, k, clock))]
                  /\ w = [k \in D \cup {m} |-> WadToRay(OwedValue(es, k, clock))]
  OBVIOUS
<1>5. \A a \in Nat : WadToRay(a) \in Nat
  BY WadRayAssumption DEF WadToRay
<1>6. \A k \in D : OwedValue(ds, k, clock) \in Nat /\ OwedValue(es, k, clock) = OwedValue(ds, k, clock)
  <2> SUFFICES ASSUME NEW k \in D
               PROVE  OwedValue(ds, k, clock) \in Nat /\ OwedValue(es, k, clock) = OwedValue(ds, k, clock)
    OBVIOUS
  <2>1. OwedValue(ds, k, clock) \in Nat
    BY <1>1, Valued
  <2> QED BY <1>3, <2>1 DEF OwedValue
<1>7. OwedValue(es, m, clock) \in Nat
  BY <1>3, Valued
<1>8. v \in [D -> Nat] /\ w \in [D \cup {m} -> Nat] /\ \A k \in D : w[k] = v[k]
  BY <1>4, <1>5, <1>6, <1>7
<1>9. SumFunction(v) \in Nat /\ SumFunction(w) = w[m] + SumFunction(v)
  BY <1>1, <1>8, SumExtends
<1>10. TotalDebt(ds, clock) = SumFunction(v) /\ TotalDebt(es, clock) = SumFunction(w)
  BY <1>1, <1>3, <1>4 DEF TotalDebt
<1>11. w[m] \in Nat
  BY <1>8
<1> QED BY <1>2, <1>9, <1>10, <1>11

LEMMA MoreCollateral ==
    ASSUME RateInv, NEW cs \in Accounts("liqIndex"), NEW m \in Market \ DOMAIN cs,
           NEW e \in Opened(m, "liqIndex")
    PROVE  /\ WeightedCollateral(WithEntry(cs, m, e), clock) \in Nat
           /\ WeightedCollateral(cs, clock) <= WeightedCollateral(WithEntry(cs, m, e), clock)
<1>1. PICK D : /\ D = DOMAIN cs /\ IsFiniteSet(D) /\ D \subseteq Market /\ m \notin D
               /\ \A k \in D : cs[k] \in Opened(k, "liqIndex")
  BY AccountOf
<1>2. PICK es : es = WithEntry(cs, m, e)
  OBVIOUS
<1>3. /\ DOMAIN es = D \cup {m} /\ es[m] = e
      /\ \A k \in D : es[k] = cs[k]
  BY <1>1, <1>2 DEF WithEntry
<1>4. PICK v, w : /\ v = [k \in D |-> RayMul(WadToRay(SuppliedValue(cs, k, clock)),
                                             LiquidationThreshold[k])]
                  /\ w = [k \in D \cup {m} |-> RayMul(WadToRay(SuppliedValue(es, k, clock)),
                                                      LiquidationThreshold[k])]
  OBVIOUS
<1>5. \A a \in Nat, k \in Market : RayMul(WadToRay(a), LiquidationThreshold[k]) \in Nat
  <2> SUFFICES ASSUME NEW a \in Nat, NEW k \in Market
               PROVE  RayMul(WadToRay(a), LiquidationThreshold[k]) \in Nat
    OBVIOUS
  <2>1. WadToRay(a) \in Nat
    BY WadRayAssumption DEF WadToRay
  <2>2. PICK t \in Nat : t = LiquidationThreshold[k]
    BY HealthAssumption, RayPositive
  <2>3. PICK b \in Nat : b = WadToRay(a)
    BY <2>1
  <2>4. RayMul(b, t) \in Nat
    BY RayMulMonotone
  <2> QED BY <2>2, <2>3, <2>4
<1>6. \A k \in D : /\ SuppliedValue(cs, k, clock) \in Nat
                   /\ SuppliedValue(es, k, clock) = SuppliedValue(cs, k, clock)
  <2> SUFFICES ASSUME NEW k \in D
               PROVE  /\ SuppliedValue(cs, k, clock) \in Nat
                      /\ SuppliedValue(es, k, clock) = SuppliedValue(cs, k, clock)
    OBVIOUS
  <2>1. SuppliedValue(cs, k, clock) \in Nat
    BY <1>1, Valued
  <2> QED BY <1>3, <2>1 DEF SuppliedValue
<1>7. SuppliedValue(es, m, clock) \in Nat
  BY <1>3, Valued
<1>8. v \in [D -> Nat] /\ w \in [D \cup {m} -> Nat] /\ \A k \in D : w[k] = v[k]
  BY <1>1, <1>4, <1>5, <1>6, <1>7
<1>9. SumFunction(v) \in Nat /\ SumFunction(w) = w[m] + SumFunction(v)
  BY <1>1, <1>8, SumExtends
<1>10. WeightedCollateral(cs, clock) = SumFunction(v) /\ WeightedCollateral(es, clock) = SumFunction(w)
  BY <1>1, <1>3, <1>4 DEF WeightedCollateral
<1>11. w[m] \in Nat
  BY <1>8
<1> QED BY <1>2, <1>9, <1>10, <1>11

\* More debt never raises the health factor of an account in debt and more collateral never
\* lowers it: CalculateHealthFactor's sums, roundings and division keep the order.
THEOREM HealthFactorIsMonotone == RateSpec => []HealthMonotone
<1>1. RateInv => HealthMonotone
  <2> SUFFICES ASSUME RateInv, NEW cs \in Accounts("liqIndex"), NEW ds \in Accounts("borIndex"),
                      TotalDebt(ds, clock) > 0
               PROVE  /\ \A m \in Market \ DOMAIN ds : \A e \in Opened(m, "borIndex") :
                           CalculateHealthFactor(cs, WithEntry(ds, m, e), clock)
                             <= CalculateHealthFactor(cs, ds, clock)
                      /\ \A m \in Market \ DOMAIN cs : \A e \in Opened(m, "liqIndex") :
                           CalculateHealthFactor(WithEntry(cs, m, e), ds, clock)
                             >= CalculateHealthFactor(cs, ds, clock)
    BY DEF HealthMonotone
  <2>1. PICK W \in Nat, T \in Nat \ {0} : W = WeightedCollateral(cs, clock) /\ T = TotalDebt(ds, clock)
    BY CollateralTotals, DebtTotals
  <2>2. CalculateHealthFactor(cs, ds, clock) = RayDiv(W, T) /\ RayDiv(W, T) \in Nat
    BY <2>1, RayDivMonotone DEF CalculateHealthFactor
  <2>3. ASSUME NEW m \in Market \ DOMAIN ds, NEW e \in Opened(m, "borIndex")
        PROVE  CalculateHealthFactor(cs, WithEntry(ds, m, e), clock)
                 <= CalculateHealthFactor(cs, ds, clock)
    <3>1. PICK U \in Nat : U = TotalDebt(WithEntry(ds, m, e), clock) /\ T <= U
      BY <2>1, MoreDebt
    <3>2. U \in Nat \ {0}
      BY <3>1
    <3>3. RayDiv(W, U) <= RayDiv(W, T)
      BY <3>1, <3>2, RayDivAntitone
    <3>4. CalculateHealthFactor(cs, WithEntry(ds, m, e), clock) = RayDiv(W, U)
      BY <2>1, <3>1, <3>2 DEF CalculateHealthFactor
    <3> QED BY <2>2, <3>3, <3>4
  <2>4. ASSUME NEW m \in Market \ DOMAIN cs, NEW e \in Opened(m, "liqIndex")
        PROVE  CalculateHealthFactor(WithEntry(cs, m, e), ds, clock)
                 >= CalculateHealthFactor(cs, ds, clock)
    <3>1. PICK V \in Nat : V = WeightedCollateral(WithEntry(cs, m, e), clock) /\ W <= V
      BY <2>1, MoreCollateral
    <3>2. RayDiv(W, T) <= RayDiv(V, T) /\ RayDiv(V, T) \in Nat
      BY <3>1, RayDivMonotone
    <3>3. CalculateHealthFactor(WithEntry(cs, m, e), ds, clock) = RayDiv(V, T)
      BY <2>1, <3>1 DEF CalculateHealthFactor
    <3> QED BY <2>2, <3>2, <3>3
  <2> QED BY <2>3, <2>4
<1> QED BY <1>1, RateInvariant, PTL

\* A rounded quotient is below one only if the dividend is below the divisor, and it is
\* if the difference is more than the divisor's share of 1 / (2 * RAY).
LEMMA QuotientBelowOne ==
    ASSUME NEW W \in Nat, NEW T \in Nat \ {0}
    PROVE  /\ RayDiv(W, T) < RAY => W < T
           /\ 2 * RAY * (T - W) > T => RayDiv(W, T) < RAY
<1>1. PICK R \in Nat \ {0} : R = RAY
  BY RayPositive
<1>2. PICK h \in Nat : h = T \div 2 /\ 2 * h <= T
  <2>1. T \div 2 \in Nat /\ 2 * (T \div 2) <= T
    OBVIOUS
  <2> QED BY <2>1
<1>3. PICK x \in Nat : x = W * R + h
  <2>1. W * R + h \in Nat
    OBVIOUS
  <2> QED BY <2>1
<1>4. RayDiv(W, T) = x \div T /\ x \div T \in Nat
  BY <1>1, <1>2, <1>3 DEF RayDiv, DivAt
<1>5. ASSUME W >= T PROVE x \div T >= R
  <2>1. T * R <= W * R /\ T * R \in Nat /\ W * R \in Nat
    BY <1>5, TimesMonotone
  <2>2. R * T = T * R
    OBVIOUS
  <2>3. R * T <= x
    BY <1>3, <2>1, <2>2
  <2> QED BY <2>3, DivAtLeast
<1>6. ASSUME 2 * R * (T - W) > T PROVE x \div T < R
  <2>1. PICK a \in Nat, b \in Nat : a = W * R /\ b = R * T
    OBVIOUS
  <2>2. 2 * R * (T - W) = 2 * b - 2 * a
    BY <2>1
  <2>3. x < b
    BY <1>2, <1>3, <1>6, <2>1, <2>2
  <2>4. (R - 1) + 1 = R /\ R - 1 \in Int
    OBVIOUS
  <2>5. x < ((R - 1) + 1) * T
    BY <2>1, <2>3, <2>4
  <2>6. x \div T <= R - 1
    BY <2>4, <2>5, DivAtMost
  <2> QED BY <1>4, <2>6
<1> QED BY <1>1, <1>4, <1>5, <1>6

\* CalculateHealthFactor's rounding, at any scale and for any entries, prices and
\* thresholds: a covered account is never liquidatable, and a shortfall of more than the
\* debt's share of 1 / (2 * RAY) always is.
THEOREM LiquidationsAreEarned == RateSpec => []RoundingFair
<1>1. RateInv => RoundingFair
  <2> SUFFICES ASSUME RateInv, NEW cs \in Accounts("liqIndex"), NEW ds \in Accounts("borIndex")
               PROVE  LET weighted == WeightedCollateral(cs, clock)
                          debt == TotalDebt(ds, clock)
                          health == CalculateHealthFactor(cs, ds, clock)
                      IN /\ health < RAY => weighted < debt
                         /\ 2 * RAY * (debt - weighted) > debt => health < RAY
    BY DEF RoundingFair
  <2>1. PICK W \in Nat, T \in Nat : W = WeightedCollateral(cs, clock) /\ T = TotalDebt(ds, clock)
    BY CollateralTotals, DebtTotals
  <2>2. CASE T = 0
    <3>1. CalculateHealthFactor(cs, ds, clock) = 1000 * RAY
      BY <2>1, <2>2 DEF CalculateHealthFactor
    <3>2. PICK R \in Nat \ {0} : R = RAY
      BY RayPositive
    <3>3. ~(1000 * R < R)
      OBVIOUS
    <3>4. PICK a \in Nat : a = R * W
      OBVIOUS
    <3>5. 2 * R * (0 - W) = -2 * a
      BY <3>4
    <3>6. ~(2 * R * (0 - W) > 0)
      BY <3>5
    <3> QED BY <2>1, <2>2, <3>1, <3>2, <3>3, <3>6
  <2>3. CASE T # 0
    <3>1. CalculateHealthFactor(cs, ds, clock) = RayDiv(W, T)
      BY <2>1, <2>3 DEF CalculateHealthFactor
    <3> QED BY <2>1, <2>3, <3>1, QuotientBelowOne
  <2> QED BY <2>2, <2>3
<1> QED BY <1>1, RateInvariant, PTL

-----------------------------------------------------------------------------
(* The compounded interest.                                                *)

\* What a floored quotient loses, once and twice.
LEMMA FlooredOnce ==
    ASSUME NEW a \in Nat, NEW m \in Nat \ {0}
    PROVE  a \div m \in Nat /\ m * (a \div m) - a <= 0 /\ m * (a \div m) - a >= 1 - m
OBVIOUS

LEMMA FlooredTwice ==
    ASSUME NEW a \in Nat, NEW m \in Nat \ {0}, NEW k \in Nat \ {0}
    PROVE  \E q \in Nat : /\ q = ((a * k) \div m) \div k
                          /\ m * q - a <= 0 /\ m * q - a >= 1 - m
<1>1. PICK b \in Nat : b = a * k
  <2>1. a * k \in Nat
    OBVIOUS
  <2> QED BY <2>1
<1>2. PICK p \in Nat : p = b \div m /\ m * p <= b /\ b < m * p + m
  <2>1. b \div m \in Nat /\ m * (b \div m) <= b /\ b < m * (b \div m) + m
    OBVIOUS
  <2> QED BY <2>1
<1>3. PICK q \in Nat : q = p \div k /\ k * q <= p /\ p + 1 <= k * q + k
  <2>1. p \div k \in Nat /\ k * (p \div k) <= p /\ p + 1 <= k * (p \div k) + k
    OBVIOUS
  <2> QED BY <2>1
<1>4. k * (m * q) <= k * a
  <2>1. k * q \in Nat
    OBVIOUS
  <2>2. (k * q) * m <= p * m
    BY <1>3, <2>1, TimesMonotone
  <2>3. (k * q) * m = k * (m * q) /\ p * m = m * p /\ a * k = k * a
    OBVIOUS
  <2>4. k * (m * q) \in Nat /\ m * p \in Nat
    OBVIOUS
  <2> QED BY <1>1, <1>2, <2>2, <2>3, <2>4
<1>5. k * a < k * (m * q + m)
  <2>1. p + 1 \in Nat /\ k * q + k \in Nat
    OBVIOUS
  <2>2. (p + 1) * m <= (k * q + k) * m
    BY <1>3, <2>1, TimesMonotone
  <2>3. (p + 1) * m = m * p + m /\ (k * q + k) * m = k * (m * q + m) /\ a * k = k * a
    OBVIOUS
  <2>4. m * p \in Nat /\ k * (m * q + m) \in Nat
    OBVIOUS
  <2> QED BY <1>1, <1>2, <2>2, <2>3, <2>4
<1>6. \A x, y \in Nat : /\ k * x <= k * y => x <= y
                        /\ k * x < k * y => x < y
  <2> SUFFICES ASSUME NEW x \in Nat, NEW y \in Nat
               PROVE  /\ k * x <= k * y => x <= y
                      /\ k * x < k * y => x < y
    OBVIOUS
  <2>1. CASE x > y
    <3>1. PICK d \in Nat \ {0} : x = y + d
      <4>1. x - y \in Nat \ {0} /\ x = y + (x - y)
        BY <2>1
      <4> QED BY <4>1
    <3>2. k * (y + d) = k * y + k * d /\ k * y \in Nat /\ k * d \in Nat \ {0}
      OBVIOUS
    <3> QED BY <3>1, <3>2
  <2>2. CASE x <= y
    BY <2>2
  <2> QED BY <2>1, <2>2
<1>7. m * q \in Nat /\ m * q + m \in Nat
  OBVIOUS
<1>8. m * q <= a /\ a < m * q + m
  BY <1>4, <1>5, <1>6, <1>7
<1>9. m * q - a <= 0 /\ m * q - a >= 1 - m
  BY <1>7, <1>8
<1> QED BY <1>1, <1>2, <1>3, <1>9

\* RayMul is the product to half a unit.
LEMMA RayMulError ==
    ASSUME NEW a \in Nat, NEW b \in Nat
    PROVE  /\ RayMul(a, b) \in Nat
           /\ 2 * (RAY * RayMul(a, b) - a * b) <= RAY
           /\ 2 * (RAY * RayMul(a, b) - a * b) >= -RAY
<1>1. PICK R \in Nat \ {0}, x \in Nat : R = RAY /\ x = a * b
  <2>1. a * b \in Nat
    OBVIOUS
  <2> QED BY <2>1, RayPositive
<1>2. PICK h \in Nat : h = R \div 2 /\ 2 * h <= R /\ 2 * h >= R - 1
  <2>1. R \div 2 \in Nat /\ 2 * (R \div 2) <= R /\ 2 * (R \div 2) >= R - 1
    OBVIOUS
  <2> QED BY <2>1
<1>3. PICK s \in Nat : s = (x + h) \div R /\ R * s <= x + h /\ R * s >= x + h + 1 - R
  <2>1. PICK y \in Nat : y = x + h
    OBVIOUS
  <2>2. y \div R \in Nat /\ R * (y \div R) <= y /\ R * (y \div R) >= y + 1 - R
    OBVIOUS
  <2> QED BY <2>1, <2>2
<1>4. RayMul(a, b) = s
  BY <1>1, <1>2, <1>3 DEF RayMul, MulAt
<1>5. R * s \in Nat
  OBVIOUS
<1> QED BY <1>1, <1>2, <1>3, <1>4, <1>5

LEMMA Scaled ==
    ASSUME NEW k \in Nat, NEW a \in Int, NEW b \in Int, a <= b
    PROVE  k * a \in Int /\ k * b \in Int /\ k * a <= k * b
<1>1. PICK d \in Nat : b = a + d
  <2>1. b - a \in Nat /\ b = a + (b - a)
    OBVIOUS
  <2> QED BY <2>1
<1>2. k * (a + d) = k * a + k * d /\ k * d \in Nat /\ k * a \in Int
  OBVIOUS
<1> QED BY <1>1, <1>2

\* One, two and three periods, each as what its floors and roundings lose.
LEMMA OnePeriod ==
    ASSUME NEW R \in Nat \ {0}, NEW Y \in Nat \ {0}, NEW x \in Nat,
           NEW q \in Nat, Y * q - x <= 0, Y * q - x >= 1 - Y
    PROVE  LET diff == (R + q) * (R * Y) - R * (R * Y + x)
           IN diff <= R * Y /\ -diff <= 3 * (R * Y)
<1>1. (R + q) * (R * Y) - R * (R * Y + x) = R * (Y * q - x)
  OBVIOUS
<1>2. PICK a \in Int : a = Y * q - x
  <2>1. Y * q - x \in Int
    OBVIOUS
  <2> QED BY <2>1
<1>3. R * (1 - Y) <= R * a /\ R * a <= R * 0 /\ R * a \in Int
  BY <1>2, Scaled
<1>4. R * (1 - Y) = R - R * Y /\ R * Y \in Nat /\ R * 0 = 0
  OBVIOUS
<1> QED BY <1>1, <1>2, <1>3, <1>4

LEMMA TwoPeriods ==
    ASSUME NEW R \in Nat \ {0}, NEW Y \in Nat \ {0}, NEW x \in Nat, NEW s \in Nat,
           2 * (R * s - x * x) <= R, 2 * (R * s - x * x) >= -R,
           NEW q \in Nat, Y * q - 2 * x <= 0, Y * q - 2 * x >= 1 - Y,
           NEW r \in Nat, (Y * Y) * r - s <= 0, (Y * Y) * r - s >= 1 - Y * Y
    PROVE  LET diff == (R + q + r) * ((R * Y) * (R * Y)) - R * ((R * Y + x) * (R * Y + x))
           IN diff <= (R * Y) * (R * Y) /\ -diff <= 3 * ((R * Y) * (R * Y))
<1>1. (R + q + r) * ((R * Y) * (R * Y)) - R * ((R * Y + x) * (R * Y + x))
        = (R * R * Y) * (Y * q - 2 * x) + (R * R) * ((Y * Y) * r - s) + R * (R * s - x * x)
  OBVIOUS
<1>2. PICK a \in Int, b \in Int, e \in Int :
        a = Y * q - 2 * x /\ b = (Y * Y) * r - s /\ e = R * s - x * x
  <2>1. Y * q - 2 * x \in Int /\ (Y * Y) * r - s \in Int /\ R * s - x * x \in Int
    OBVIOUS
  <2> QED BY <2>1
<1>3. PICK K \in Nat, L \in Nat, M \in Nat : K = R * R * Y /\ L = R * R /\ M = (R * Y) * (R * Y)
  <2>1. R * R * Y \in Nat /\ R * R \in Nat /\ (R * Y) * (R * Y) \in Nat
    OBVIOUS
  <2> QED BY <2>1
<1>4. K * (1 - Y) <= K * a /\ K * a <= K * 0 /\ K * a \in Int
  BY <1>2, Scaled
<1>5. L * (1 - Y * Y) <= L * b /\ L * b <= L * 0 /\ L * b \in Int
  <2>1. 1 - Y * Y \in Int /\ 1 - Y * Y <= b /\ b <= 0
    BY <1>2
  <2> QED BY <2>1, Scaled
<1>6. R * (-R) <= R * (2 * e) /\ R * (2 * e) <= R * R /\ R * e \in Int
  <2>1. -R \in Int /\ 2 * e \in Int /\ -R <= 2 * e /\ 2 * e <= R
    BY <1>2
  <2> QED BY <2>1, Scaled
<1>7. /\ K * (1 - Y) = K - M /\ L * (1 - Y * Y) = L - M /\ R * (-R) = -L /\ R * R = L
      /\ K * 0 = 0 /\ L * 0 = 0 /\ R * (2 * e) = 2 * (R * e)
  BY <1>3
<1>8. L <= M
  <2>1. PICK d \in Nat : Y = 1 + d
    <3>1. Y - 1 \in Nat /\ Y = 1 + (Y - 1)
      OBVIOUS
    <3> QED BY <3>1
  <2>2. (R * (1 + d)) * (R * (1 + d)) = R * R + (R * R) * (d + d + d * d)
    OBVIOUS
  <2>3. (R * R) * (d + d + d * d) \in Nat
    OBVIOUS
  <2> QED BY <1>3, <2>1, <2>2, <2>3
<1>9. PICK D \in Int : D = (R + q + r) * ((R * Y) * (R * Y)) - R * ((R * Y + x) * (R * Y + x))
  <2>1. (R + q + r) * ((R * Y) * (R * Y)) - R * ((R * Y + x) * (R * Y + x)) \in Int
    OBVIOUS
  <2> QED BY <2>1
<1>10. D = K * a + L * b + R * e
  BY <1>1, <1>2, <1>3, <1>9
<1>11. D <= M /\ -D <= 3 * M
  BY <1>4, <1>5, <1>6, <1>7, <1>8, <1>10
<1> QED BY <1>3, <1>9, <1>11

LEMMA ThreePeriods ==
    ASSUME NEW R \in Nat \ {0}, NEW Y \in Nat \ {0}, Y >= 2, NEW x \in Nat, x <= R * Y,
           NEW s \in Nat, 2 * (R * s - x * x) <= R, 2 * (R * s - x * x) >= -R,
           NEW c \in Nat, 2 * (R * c - s * x) <= R, 2 * (R * c - s * x) >= -R,
           NEW q \in Nat, Y * q - 3 * x <= 0, Y * q - 3 * x >= 1 - Y,
           NEW r \in Nat, (Y * Y) * r - 3 * s <= 0, (Y * Y) * r - 3 * s >= 1 - Y * Y,
           NEW t \in Nat, (Y * Y * Y) * t - c <= 0, (Y * Y * Y) * t - c >= 1 - Y * Y * Y
    PROVE  LET diff == (R + q + r + t) * ((R * Y) * (R * Y) * (R * Y))
                       - R * ((R * Y + x) * (R * Y + x) * (R * Y + x))
           IN /\ diff <= (R * Y) * (R * Y) * (R * Y)
              /\ -diff <= 3 * ((R * Y) * (R * Y) * (R * Y))
<1>1. (R + q + r + t) * ((R * Y) * (R * Y) * (R * Y))
        - R * ((R * Y + x) * (R * Y + x) * (R * Y + x))
        = (R * R * R * Y * Y) * (Y * q - 3 * x) + (R * R * R * Y) * ((Y * Y) * r - 3 * s)
          + (R * R * R) * ((Y * Y * Y) * t - c) + (3 * R * R * Y + R * x) * (R * s - x * x)
          + (R * R) * (R * c - s * x)
  OBVIOUS
<1>2. PICK a \in Int, b \in Int, d \in Int, e \in Int, g \in Int :
        /\ a = Y * q - 3 * x /\ b = (Y * Y) * r - 3 * s /\ d = (Y * Y * Y) * t - c
        /\ e = R * s - x * x /\ g = R * c - s * x
  <2>1. /\ Y * q - 3 * x \in Int /\ (Y * Y) * r - 3 * s \in Int /\ (Y * Y * Y) * t - c \in Int
        /\ R * s - x * x \in Int /\ R * c - s * x \in Int
    OBVIOUS
  <2> QED BY <2>1
\* The powers of Y, times R * R * R; and what the error of the square is multiplied by.
<1>3. PICK C0 \in Nat, C1 \in Nat, C2 \in Nat, C3 \in Nat, H \in Nat, L \in Nat :
        /\ C0 = R * R * R /\ C1 = R * R * R * Y /\ C2 = R * R * R * Y * Y
        /\ C3 = (R * Y) * (R * Y) * (R * Y) /\ H = 3 * R * R * Y + R * x /\ L = R * R
  <2>1. /\ R * R * R \in Nat /\ R * R * R * Y \in Nat /\ R * R * R * Y * Y \in Nat
        /\ (R * Y) * (R * Y) * (R * Y) \in Nat /\ R * R \in Nat
    OBVIOUS
  <2>2. 3 * R * R * Y \in Nat /\ R * x \in Nat
    OBVIOUS
  <2>3. 3 * R * R * Y + R * x \in Nat
    BY <2>2
  <2> QED BY <2>1, <2>3
<1>4. C2 - C3 <= C2 * a /\ C2 * a <= 0 /\ C2 * a \in Int
  <2>1. C2 * (1 - Y) <= C2 * a /\ C2 * a <= C2 * 0 /\ C2 * a \in Int
    BY <1>2, Scaled
  <2>2. C2 * (1 - Y) = C2 - C3 /\ C2 * 0 = 0
    BY <1>3
  <2> QED BY <2>1, <2>2
<1>5. C1 - C3 <= C1 * b /\ C1 * b <= 0 /\ C1 * b \in Int
  <2>1. 1 - Y * Y \in Int /\ 1 - Y * Y <= b /\ b <= 0
    BY <1>2
  <2>2. C1 * (1 - Y * Y) <= C1 * b /\ C1 * b <= C1 * 0 /\ C1 * b \in Int
    BY <2>1, Scaled
  <2>3. C1 * (1 - Y * Y) = C1 - C3 /\ C1 * 0 = 0
    BY <1>3
  <2> QED BY <2>2, <2>3
<1>6. C0 - C3 <= C0 * d /\ C0 * d <= 0 /\ C0 * d \in Int
  <2>1. 1 - Y * Y * Y \in Int /\ 1 - Y * Y * Y <= d /\ d <= 0
    BY <1>2
  <2>2. C0 * (1 - Y * Y * Y) <= C0 * d /\ C0 * d <= C0 * 0 /\ C0 * d \in Int
    BY <2>1, Scaled
  <2>3. C0 * (1 - Y * Y * Y) = C0 - C3 /\ C0 * 0 = 0
    BY <1>3
  <2> QED BY <2>2, <2>3
<1>7. -(4 * C1) <= 2 * (H * e) /\ 2 * (H * e) <= 4 * C1 /\ H * e \in Int
  <2>1. -R \in Int /\ 2 * e \in Int /\ -R <= 2 * e /\ 2 * e <= R
    BY <1>2
  <2>2. H * (-R) <= H * (2 * e) /\ H * (2 * e) <= H * R /\ H * e \in Int
    BY <2>1, Scaled
  <2>3. H * (-R) = -(H * R) /\ H * (2 * e) = 2 * (H * e) /\ H * R \in Nat
    OBVIOUS
  <2>4. H * R <= 4 * C1
    <3>1. H * R = 3 * C1 + L * x
      BY <1>3
    <3>2. R * Y \in Int /\ L * x \in Int /\ L * x <= L * (R * Y)
      <4>1. R * Y \in Int
        OBVIOUS
      <4> QED BY <4>1, Scaled
    <3>3. L * (R * Y) = C1
      BY <1>3
    <3> QED BY <3>1, <3>2, <3>3
  <2> QED BY <2>2, <2>3, <2>4
<1>8. -C0 <= 2 * (L * g) /\ 2 * (L * g) <= C0 /\ L * g \in Int
  <2>1. -R \in Int /\ 2 * g \in Int /\ -R <= 2 * g /\ 2 * g <= R
    BY <1>2
  <2>2. L * (-R) <= L * (2 * g) /\ L * (2 * g) <= L * R /\ L * g \in Int
    BY <2>1, Scaled
  <2>3. L * (-R) = -C0 /\ L * (2 * g) = 2 * (L * g) /\ L * R = C0
    BY <1>3
  <2> QED BY <2>2, <2>3
<1>9. 4 * C1 + C0 <= 2 * C3 /\ C1 <= C2
  <2>1. PICK k \in Nat : Y = 2 + k
    <3>1. Y - 2 \in Nat /\ Y = 2 + (Y - 2)
      OBVIOUS
    <3> QED BY <3>1
  <2>2. /\ C1 = 2 * C0 + C0 * k
        /\ C2 = C1 + C0 * (2 + 3 * k + k * k)
        /\ C3 = 8 * C0 + C0 * (12 * k + 6 * k * k + k * k * k)
    BY <1>3, <2>1
  <2>3. /\ C0 * (2 + 3 * k + k * k) \in Nat /\ C0 * k \in Nat
        /\ C0 * (12 * k + 6 * k * k + k * k * k) = 12 * (C0 * k) + C0 * (6 * k * k + k * k * k)
        /\ C0 * (6 * k * k + k * k * k) \in Nat
    OBVIOUS
  <2> QED BY <2>2, <2>3
<1>10. PICK D \in Int : D = (R + q + r + t) * ((R * Y) * (R * Y) * (R * Y))
                            - R * ((R * Y + x) * (R * Y + x) * (R * Y + x))
  <2>1. (R + q + r + t) * ((R * Y) * (R * Y) * (R * Y))
          - R * ((R * Y + x) * (R * Y + x) * (R * Y + x)) \in Int
    OBVIOUS
  <2> QED BY <2>1
<1>11. D = C2 * a + C1 * b + C0 * d + H * e + L * g
  BY <1>1, <1>2, <1>3, <1>10
<1>12. D <= C3 /\ -D <= 3 * C3
  BY <1>4, <1>5, <1>6, <1>7, <1>8, <1>9, <1>11
<1> QED BY <1>3, <1>10, <1>12

\* The two products of CalculateCompoundedInterest, and its value after n periods.
CompoundedAs(x, s, c, R, Y) ==
    /\ 2 * (R * s - x * x) <= R /\ 2 * (R * s - x * x) >= -R
    /\ 2 * (R * c - s * x) <= R /\ 2 * (R * c - s * x) >= -R
    /\ CalculateCompoundedInterest(x, 0) = R
    /\ CalculateCompoundedInterest(x, 1) = R + x \div Y
    /\ CalculateCompoundedInterest(x, 2) = R + (2 * x) \div Y + ((s * 2) \div (Y * Y)) \div 2
    /\ CalculateCompoundedInterest(x, 3)
         = R + (3 * x) \div Y + (((3 * s) * 2) \div (Y * Y)) \div 2
           + ((c * 6) \div (Y * Y * Y)) \div 6

LEMMA Compounded ==
    ASSUME NEW x \in Nat
    PROVE  \E s, c \in Nat : CompoundedAs(x, s, c, RAY, SECONDS_PER_YEAR)
<1>1. PICK s \in Nat : s = RayMul(x, x)
  BY RayMulError
<1>2. PICK c \in Nat : c = RayMul(s, x)
  BY RayMulError
<1>3. 2 * (RAY * s - x * x) <= RAY /\ 2 * (RAY * s - x * x) >= -RAY
  BY <1>1, RayMulError
<1>4. 2 * (RAY * c - s * x) <= RAY /\ 2 * (RAY * c - s * x) >= -RAY
  BY <1>2, RayMulError
<1>5. CalculateCompoundedInterest(x, 0) = RAY
  BY DEF CalculateCompoundedInterest
<1>6. PICK Y \in Nat \ {0} : Y = SECONDS_PER_YEAR
  BY WadRayAssumption
<1>7. /\ CalculateCompoundedInterest(x, 1) = RAY + x \div Y
      /\ CalculateCompoundedInterest(x, 2)
           = RAY + (2 * x) \div Y + ((s * 2) \div (Y * Y)) \div 2
      /\ CalculateCompoundedInterest(x, 3)
           = RAY + (3 * x) \div Y + (((3 * s) * 2) \div (Y * Y)) \div 2
             + ((c * 6) \div (Y * Y * Y)) \div 6
  <2>1. PICK U \in Nat \ {0}, V \in Nat \ {0} : U = Y * Y /\ V = Y * Y * Y
    <3>1. \A a, b \in Nat \ {0} : a * b \in Nat \ {0}
      OBVIOUS
    <3>2. Y * Y \in Nat \ {0} /\ (Y * Y) * Y \in Nat \ {0}
      BY <3>1
    <3> QED BY <3>2
  <2>2. \A n \in 1..3 : CalculateCompoundedInterest(x, n)
           = RAY + (x * n) \div Y + ((s * (n * (n - 1))) \div U) \div 2
             + ((c * (n * (n - 1)) * (n - 2)) \div V) \div 6
    BY <1>1, <1>2, <1>6, <2>1 DEF CalculateCompoundedInterest
  <2>3. /\ s * (1 * (1 - 1)) = 0 /\ c * (1 * (1 - 1)) * (1 - 2) = 0 /\ x * 1 = x
        /\ s * (2 * (2 - 1)) = s * 2 /\ c * (2 * (2 - 1)) * (2 - 2) = 0 /\ x * 2 = 2 * x
        /\ s * (3 * (3 - 1)) = (3 * s) * 2 /\ c * (3 * (3 - 1)) * (3 - 2) = c * 6 /\ x * 3 = 3 * x
    OBVIOUS
  <2>4. (0 \div U) \div 2 = 0 /\ (0 \div V) \div 6 = 0
    <3>1. 0 \div U = 0 /\ 0 \div V = 0
      OBVIOUS
    <3> QED BY <3>1
  <2>5. /\ x \div Y \in Nat /\ (2 * x) \div Y \in Nat /\ ((s * 2) \div U) \div 2 \in Nat
        /\ RAY \in Nat
    <3>1. (s * 2) \div U \in Nat
      OBVIOUS
    <3> QED BY <3>1, RayPositive
  <2>6. CalculateCompoundedInterest(x, 1) = RAY + x \div Y + 0 + 0
    <3>1. 1 \in 1..3
      OBVIOUS
    <3> QED BY <2>2, <2>3, <2>4, <3>1
  <2>7. CalculateCompoundedInterest(x, 2) = RAY + (2 * x) \div Y + ((s * 2) \div U) \div 2 + 0
    <3>1. 2 \in 1..3
      OBVIOUS
    <3> QED BY <2>2, <2>3, <2>4, <3>1
  <2>8. CalculateCompoundedInterest(x, 3)
          = RAY + (3 * x) \div Y + (((3 * s) * 2) \div U) \div 2 + ((c * 6) \div V) \div 6
    <3>1. 3 \in 1..3
      OBVIOUS
    <3> QED BY <2>2, <2>3, <3>1
  <2> QED BY <2>1, <2>5, <2>6, <2>7, <2>8
<1>8. CompoundedAs(x, s, c, RAY, SECONDS_PER_YEAR)
  BY <1>3, <1>4, <1>5, <1>6, <1>7 DEF CompoundedAs
<1> QED BY <1>8

LEMMA CompoundedNearPower ==
    ASSUME SECONDS_PER_YEAR >= 2, NEW x \in Nat, x <= RAY * SECONDS_PER_YEAR, NEW n \in 0..3
    PROVE  LET base == RAY * SECONDS_PER_YEAR
               diff == CalculateCompoundedInterest(x, n) * Power(base, n) - RAY * Power(base + x, n)
           IN diff <= Power(base, n) /\ -diff <= 3 * Power(base, n)
<1>1. PICK R \in Nat \ {0}, Y \in Nat \ {0} : R = RAY /\ Y = SECONDS_PER_YEAR /\ Y >= 2 /\ x <= R * Y
  BY RayPositive, WadRayAssumption
<1>2. PICK s \in Nat, c \in Nat : CompoundedAs(x, s, c, R, Y)
  BY <1>1, Compounded
<1>3. PICK b \in Nat : b = R * Y
  <2>1. R * Y \in Nat
    OBVIOUS
  <2> QED BY <2>1
<1>4. Y * Y \in Nat \ {0} /\ Y * Y * Y \in Nat \ {0}
  <2>1. \A i, j \in Nat \ {0} : i * j \in Nat \ {0}
    OBVIOUS
  <2> QED BY <2>1
<1>5. \A y \in Nat : /\ Power(y, 0) = 1 /\ Power(y, 1) = y
                     /\ Power(y, 2) = y * y /\ Power(y, 3) = y * y * y
  BY DEF Power
<1>6. b + x \in Nat
  OBVIOUS
<1>7. CASE n = 0
  <2>1. CalculateCompoundedInterest(x, n) = R /\ Power(b, n) = 1 /\ Power(b + x, n) = 1
    BY <1>2, <1>5, <1>6, <1>7 DEF CompoundedAs
  <2> QED BY <1>1, <1>3, <2>1
<1>8. CASE n = 1
  <2>1. PICK q \in Nat : q = x \div Y /\ Y * q - x <= 0 /\ Y * q - x >= 1 - Y
    BY FlooredOnce
  <2>2. (R + q) * b - R * (b + x) <= b /\ -((R + q) * b - R * (b + x)) <= 3 * b
    BY <1>3, <2>1, OnePeriod
  <2>3. CalculateCompoundedInterest(x, n) = R + q /\ Power(b, n) = b /\ Power(b + x, n) = b + x
    BY <1>2, <1>5, <1>6, <1>8, <2>1 DEF CompoundedAs
  <2> QED BY <1>1, <1>3, <2>2, <2>3
<1>9. CASE n = 2
  <2>1. PICK q \in Nat : q = (2 * x) \div Y /\ Y * q - 2 * x <= 0 /\ Y * q - 2 * x >= 1 - Y
    <3>1. PICK a \in Nat : a = 2 * x
      OBVIOUS
    <3>2. a \div Y \in Nat /\ Y * (a \div Y) - a <= 0 /\ Y * (a \div Y) - a >= 1 - Y
      BY FlooredOnce
    <3> QED BY <3>1, <3>2
  <2>2. PICK r \in Nat : /\ r = ((s * 2) \div (Y * Y)) \div 2
                         /\ (Y * Y) * r - s <= 0 /\ (Y * Y) * r - s >= 1 - Y * Y
    BY <1>4, FlooredTwice
  <2>3. /\ (R + q + r) * (b * b) - R * ((b + x) * (b + x)) <= b * b
        /\ -((R + q + r) * (b * b) - R * ((b + x) * (b + x))) <= 3 * (b * b)
    BY <1>2, <1>3, <2>1, <2>2, TwoPeriods DEF CompoundedAs
  <2>4. /\ CalculateCompoundedInterest(x, n) = R + q + r
        /\ Power(b, n) = b * b /\ Power(b + x, n) = (b + x) * (b + x)
    BY <1>2, <1>5, <1>6, <1>9, <2>1, <2>2 DEF CompoundedAs
  <2> QED BY <1>1, <1>3, <2>3, <2>4
<1>10. CASE n = 3
  <2>1. PICK q \in Nat : q = (3 * x) \div Y /\ Y * q - 3 * x <= 0 /\ Y * q - 3 * x >= 1 - Y
    <3>1. PICK a \in Nat : a = 3 * x
      OBVIOUS
    <3>2. a \div Y \in Nat /\ Y * (a \div Y) - a <= 0 /\ Y * (a \div Y) - a >= 1 - Y
      BY FlooredOnce
    <3> QED BY <3>1, <3>2
  <2>2. PICK r \in Nat : /\ r = (((3 * s) * 2) \div (Y * Y)) \div 2
                         /\ (Y * Y) * r - 3 * s <= 0 /\ (Y * Y) * r - 3 * s >= 1 - Y * Y
    BY <1>4, FlooredTwice
  <2>3. PICK t \in Nat : /\ t = ((c * 6) \div (Y * Y * Y)) \div 6
                         /\ (Y * Y * Y) * t - c <= 0 /\ (Y * Y * Y) * t - c >= 1 - Y * Y * Y
    BY <1>4, FlooredTwice
  <2>4. /\ (R + q + r + t) * (b * b * b) - R * ((b + x) * (b + x) * (b + x)) <= b * b * b
        /\ -((R + q + r + t) * (b * b * b) - R * ((b + x) * (b + x) * (b + x))) <= 3 * (b * b * b)
    BY <1>1, <1>2, <1>3, <2>1, <2>2, <2>3, ThreePeriods DEF CompoundedAs
  <2>5. /\ CalculateCompoundedInterest(x, n) = R + q + r + t
        /\ Power(b, n) = b * b * b /\ Power(b + x, n) = (b + x) * (b + x) * (b + x)
    BY <1>2, <1>5, <1>6, <1>10, <2>1, <2>2, <2>3 DEF CompoundedAs
  <2> QED BY <1>1, <1>3, <2>4, <2>5
<1> QED BY <1>7, <1>8, <1>9, <1>10

\* CalculateCompoundedInterest is the power it expands, to a unit above and a unit for each
\* floored term below, in every model whose year has two periods or more and whose rates,
\* at the kink's far end, are at most RAY a period.
THEOREM CompoundingIsThePower ==
    ASSUME SECONDS_PER_YEAR >= 2, BaseRate + Slope1 + Slope2 <= RAY * SECONDS_PER_YEAR
    PROVE  RateSpec => []CompoundedMatchesPower
<1>1. RateRisesWithUse => CompoundedMatchesPower
  <2> SUFFICES ASSUME RateRisesWithUse, NEW m \in DOMAIN pools, NEW n \in 0..3
               PROVE  LET base == RAY * SECONDS_PER_YEAR
                          diff == CalculateCompoundedInterest(pools[m].borRate, n) * Power(base, n)
                                  - RAY * Power(base + pools[m].borRate, n)
                      IN diff <= Power(base, n) /\ -diff <= 3 * Power(base, n)
    BY DEF CompoundedMatchesPower
  <2>1. PICK x : x = pools[m].borRate
    OBVIOUS
  <2>2. x \in BaseRate..(BaseRate + Slope1 + Slope2)
    BY <2>1 DEF RateRisesWithUse
  <2>3. x \in Nat /\ x <= BaseRate + Slope1 + Slope2
    BY <2>2, RateAssumption
  <2>4. x <= RAY * SECONDS_PER_YEAR
    <3>1. PICK b \in Nat : b = RAY * SECONDS_PER_YEAR
      <4>1. RAY * SECONDS_PER_YEAR \in Nat
        BY RayPositive, WadRayAssumption
      <4> QED BY <4>1
    <3>2. PICK a \in Nat : a = BaseRate + Slope1 + Slope2
      <4>1. BaseRate + Slope1 + Slope2 \in Nat
        BY RateAssumption
      <4> QED BY <4>1
    <3> QED BY <2>3, <3>1, <3>2
  <2>5. LET base == RAY * SECONDS_PER_YEAR
            diff == CalculateCompoundedInterest(x, n) * Power(base, n) - RAY * Power(base + x, n)
        IN diff <= Power(base, n) /\ -diff <= 3 * Power(base, n)
    BY <2>3, <2>4, CompoundedNearPower
  <2> QED BY <2>1, <2>5
<1> QED BY <1>1, BorrowRateIsMonotone, PTL
=============================================================================
