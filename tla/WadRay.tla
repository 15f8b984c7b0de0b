------------------------------- MODULE WadRay -------------------------------
(***************************************************************************)
(* internal/common/math/wadray.go: fixed-point arithmetic on big.Int.      *)
(* WAD, RAY = WAD * Factor and SECONDS_PER_YEAR are constants of the model *)
(* because 10^27 is past TLC's integers; the formulas do not depend on     *)
(* their size.  big.Int's Div and \div agree: both are floored for the     *)
(* positive divisors the code uses.                                        *)
(***************************************************************************)
EXTENDS Integers

CONSTANTS
    WAD,              \* 10^18 in the code
    Factor,           \* 10^9: RAY / WAD
    SECONDS_PER_YEAR  \* 365 * 24 * 3600

ASSUME WadRayAssumption ==
    WAD \in Nat \ {0} /\ Factor \in Nat \ {0} /\ SECONDS_PER_YEAR \in Nat \ {0}

RAY == WAD * Factor

\* (a * b + half of one) / one: a product of two numbers of scale one.
MulAt(one, a, b) == (a * b + one \div 2) \div one
\* (a * one + b/2) / b; a zero b panics, so no caller may pass one.
DivAt(one, a, b) == (a * one + b \div 2) \div b

WadMul(a, b) == MulAt(WAD, a, b)
WadDiv(a, b) == DivAt(WAD, a, b)
RayMul(a, b) == MulAt(RAY, a, b)
RayDiv(a, b) == DivAt(RAY, a, b)

WadToRay(a) == a * Factor
\* Rounds half up, though its comment says "truncates".
RayToWad(a) == (a + Factor \div 2) \div Factor

CalculateLinearInterest(rate, timeDelta) ==
    RAY + (rate * timeDelta) \div SECONDS_PER_YEAR

\* A mutation of CalculateCompoundedInterest: n * n pairs instead of n * (n - 1).
CompoundedAllPairs(rate, timeDelta) ==
    LET Year == SECONDS_PER_YEAR
        squared == RayMul(rate, rate)
    IN RAY + (rate * timeDelta) \div Year + ((squared * timeDelta * timeDelta) \div (Year * Year)) \div 2

\* Three terms of the binomial expansion of (1 + rate / year) ^ timeDelta.
CalculateCompoundedInterest(rate, timeDelta) ==
    LET Year == SECONDS_PER_YEAR
        squared == RayMul(rate, rate)
        cubed == RayMul(squared, rate)
        pairs == timeDelta * (timeDelta - 1)
    IN IF timeDelta = 0 THEN RAY
       ELSE RAY + (rate * timeDelta) \div Year
                + ((squared * pairs) \div (Year * Year)) \div 2
                + ((cubed * pairs * (timeDelta - 2)) \div (Year * Year * Year)) \div 6
=============================================================================
