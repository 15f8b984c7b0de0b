--------------------------- MODULE MCHealthFactor ---------------------------
(* Instances of RateComputer and HealthFactor for TLC: RAY is 60, a year four
   seconds, so that every interval earns interest and rounding shows. *)
EXTENDS HealthFactor

MCDelta == {<<6, 0>>, <<-6, 0>>, <<0, 4>>, <<-2, 6>>}
MCPriceUSD == [m \in Market |-> m + 1]
MCDecimalsFactor == [m \in Market |-> 2]
MCLiquidationThreshold == [m \in Market |-> 55 - 5 * m]
=============================================================================
