---------------------------- MODULE MCPriceOracle ----------------------------
(* Instances of PriceOracle for TLC.  The first feed jumps by a half, goes
   negative and to zero, and has a heartbeat; the contract polled before it is
   broken for good. *)
EXTENDS PriceOracle

CONSTANTS f1, f2

MCFeed == <<f2, f1>>
MCAnswer == [f \in {f1, f2} |-> IF f = f1 THEN {-1, 0, 2, 3} ELSE {0}]
MCHeartbeatSec == [f \in {f1, f2} |-> IF f = f1 THEN 1 ELSE 0]
MCMaxAge == [f \in {f1, f2} |-> IF f = f1 THEN 3 ELSE 0]
MCDeviationPct == [f \in {f1, f2} |-> IF f = f1 THEN 40 ELSE 0]
=============================================================================
