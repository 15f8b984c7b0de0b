---------------------------- MODULE MCRiskEngine ----------------------------
(* Instances of RiskEngine for TLC. *)
EXTENDS RiskEngine, TLC

\* Every rule has a type of its own.
OwnTypes == {{r} : r \in Rule}

\* Alerts are about the engine's events.
Events == RiskEvent

\* Callers are interchangeable, and so are users.
WorkerSymmetry == Permutations(Caller) \cup Permutations(Account)
=============================================================================
