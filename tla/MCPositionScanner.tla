-------------------------- MODULE MCPositionScanner --------------------------
(* Instances of PositionScanner for TLC.  Users are interchangeable. *)
EXTENDS PositionScanner, TLC

UserSymmetry == Permutations(User)
=============================================================================
