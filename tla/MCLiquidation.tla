--------------------------- MODULE MCLiquidation ---------------------------
(* Instances of Liquidation for TLC.  Borrowers are interchangeable. *)
EXTENDS Liquidation, TLC

BorrowerSymmetry == Permutations(Borrower)

\* A side of a position is empty or holds one entry.
OneEntry == {<<>>, <<1>>}

\* Both sides always hold one entry.
FullEntry == {<<1>>}

\* A position of two debts, in either order.
TwoEntries == {<<1, 2>>, <<2, 1>>}
=============================================================================
