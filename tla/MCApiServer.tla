----------------------------- MODULE MCApiServer -----------------------------
(* Instances of ApiServer for TLC.  A word is three bytes, an address two, a
   selector one; the amounts are short of a word, a whole word, one byte more
   than a word, and longer than the calldata; the assets are an address and a
   text that is too long and ends in what is no hex digit. *)
EXTENDS ApiServer, TLC

CONSTANTS c1, c2, i1, a1

MCTTL == [k \in {"list", "detail"} |-> IF k = "list" THEN 2 ELSE 1]
MCAsset == {[malformed |-> FALSE, bytes |-> <<7, 8>>], [malformed |-> TRUE, bytes |-> <<9, 8, 7>>]}
MCAmount == {[negative |-> FALSE, bytes |-> b] :
               b \in {<<1, 2>>, <<1, 2, 3>>, <<1, 2, 3, 4>>, <<1, 2, 3, 4, 5, 6, 7, 8>>}}
MCSelector == [action \in {"deposit", "withdraw"} |-> IF action = "deposit" THEN <<5>> ELSE <<6>>]

\* Connections are interchangeable.
ApiSymmetry == Permutations(Conn)
=============================================================================
