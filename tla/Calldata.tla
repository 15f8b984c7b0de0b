------------------------------ MODULE Calldata ------------------------------
(***************************************************************************)
(* The calldata account.BuildTransaction and                               *)
(* executor.BuildLiquidationCalldata put together with make and copy: a    *)
(* selector, then words of WordLen bytes, addresses and amounts at their   *)
(* right.  The lengths are constants (4, 32 and 20 in the code), so that   *)
(* small ones show every overlap.  An amount is its big-endian bytes,      *)
(* without leading zeros, as big.Int's Bytes gives them; the text of an    *)
(* address is the bytes it spells before the first character that is no    *)
(* hex digit, and whether there is such a character.                       *)
(***************************************************************************)
EXTENDS Integers, Sequences

CONSTANTS WordLen, AddressLen, SelectorLen

ASSUME CalldataAssumption ==
    SelectorLen \in Nat \ {0} /\ AddressLen \in Nat \ {0} /\ WordLen \in Nat /\ WordLen >= AddressLen

\* common.HexToAddress: decoding stops at what is no hex digit and the error is
\* dropped; of the bytes before it the last AddressLen count, zeros in front of fewer.
HexToAddress(text) ==
    [i \in 1..AddressLen |-> LET j == i + Len(text.bytes) - AddressLen
                             IN IF j >= 1 THEN text.bytes[j] ELSE 0]

\* make([]byte, SelectorLen + n * WordLen), with the selector in its place.
Blank(selector, n) == selector \o [i \in 1..(n * WordLen) |-> 0]

\* copy(data[from:to], bytes): as many bytes as fit, from place from + 1 on.
Copy(data, from, to, bytes) ==
    [i \in 1..Len(data) |-> IF i > from /\ i <= to /\ i - from <= Len(bytes)
                            THEN bytes[i - from] ELSE data[i]]

\* A mutation of PutAmount: the amount is at the left of its word.
PutAmountLeft(data, k, bytes) ==
    Copy(data, SelectorLen + (k - 1) * WordLen, SelectorLen + k * WordLen, bytes)

\* The k-th word: an address has a fixed length, an amount the length it has.  The
\* place of an amount that is longer than a word begins before the word.
PutAddress(data, k, address) ==
    Copy(data, SelectorLen + k * WordLen - AddressLen, SelectorLen + k * WordLen, address)
AmountStart(k, bytes) == SelectorLen + k * WordLen - Len(bytes)
PutAmount(data, k, bytes) == Copy(data, AmountStart(k, bytes), SelectorLen + k * WordLen, bytes)

\* BuildTransaction's asset and amount.
BuildTransaction(selector, asset, amount) ==
    PutAmount(PutAddress(Blank(selector, 2), 1, asset), 2, amount)

\* liquidationCall(collateral, debt, user, debtAmount, receiveAToken).
BuildLiquidationCalldata(selector, collateralAsset, debtAsset, borrower, debtAmount, receiveAToken) ==
    LET addresses == PutAddress(PutAddress(PutAddress(
                        Blank(selector, 5), 1, collateralAsset), 2, debtAsset), 3, borrower)
        data == PutAmount(addresses, 4, debtAmount)
    IN IF receiveAToken THEN [data EXCEPT ![SelectorLen + 5 * WordLen] = 1] ELSE data

\* A slice that begins before the array: the program panics.
Panics(k, bytes) == AmountStart(k, bytes) < 0
-----------------------------------------------------------------------------
\* How a contract reads the calldata back: the bytes of the k-th word.
ReadWord(data, k) == SubSeq(data, SelectorLen + (k - 1) * WordLen + 1, SelectorLen + k * WordLen)
PaddedWord(bytes) == [i \in 1..(WordLen - Len(bytes)) |-> 0] \o bytes
=============================================================================
