------------------------------ MODULE MCLedger ------------------------------
(* Small instances of Ledger for TLC. *)
EXTENDS Ledger, TLC

CONSTANTS a1, a2, a3

OneCurrency == [a \in Account |-> "USD"]
ForeignThird == [a \in Account |-> IF a = a3 THEN "EUR" ELSE "USD"]
SignedAmounts == {-1, 0, 1}
TwoRows == 1 .. 2
ThreeRows == 1 .. 3
FourRows == 1 .. 4

AnyAccounts == Permutations(Account)
SameCurrency == Permutations({a1, a2})
=============================================================================
