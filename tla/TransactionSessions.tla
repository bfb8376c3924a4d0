------------------------- MODULE TransactionSessions -------------------------
(***************************************************************************)
(* The database sessions of the transaction service                        *)
(* (pkg/services/transactions.go): modify, delete and move read a row or a *)
(* balance without a lock and, later in the same database transaction,     *)
(* write what they computed from it.  MySQL and PostgreSQL let another     *)
(* transaction commit in between; SQLite refuses the one that read first.  *)
(*                                                                         *)
(* Ledger models what one session does to a row in full; here a row is its *)
(* account and amount, and an income.                                      *)
(***************************************************************************)
EXTENDS Integers, Sequences, FiniteSetsExt

CONSTANTS
    Account,
    Amount

VARIABLES
    rows,          \* Seq of rows: account, amount, live, of (who created it)
    balance,       \* [Account -> Int], kept by increments
    mixed          \* history: accounts booked by a session that others overtook

Ids == DOMAIN rows
Booked(a) == {t \in Ids : rows[t].live /\ rows[t].account = a}

\* Mutant: the old amount is taken from the new account.
RebookedInPlace(old, a, v) ==
    [x \in Account |-> balance[x] + (IF x = a THEN v - old.amount ELSE 0)]
\* updateAccountBalance, for the old amount and the new
Rebooked(old, a, v) ==
    [x \in Account |-> balance[x] - (IF x = old.account THEN old.amount ELSE 0) + (IF x = a THEN v ELSE 0)]

\* CreateTransaction: nothing that the session reads is computed with
Insert(a, v, of) ==
    /\ rows' = Append(rows, [account |-> a, amount |-> v, live |-> TRUE, of |-> of])
    /\ balance' = [balance EXCEPT ![a] = @ + v]
    /\ UNCHANGED mixed

Overtaken(t, read) == rows[t] # read
Mixes(stale, accounts) == mixed' = IF stale THEN mixed \cup accounts ELSE mixed

\* ModifyTransaction, from the row it read: the columns that differ from it are written,
\* where the row is not deleted
Update(t, read, a, v) ==
    /\ rows[t].live
    /\ rows' = [rows EXCEPT ![t].account = IF a # read.account THEN a ELSE @,
                            ![t].amount = IF v # read.amount THEN v ELSE @]
    /\ balance' = Rebooked(read, a, v)
    /\ Mixes(Overtaken(t, read), {read.account, a, rows[t].account})

\* DeleteTransaction
Remove(t, read) ==
    /\ rows[t].live
    /\ rows' = [rows EXCEPT ![t].live = FALSE]
    /\ balance' = [balance EXCEPT ![read.account] = @ - read.amount]
    /\ Mixes(Overtaken(t, read), {read.account, rows[t].account})

\* MoveAllTransactionsBetweenAccounts, from the balance it read: the one account gains it
\* and the other is set to 0, unless it was 0
MoveAll(from, to, read) ==
    /\ rows' = [t \in Ids |-> IF t \in Booked(from) THEN [rows[t] EXCEPT !.account = to] ELSE rows[t]]
    /\ balance' = IF read # 0 THEN [balance EXCEPT ![to] = @ + read, ![from] = 0] ELSE balance
    /\ Mixes(balance[from] # read \/ from \in mixed, {from, to})

\* The balances are kept by increments, so sessions on different rows, on one account, may
\* interleave at will (updateAccountBalance): a balance that is not the sum of the account's
\* rows was left by a session that another overtook on its own row, or by a move whose
\* account was booked after it read the balance.
OnlyOvertakenSessionsLoseMoney ==
    \A a \in Account \ mixed : balance[a] = SumFunctionOnSet([t \in Ids |-> rows[t].amount], Booked(a))
=============================================================================
