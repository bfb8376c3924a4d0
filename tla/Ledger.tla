------------------------------- MODULE Ledger -------------------------------
(***************************************************************************)
(* The double-entry core of pkg/services/transactions.go and               *)
(* pkg/services/accounts.go: the accounts of one user, the transaction     *)
(* rows posted to them, and the tag index rows that point at those rows.   *)
(* Every public operation of the two services runs in one database         *)
(* transaction (Database.DoTransaction), which a failing step rolls back,  *)
(* so here each operation is one action: its guard collects the code's     *)
(* error returns, and a refused call changes nothing.                      *)
(*                                                                         *)
(* A transaction time is unix second * 1000 + a slot in 0..999; here it is *)
(* the record [sec, slot] and Slots stands for the 1000.                   *)
(***************************************************************************)
EXTENDS Integers, FiniteSetsExt

CONSTANTS
    Account,      \* the account ids the user may ever open
    NoAccount,    \* the zero account id
    Currency,     \* [Account -> currency]; immutable after creation
    Tag,          \* the user's transaction tags
    RowId,        \* bound: the transaction ids there are to hand out (int64)
    Amount,       \* the amounts a request may carry
    Second,       \* the unix seconds a request may carry
    Slots,        \* transaction times per second (1000 in the code)
    MaxBalance,   \* math.MaxInt64
    MaxAmount,    \* models.MaximumTransactionAmount
    Hideable      \* bound: the accounts the operator hides

ASSUME LedgerAssumption ==
    /\ NoAccount \notin Account
    /\ RowId \subseteq Nat \ {0} /\ IsFiniteSet(RowId)
    /\ Amount \subseteq -MaxBalance - 1 .. MaxBalance
    /\ Second \subseteq Nat
    /\ Slots \in Nat /\ Slots > 2
    /\ MaxBalance \in Nat
    /\ MaxAmount \in Nat

VARIABLES
    status,       \* [Account -> "absent" | "open" | "deleted"]
    hidden,       \* [Account -> BOOLEAN]
    balance,      \* [Account -> Int]: the stored column account.balance
    rows,         \* [RowId -> Row]: the table transaction, soft-deleted rows included
    tagIndex      \* the rows of transaction_tag_index that are not deleted

vars == <<status, hidden, balance, rows, tagIndex>>

-----------------------------------------------------------------------------
(* Data *)

Time == [sec : Nat, slot : 0 .. Slots - 1]
TransferType == {"transferOut", "transferIn"}
EntryType == {"income", "expense"}
RowType == {"none", "modifyBalance"} \cup EntryType \cup TransferType

Row == [state : {"unused", "live", "deleted"}, type : RowType,
        account : Account \cup {NoAccount}, amount : Int, relId : Nat,
        relAccount : Account \cup {NoAccount}, relAmount : Int, time : Time]

FirstSlot(s) == [sec |-> s, slot |-> 0]

Unused == [state |-> "unused", type |-> "none", account |-> NoAccount, amount |-> 0,
           relId |-> 0, relAccount |-> NoAccount, relAmount |-> 0, time |-> FirstSlot(0)]

Posting(type, a, x, relId, b, y, t) ==
    [state |-> "live", type |-> type, account |-> a, amount |-> x,
     relId |-> relId, relAccount |-> b, relAmount |-> y, time |-> t]

\* the columns a later UPDATE writes
Deleted(r) == [r EXCEPT !.state = "deleted"]
Dated(r, t) == [r EXCEPT !.time = t]
Priced(r, x, y) == [r EXCEPT !.amount = x, !.relAmount = y]

\* the two halves of a transfer from a to b: the other half mirrors the row written
\* for the request; mutant HalvesAtRequest dates it like that row, and mutant
\* HalvesOfOneAmount gives both the amount that was sent
HalvesAtRequest(rs, i, j, a, x, b, y, t, u) ==
    [rs EXCEPT ![i] = Posting("transferOut", a, x, j, b, y, t),
               ![j] = Posting("transferIn", b, y, i, a, x, FirstSlot(u.sec))]
HalvesOfOneAmount(rs, i, j, a, x, b, y, t, u) ==
    [rs EXCEPT ![i] = Posting("transferOut", a, x, j, b, y, t),
               ![j] = Posting("transferIn", b, x, i, a, x, u)]
Halves(rs, i, j, a, x, b, y, t, u) ==
    [rs EXCEPT ![i] = Posting("transferOut", a, x, j, b, y, t),
               ![j] = Posting("transferIn", b, y, i, a, x, u)]

Earlier(t, u) == t.sec < u.sec \/ (t.sec = u.sec /\ t.slot < u.slot)

\* transaction_time + 1: slot 999 carries into the next second
Tick(t) == IF t.slot = Slots - 1 THEN FirstSlot(t.sec + 1) ELSE [sec |-> t.sec, slot |-> t.slot + 1]

Live(i) == rows[i].state = "live"
LiveOn(a) == {i \in RowId : Live(i) /\ rows[i].account = a}
Openings(A) == {i \in RowId : Live(i) /\ rows[i].type = "modifyBalance" /\ rows[i].account \in A}
Usable(a) == status[a] = "open" /\ ~hidden[a]

-----------------------------------------------------------------------------
(* Transaction times: UNIQUE(uid, transaction_time) counts deleted rows.   *)

\* Mutant: an index of the live rows only.
TakenByLive(rs) == {rs[i].time : i \in {j \in RowId : rs[j].state = "live"}}
Taken(rs) == {rs[i].time : i \in {j \in RowId : rs[j].state # "unused"}}

\* the latest taken time of second s, as a set of at most one
Latest(rs, s) == {t \in Taken(rs) : t.sec = s /\ \A u \in Taken(rs) : u.sec = s => u.slot <= t.slot}

\* latest + 1, refused (ErrTooMuchTransactionInOneSecond) when the latest slot is 998
AfterLatest(rs, s) == {Tick(t) : t \in {u \in Latest(rs, s) : u.slot # Slots - 2}}

\* doCreateTransaction: slot 0, or latest + 1 when the insert hits the unique index
CreatedAt(s) ==
    IF FirstSlot(s) \notin Taken(rows) THEN {FirstSlot(s)} ELSE AfterLatest(rows, s) \ Taken(rows)

\* ModifyTransaction and MoveAll...: latest + 1 below slot 998, refused at 998,
\* and slot 0 when the second is empty or its slot 999 is taken
MovedTo(s) ==
    (IF \E t \in Latest(rows, s) : t.slot # Slots - 1 THEN AfterLatest(rows, s) ELSE {FirstSlot(s)})
        \ Taken(rows)

\* transaction ids grow with time: the next id is the least one never used
Fresh(i) == rows[i].state = "unused" /\ \A j \in RowId : j < i => rows[j].state # "unused"
FreshPair(i, j) == Fresh(i) /\ j = i + 1 /\ rows[j].state = "unused"

-----------------------------------------------------------------------------
(* Account balances: UPDATE account SET balance = balance + delta, refused *)
(* (ErrAccountBalanceOverflow) when the sum leaves int64; delta 0 is none.  *)

Update(a, d) == [account |-> a, delta |-> d]
NoUpdate == Update(NoAccount, 0)

\* Mutant: no overflow check.
CanAlways(bal, u) == TRUE
CanApply(bal, u) == u.delta # 0 => bal[u.account] + u.delta \in -MaxBalance - 1 .. MaxBalance
Applied(bal, u) == IF u.delta = 0 THEN bal ELSE [bal EXCEPT ![u.account] = @ + u.delta]

\* up to four updates, in the code's order
UpdateBalances(u1, u2, u3, u4) ==
    LET b1 == Applied(balance, u1)
        b2 == Applied(b1, u2)
        b3 == Applied(b2, u3)
    IN  /\ CanApply(balance, u1) /\ CanApply(b1, u2) /\ CanApply(b2, u3) /\ CanApply(b3, u4)
        /\ balance' = Applied(b3, u4)

\* what a row of this type and amount does to its own account
Signed(type, x) == IF type \in {"income", "transferIn"} THEN x ELSE -x
Effect(r) == IF r.type = "modifyBalance" THEN r.relAmount ELSE Signed(r.type, r.amount)

-----------------------------------------------------------------------------
(* Tag indexes *)

TagsOf(i) == {e.tag : e \in {f \in tagIndex : f.row = i}}
Indexes(i, T, t) == {[row |-> i, tag |-> g, time |-> t] : g \in T}

\* Mutant: an unchanged tag list keeps the old second.
RetaggedInPlace(i, T, t, moved) ==
    {e \in tagIndex : e.row # i} \cup
    IF T # TagsOf(i) THEN Indexes(i, T, t) ELSE {e \in tagIndex : e.row = i}

\* ModifyTransaction: a changed tag list is removed and inserted again at the
\* time t the request ended with; an unchanged one follows only a changed second
Retagged(i, T, t, moved) ==
    {e \in tagIndex : e.row # i} \cup
    IF T # TagsOf(i) \/ moved THEN Indexes(i, T, t) ELSE {e \in tagIndex : e.row = i}

-----------------------------------------------------------------------------
(* Creating transactions *)

\* a live balance modification of one of the accounts A at or after t
OpeningAtOrAfter(A, t) == \E i \in Openings(A) : ~Earlier(rows[i].time, t)

CreateEntry(type, a, x, s, T) ==
    /\ Usable(a)
    /\ ~OpeningAtOrAfter({a}, FirstSlot(s))
    /\ \E i \in RowId, t \in CreatedAt(s) :
         /\ Fresh(i)
         /\ rows' = [rows EXCEPT ![i] = Posting(type, a, x, 0, NoAccount, 0, t)]
         /\ tagIndex' = tagIndex \cup Indexes(i, T, t)
    /\ UpdateBalances(Update(a, Signed(type, x)), NoUpdate, NoUpdate, NoUpdate)
    /\ UNCHANGED <<status, hidden>>

TransferAllowed(a, x, b, y) ==
    /\ a # b /\ Usable(a) /\ Usable(b)
    /\ Currency[a] = Currency[b] => x = y
    /\ x >= 0 /\ y >= 0

CreateTransfer(a, x, b, y, s, T) ==
    /\ TransferAllowed(a, x, b, y)
    /\ ~OpeningAtOrAfter({a, b}, FirstSlot(s))
    /\ \E i, j \in RowId, t \in CreatedAt(s) :
         /\ FreshPair(i, j)
         /\ Tick(t).sec = t.sec /\ Tick(t) \notin Taken(rows)
         /\ rows' = Halves(rows, i, j, a, x, b, y, t, Tick(t))
         /\ tagIndex' = tagIndex \cup Indexes(i, T, t)
    /\ UpdateBalances(Update(a, -x), Update(b, y), NoUpdate, NoUpdate)
    /\ UNCHANGED <<status, hidden>>

\* the first row of an account: x is the balance it shall have
CreateBalanceModification(a, x, s, T) ==
    LET delta == x - balance[a]
    IN  /\ Usable(a)
        /\ LiveOn(a) = {}
        /\ delta \in -MaxBalance - 1 .. MaxBalance
        /\ \E i \in RowId, t \in CreatedAt(s) :
             /\ Fresh(i)
             /\ rows' = [rows EXCEPT ![i] = Posting("modifyBalance", a, x, 0, a, delta, t)]
             /\ tagIndex' = tagIndex \cup Indexes(i, T, t)
        /\ UpdateBalances(Update(a, delta), NoUpdate, NoUpdate, NoUpdate)
        /\ UNCHANGED <<status, hidden>>

-----------------------------------------------------------------------------
(* Modifying transactions *)

\* Mutant: the receiving account of a transfer may be hidden.
ModifiableBySender(i, types) ==
    /\ Live(i) /\ rows[i].type \in types
    /\ Usable(rows[i].account)
    /\ rows[i].type = "transferOut" => Live(rows[i].relId)

\* a row the caller may change: not the receiving half of a transfer, and none
\* of its accounts hidden; the other half is always rewritten with it
Modifiable(i, types) ==
    /\ Live(i) /\ rows[i].type \in types
    /\ Usable(rows[i].account)
    /\ rows[i].type = "transferOut" => Usable(rows[i].relAccount) /\ Live(rows[i].relId)

\* a row keeps its time unless the request names another second
NewTime(i, s) == IF rows[i].time.sec = s THEN {rows[i].time} ELSE MovedTo(s)

\* the time the request carries at the end: that of the new second, or slot 0 of the old one
CheckedTime(i, s, t) == IF rows[i].time.sec = s THEN FirstSlot(s) ELSE t

\* the row's old effect on its own account is taken back and its new effect e posted to a
\* (mutant OldSourceAsIncome: as if it had always been an income)
OldSourceAsIncome(i, a, e) ==
    Update(rows[i].account, (IF a = rows[i].account THEN e ELSE 0) - rows[i].amount)
OldSource(i, a, e) ==
    Update(rows[i].account, (IF a = rows[i].account THEN e ELSE 0) - Effect(rows[i]))
NewSource(i, a, e) == IF a = rows[i].account THEN NoUpdate ELSE Update(a, e)

\* likewise for the receiving account of a transfer and the new receiving account b
\* (mutant OldDestinationAsSent: it is taken what was sent, in the other currency)
OldDestinationAsSent(i, b, y) ==
    IF rows[i].type = "transferOut"
    THEN Update(rows[i].relAccount, (IF b = rows[i].relAccount THEN y ELSE 0) - rows[i].amount)
    ELSE NoUpdate
OldDestination(i, b, y) ==
    IF rows[i].type = "transferOut"
    THEN Update(rows[i].relAccount, (IF b = rows[i].relAccount THEN y ELSE 0) - rows[i].relAmount)
    ELSE NoUpdate
NewDestination(i, b, y) == IF b = rows[i].relAccount THEN NoUpdate ELSE Update(b, y)

\* account and second stay; the balance moves by as much as the amount
ModifyBalanceModification(i, x, T) ==
    LET delta == x - rows[i].amount
    IN  /\ Modifiable(i, {"modifyBalance"})
        /\ rows' = [rows EXCEPT ![i] = Priced(@, x, @.relAmount + delta)]
        /\ tagIndex' = Retagged(i, T, FirstSlot(rows[i].time.sec), FALSE)
        /\ UpdateBalances(Update(rows[i].account, delta), NoUpdate, NoUpdate, NoUpdate)
        /\ UNCHANGED <<status, hidden>>

\* an income or expense of account a; a transfer that becomes one loses its other half
ModifyToEntry(i, type, a, x, s, T) ==
    LET r == rows[i]
    IN  /\ Modifiable(i, EntryType \cup {"transferOut"})
        /\ Usable(a)
        /\ \E t \in NewTime(i, s) :
             /\ ~OpeningAtOrAfter({a}, CheckedTime(i, s, t))
             /\ rows' = [j \in RowId |->
                    IF j = i THEN Posting(type, a, x, r.relId, NoAccount, 0, t)
                    ELSE IF r.type = "transferOut" /\ j = r.relId THEN Deleted(rows[j])
                    ELSE rows[j]]
             /\ tagIndex' = Retagged(i, T, CheckedTime(i, s, t), s # r.time.sec)
        /\ UpdateBalances(OldSource(i, a, Signed(type, x)), NewSource(i, a, Signed(type, x)),
                          OldDestination(i, NoAccount, 0), NewDestination(i, NoAccount, 0))
        /\ UNCHANGED <<status, hidden>>

\* the receiving half j of a new transfer goes after everything in the row's second
ModifyEntryToTransfer(i, a, x, b, y, s, T) ==
    /\ Modifiable(i, EntryType)
    /\ TransferAllowed(a, x, b, y)
    /\ \E j \in RowId, t \in NewTime(i, s) :
         /\ Fresh(j)
         /\ ~OpeningAtOrAfter({a, b}, CheckedTime(i, s, t))
         /\ LET updated == [rows EXCEPT ![i] = Dated(@, t)]
            IN  \E u \in AfterLatest(updated, s) \ Taken(updated) :
                   rows' = Halves(rows, i, j, a, x, b, y, t, u)
         /\ tagIndex' = Retagged(i, T, CheckedTime(i, s, t), s # rows[i].time.sec)
    /\ UpdateBalances(OldSource(i, a, -x), NewSource(i, a, -x),
                      OldDestination(i, b, y), NewDestination(i, b, y))
    /\ UNCHANGED <<status, hidden>>

\* both halves are rewritten, the columns of one mirrored into the other
ModifyTransfer(i, a, x, b, y, s, T) ==
    LET r == rows[i]
        moved == s # r.time.sec
    IN  /\ Modifiable(i, {"transferOut"})
        /\ TransferAllowed(a, x, b, y)
        /\ \E t \in NewTime(i, s) :
             LET u == IF moved THEN Tick(t) ELSE rows[r.relId].time
             IN  /\ ~OpeningAtOrAfter({a, b}, CheckedTime(i, s, t))
                 /\ moved => u.sec = s /\ \A k \in RowId \ {r.relId} : rows[k].state # "unused" => rows[k].time # u
                 /\ rows' = Halves(rows, i, r.relId, a, x, b, y, t, u)
                 /\ tagIndex' = Retagged(i, T, CheckedTime(i, s, t), moved)
        /\ UpdateBalances(OldSource(i, a, -x), NewSource(i, a, -x),
                          OldDestination(i, b, y), NewDestination(i, b, y))
        /\ UNCHANGED <<status, hidden>>

-----------------------------------------------------------------------------
(* Deleting transactions *)

DeleteTransaction(i) ==
    LET r == rows[i]
        gone == IF r.type = "transferOut" THEN {i, r.relId} ELSE {i}
    IN  /\ Modifiable(i, RowType \ {"transferIn"})
        /\ rows' = [j \in RowId |-> IF j \in gone THEN Deleted(rows[j]) ELSE rows[j]]
        /\ tagIndex' = {e \in tagIndex : e.row # i}
        /\ UpdateBalances(Update(r.account, -Effect(r)), OldDestination(i, NoAccount, 0), NoUpdate, NoUpdate)
        /\ UNCHANGED <<status, hidden>>

\* clear the user's data, with or without the accounts
DeleteAllTransactions(alsoAccounts) ==
    /\ rows' = [i \in RowId |-> IF Live(i) THEN Deleted(rows[i]) ELSE rows[i]]
    /\ tagIndex' = {}
    /\ balance' = [a \in Account |-> IF status[a] = "open" THEN 0 ELSE balance[a]]
    /\ status' = [a \in Account |-> IF alsoAccounts /\ status[a] = "open" THEN "deleted" ELSE status[a]]
    /\ UNCHANGED hidden

-----------------------------------------------------------------------------
(* Accounts *)

\* a starting balance x other than 0 is written down as a balance modification
CreateAccount(a, x, s) ==
    /\ status[a] = "absent"
    /\ status' = [status EXCEPT ![a] = "open"]
    /\ balance' = [balance EXCEPT ![a] = x]
    /\ IF x = 0 THEN UNCHANGED rows
       ELSE \E i \in RowId, t \in CreatedAt(s) :
              Fresh(i) /\ rows' = [rows EXCEPT ![i] = Posting("modifyBalance", a, x, 0, a, x, t)]
    /\ UNCHANGED <<hidden, tagIndex>>

HideAccount(a, h) ==
    /\ status[a] = "open" /\ a \in Hideable
    /\ hidden' = [hidden EXCEPT ![a] = h]
    /\ UNCHANGED <<status, balance, rows, tagIndex>>

\* nothing is posted to the account but its opening balance
\* (mutant OnlyOneRow: but one row of any type)
OnlyOneRow(a) == \A i, j \in LiveOn(a) : i = j
OnlyOpening(a) == LiveOn(a) = Openings({a}) /\ \A i, j \in LiveOn(a) : i = j

\* the opening balance goes with the account; its tag index is not touched
DeleteAccount(a) ==
    /\ status[a] = "open"
    /\ OnlyOpening(a)
    /\ rows' = [i \in RowId |-> IF i \in LiveOn(a) THEN Deleted(rows[i]) ELSE rows[i]]
    /\ status' = [status EXCEPT ![a] = "deleted"]
    /\ balance' = [balance EXCEPT ![a] = 0]
    /\ UNCHANGED <<hidden, tagIndex>>

-----------------------------------------------------------------------------
(* Moving every transaction of one account to another *)

Earliest(a) == {i \in LiveOn(a) : \A j \in LiveOn(a) : ~Earlier(rows[j].time, rows[i].time)}

\* the second before s; a time before 1970 becomes time 0
SecondBefore(s) == IF s = 0 THEN {FirstSlot(0)} \ Taken(rows) ELSE MovedTo(s - 1)

AmountInRange(x) == -MaxAmount < x /\ x < MaxAmount

\* Mutant: the stored difference is not merged.
MergeOpeningAmounts(e, l) == 
    {[rows EXCEPT ![e] = Priced(@, @.amount + rows[l].amount, @.relAmount), ![l] = Deleted(@)]}

\* the two opening balances e and l become e, the earlier of them
MergeOpenings(e, l) ==
    LET x == rows[e].amount + rows[l].amount
        y == rows[e].relAmount + rows[l].relAmount
    IN  IF AmountInRange(x) /\ AmountInRange(y)
        THEN {[rows EXCEPT ![e] = Priced(@, x, y), ![l] = Deleted(@)]}
        ELSE {}

\* Mutant: a lone opening balance stays where it is.
KeepOpening(o, other) == {rows}

\* the only opening balance o is dated before the first row of the other account
MoveOpening(o, other) ==
    IF \E j \in LiveOn(other) : Earlier(rows[j].time, rows[o].time)
    THEN {[rows EXCEPT ![o] = Dated(@, t)] : t \in UNION {SecondBefore(rows[j].time.sec) : j \in Earliest(other)}}
    ELSE {rows}

\* the tables the opening balances can be settled into: none when the call is refused
SettledOpenings(from, to) ==
    LET B == Openings({from, to})
    IN  IF B = {} THEN {rows}
        ELSE UNION {IF B = {e} THEN MoveOpening(e, IF rows[e].account = from THEN to ELSE from)
                    ELSE IF B = {e, l} /\ rows[e].account = rows[l].account THEN {rows}
                    ELSE IF B = {e, l} /\ Earlier(rows[e].time, rows[l].time) THEN MergeOpenings(e, l)
                    ELSE {} : e \in B, l \in B}

Renamed(r, from, to) ==
    [r EXCEPT !.account = IF @ = from THEN to ELSE @, !.relAccount = IF @ = from THEN to ELSE @]
WithinAccount(r, a) == r.type \in TransferType /\ r.account = a /\ r.relAccount = a

\* Mutants: only the account column is rewritten; deleted rows are rewritten too.
ReassignedAccount(rs, from, to) ==
    [i \in RowId |-> IF rs[i].state = "live" /\ rs[i].account = from THEN [rs[i] EXCEPT !.account = to] ELSE rs[i]]
ReassignedDeleted(rs, from, to) ==
    [i \in RowId |-> IF rs[i].account = from THEN [rs[i] EXCEPT !.account = to] ELSE rs[i]]

\* the live rows of rs with to in place of from; a transfer left within to is deleted
Reassigned(rs, from, to) ==
    [i \in RowId |->
        IF rs[i].state # "live" THEN rs[i]
        ELSE IF WithinAccount(Renamed(rs[i], from, to), to) THEN Deleted(Renamed(rs[i], from, to))
        ELSE Renamed(rs[i], from, to)]

MoveAllTransactionsBetweenAccounts(from, to) ==
    /\ from # to /\ Usable(from) /\ Usable(to)
    /\ Currency[from] = Currency[to]
    /\ \E rs \in SettledOpenings(from, to) : rows' = Reassigned(rs, from, to)
    /\ CanApply(balance, Update(to, balance[from]))
    /\ balance' = [balance EXCEPT ![to] = @ + balance[from], ![from] = 0]
    /\ UNCHANGED <<status, hidden, tagIndex>>

-----------------------------------------------------------------------------
(* Tagging transactions *)

BatchAddTags(i, T) ==
    /\ Live(i) /\ rows[i].type # "transferIn"
    /\ tagIndex' = tagIndex \cup Indexes(i, T \ TagsOf(i), rows[i].time)
    /\ UNCHANGED <<status, hidden, balance, rows>>

\* a call that finds no tag to take away is refused (ErrTransactionTagNotFound)
BatchRemoveTags(i, T) ==
    /\ Live(i) /\ rows[i].type # "transferIn"
    /\ TagsOf(i) \cap T # {}
    /\ tagIndex' = {e \in tagIndex : e.row # i \/ e.tag \notin T}
    /\ UNCHANGED <<status, hidden, balance, rows>>

-----------------------------------------------------------------------------
Init ==
    /\ status = [a \in Account |-> "absent"]
    /\ hidden = [a \in Account |-> FALSE]
    /\ balance = [a \in Account |-> 0]
    /\ rows = [i \in RowId |-> Unused]
    /\ tagIndex = {}

Next ==
    \/ \E a \in Account :
         \/ \E x \in Amount \cup {0}, s \in Second : CreateAccount(a, x, s)
         \/ \E h \in BOOLEAN : HideAccount(a, h)
         \/ DeleteAccount(a)
         \/ \E x \in Amount, s \in Second, T \in SUBSET Tag : CreateBalanceModification(a, x, s, T)
         \/ \E type \in EntryType, x \in Amount, s \in Second, T \in SUBSET Tag : CreateEntry(type, a, x, s, T)
    \/ \E a, b \in Account :
         \/ MoveAllTransactionsBetweenAccounts(a, b)
         \/ \E x, y \in Amount, s \in Second, T \in SUBSET Tag : CreateTransfer(a, x, b, y, s, T)
    \/ \E i \in RowId :
         \/ DeleteTransaction(i)
         \/ \E T \in SUBSET Tag :
              \/ BatchAddTags(i, T)
              \/ BatchRemoveTags(i, T)
              \/ \E x \in Amount : ModifyBalanceModification(i, x, T)
              \/ \E a \in Account, x \in Amount, s \in Second :
                   \/ \E type \in EntryType : ModifyToEntry(i, type, a, x, s, T)
                   \/ \E b \in Account, y \in Amount :
                        \/ ModifyEntryToTransfer(i, a, x, b, y, s, T)
                        \/ ModifyTransfer(i, a, x, b, y, s, T)
    \/ \E alsoAccounts \in BOOLEAN : DeleteAllTransactions(alsoAccounts)

Spec == Init /\ [][Next]_vars

-----------------------------------------------------------------------------
(* Properties *)

\* The tables hold what their columns can hold, and a stored balance fits int64.
TypeOK ==
    /\ status \in [Account -> {"absent", "open", "deleted"}]
    /\ hidden \in [Account -> BOOLEAN]
    /\ balance \in [Account -> -MaxBalance - 1 .. MaxBalance]
    /\ rows \in [RowId -> Row]
    /\ tagIndex \subseteq [row : RowId, tag : Tag, time : Time]

\* No two rows ever written share a transaction time: the unique index
\* UQE_transaction_uid_time is never asked to hold a duplicate.
UniqueTimes ==
    \A i, j \in RowId :
        i # j /\ rows[i].state # "unused" /\ rows[j].state # "unused" => rows[i].time # rows[j].time

Effects == [i \in RowId |-> Effect(rows[i])]

\* The balance stored with an account is the sum of its live rows, as
\* CheckTransactionAndAccount of cli/user_data.go recomputes it, whatever
\* sequence of creations, edits, moves and deletions led there.
BalanceIsSumOfRows ==
    \A a \in Account : status[a] = "open" => balance[a] = SumFunctionOnSet(Effects, LiveOn(a))

\* row j is the other half of the transfer half i
OtherHalf(i, j) ==
    /\ j \in RowId /\ j # i /\ Live(j) /\ rows[j].relId = i
    /\ rows[j].type \in TransferType /\ rows[j].type # rows[i].type
    /\ rows[j].account = rows[i].relAccount /\ rows[j].relAccount = rows[i].account
    /\ rows[j].amount = rows[i].relAmount /\ rows[j].relAmount = rows[i].amount

\* Every live half of a transfer has a live other half, of the other type, that
\* points back and carries the same accounts and amounts the other way round
\* (checkTransactionRelatedTransaction of cli/user_data.go).
TransferHalvesMirror ==
    \A i \in RowId : Live(i) /\ rows[i].type \in TransferType =>
        rows[i].account # rows[i].relAccount /\ OtherHalf(i, rows[i].relId)

\* The tag index of a dated row says the second the row is dated in, once per tag,
\* so that a listing filtered by tag and by a range of time finds the row; only an
\* opening balance that was moved back in time leaves its index behind.
TagIndexFollowsRow ==
    \A e \in tagIndex :
        /\ Live(e.row) /\ rows[e.row].type # "modifyBalance" => e.time.sec = rows[e.row].time.sec
        /\ \A f \in tagIndex : f.row = e.row /\ f.tag = e.tag => f = e

\* The receiving half of a transfer is dated after the sending half, so a listing
\* in time order never shows money arriving before it left.
SentBeforeReceived ==
    \A i \in RowId : Live(i) /\ rows[i].type = "transferOut" => Earlier(rows[i].time, rows[rows[i].relId].time)

\* An account has at most one opening balance, and it is dated before every other
\* live row of the account, whatever was moved, merged or dated anew since.
OpeningBalanceFirst ==
    \A i, j \in RowId :
        /\ Live(i) /\ rows[i].type = "modifyBalance"
        /\ Live(j) /\ j # i /\ rows[j].account = rows[i].account
        => rows[j].type # "modifyBalance" /\ Earlier(rows[i].time, rows[j].time)

\* What an opening balance added to its account is the amount it shows: the
\* stored difference never parts from the stored target.
OpeningBalanceIsItsAmount ==
    \A i \in RowId : Live(i) /\ rows[i].type = "modifyBalance" => rows[i].relAmount = rows[i].amount

\* No live row names an account that is not there, on either side of a transfer.
RowsNameOpenAccounts ==
    LET there == {a \in Account : status[a] = "open"}
    IN  \A i \in RowId : Live(i) =>
            /\ rows[i].account \in there
            /\ rows[i].type \in TransferType => rows[i].relAccount \in there

\* While an account is hidden and stays, no request adds, removes or re-prices a row
\* of it, the edit of a transfer from another account included; only clearing
\* all of the user's data empties it.
HiddenAccountsStand ==
    [][\A a \in Account :
        hidden[a] /\ hidden'[a] /\ status'[a] = status[a] /\ (\E i \in RowId : Live(i)') =>
            balance'[a] = balance[a] /\ LiveOn(a)' = LiveOn(a)]_vars

\* A deleted row is history: no later operation revives or rewrites it, so its
\* time and its pointer to the other half still say what was deleted.
DeletedRowsStay == [][\A i \in RowId : rows[i].state = "deleted" => rows'[i] = rows[i]]_vars

(* What the repository says and the code does not keep *)

\* The two halves of a transfer lie in the same second.
TransferHalvesShareSecond ==
    \A i \in RowId : Live(i) /\ rows[i].type = "transferOut" => rows[i].time.sec = rows[rows[i].relId].time.sec

\* A tag in use is a tag of a transaction that is there.
TagsInUseTagTransactions == \A e \in tagIndex : Live(e.row)
=============================================================================
