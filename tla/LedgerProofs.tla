---------------------------- MODULE LedgerProofs ----------------------------
(***************************************************************************)
(* The safety of Ledger for every set of accounts, rows, amounts, seconds  *)
(* and tags.  LedgerInv is inductive: a row's time is unique, which makes  *)
(* the order of the rows total; the halves of a transfer mirror each other *)
(* and stay in order; an opening balance precedes its account's rows; and  *)
(* no row names an account that is closed.  From it follow two action      *)
(* properties, and TagInv keeps the tag index in step with the rows.       *)
(***************************************************************************)
EXTENDS Ledger, TLAPS

Table == [RowId -> Row]

\* what the table of transactions keeps, whatever the balances and the tags
RowsInv ==
    /\ rows \in Table
    /\ UniqueTimes
    /\ TransferHalvesMirror
    /\ SentBeforeReceived
    /\ OpeningBalanceFirst
    /\ RowsNameOpenAccounts

LedgerInv == TypeOK /\ RowsInv

Used(rs, i) == rs[i].state # "unused"
FreeTime(rs, t) == t \in Time /\ \A i \in RowId : Used(rs, i) => rs[i].time # t

-----------------------------------------------------------------------------
(* Times *)

\* The next time is a time, and later.
LEMMA TickIsLater ==
    ASSUME NEW t \in Time
    PROVE  Tick(t) \in Time /\ Earlier(t, Tick(t))
BY LedgerAssumption DEF Time, Tick, FirstSlot, Earlier

\* Earlier is a strict total order.
LEMMA EarlierIsOrder ==
    ASSUME NEW t \in Time, NEW u \in Time, NEW v \in Time
    PROVE  /\ ~Earlier(t, t)
           /\ Earlier(t, u) /\ Earlier(u, v) => Earlier(t, v)
           /\ Earlier(t, u) \/ Earlier(u, t) \/ t = u
           /\ Earlier(t, u) => ~Earlier(u, t)
BY LedgerAssumption DEF Time, Earlier

\* Slot 0 of a second is a time, and the first one of the second.
LEMMA FirstSlotIsTime ==
    ASSUME NEW s \in Nat
    PROVE  FirstSlot(s) \in Time /\ FirstSlot(s).sec = s /\ \A t \in Time : t.sec = s => ~Earlier(t, FirstSlot(s))
BY LedgerAssumption DEF Time, FirstSlot, Earlier

\* latest + 1 is after every row of the second.
LEMMA AfterLatestIsLast ==
    ASSUME NEW rs \in Table, NEW s, NEW t \in AfterLatest(rs, s)
    PROVE  /\ t \in Time
           /\ t.sec >= s
           /\ \A i \in RowId : Used(rs, i) /\ rs[i].time.sec = s => Earlier(rs[i].time, t)
<1>1. PICK u \in Latest(rs, s) : t = Tick(u)
  BY DEF AfterLatest
<1>2. u \in Time /\ u.sec = s
  BY DEF Latest, Taken, Table, Row
<1>3. \A i \in RowId : Used(rs, i) /\ rs[i].time.sec = s => rs[i].time \in Time /\ rs[i].time.slot <= u.slot
  BY <1>1 DEF Latest, Taken, Table, Row, Used
<1> QED
  BY <1>1, <1>2, <1>3, TickIsLater, LedgerAssumption DEF Time, Earlier, Tick, FirstSlot

\* A time not in Taken is the time of no row, deleted ones included.
LEMMA NotTakenIsFree ==
    ASSUME NEW rs, NEW t \in Time, t \notin Taken(rs)
    PROVE  FreeTime(rs, t)
BY DEF Taken, FreeTime, Used

\* A created row gets a free time not before its second.
LEMMA CreatedAtIsFree ==
    ASSUME rows \in Table, NEW s \in Nat, NEW t \in CreatedAt(s)
    PROVE  FreeTime(rows, t) /\ ~Earlier(t, FirstSlot(s))
<1>1. CASE FirstSlot(s) \notin Taken(rows)
  BY <1>1, FirstSlotIsTime, NotTakenIsFree, EarlierIsOrder DEF CreatedAt
<1>2. CASE FirstSlot(s) \in Taken(rows)
  <2>1. t \in AfterLatest(rows, s) /\ t \notin Taken(rows)
    BY <1>2 DEF CreatedAt
  <2>2. PICK i \in RowId : Used(rows, i) /\ rows[i].time = FirstSlot(s)
    BY <1>2 DEF Taken, Used
  <2>3. t \in Time /\ Earlier(FirstSlot(s), t)
    BY <2>1, <2>2, AfterLatestIsLast, FirstSlotIsTime
  <2> QED
    BY <2>1, <2>3, NotTakenIsFree, EarlierIsOrder, FirstSlotIsTime
<1> QED
  BY <1>1, <1>2

\* A row dated anew gets a free time not before its second.
LEMMA MovedToIsFree ==
    ASSUME rows \in Table, NEW s \in Nat, NEW t \in MovedTo(s)
    PROVE  FreeTime(rows, t) /\ ~Earlier(t, FirstSlot(s))
<1>1. t \in AfterLatest(rows, s) \/ t = FirstSlot(s)
  BY DEF MovedTo
<1>2. t \notin Taken(rows)
  BY DEF MovedTo
<1>3. t \in Time /\ t.sec >= s
  BY <1>1, AfterLatestIsLast, FirstSlotIsTime
<1> QED
  BY <1>2, <1>3, NotTakenIsFree, LedgerAssumption DEF Time, Earlier, FirstSlot

-----------------------------------------------------------------------------
(* Rows *)

\* A posting is a row of the table.
LEMMA PostingIsRow ==
    ASSUME NEW type \in RowType, NEW a \in Account, NEW x \in Int, NEW relId \in Nat,
           NEW b \in Account \cup {NoAccount}, NEW y \in Int, NEW t \in Time
    PROVE  /\ Posting(type, a, x, relId, b, y, t) \in Row
           /\ Posting(type, a, x, relId, b, y, t).state = "live"
           /\ Posting(type, a, x, relId, b, y, t).type = type
           /\ Posting(type, a, x, relId, b, y, t).account = a
           /\ Posting(type, a, x, relId, b, y, t).amount = x
           /\ Posting(type, a, x, relId, b, y, t).relId = relId
           /\ Posting(type, a, x, relId, b, y, t).relAccount = b
           /\ Posting(type, a, x, relId, b, y, t).relAmount = y
           /\ Posting(type, a, x, relId, b, y, t).time = t
BY DEF Posting, Row

\* Deleting a row leaves a row.
LEMMA DeletedIsRow ==
    ASSUME NEW r \in Row
    PROVE  Deleted(r) \in Row /\ Deleted(r).state = "deleted" /\ Deleted(r).time = r.time
BY DEF Deleted, Row

\* Dating a row anew leaves a row with that time.
LEMMA DatedIsRow ==
    ASSUME NEW r \in Row, NEW t \in Time
    PROVE  /\ Dated(r, t) \in Row
           /\ Dated(r, t).time = t
           /\ Dated(r, t).state = r.state /\ Dated(r, t).type = r.type
           /\ Dated(r, t).account = r.account /\ Dated(r, t).amount = r.amount
           /\ Dated(r, t).relId = r.relId
           /\ Dated(r, t).relAccount = r.relAccount /\ Dated(r, t).relAmount = r.relAmount
BY DEF Dated, Row

\* Writing the amounts of a row anew leaves a row with those amounts.
LEMMA PricedIsRow ==
    ASSUME NEW r \in Row, NEW x \in Int, NEW y \in Int
    PROVE  /\ Priced(r, x, y) \in Row
           /\ Priced(r, x, y).time = r.time
           /\ Priced(r, x, y).state = r.state /\ Priced(r, x, y).type = r.type
           /\ Priced(r, x, y).account = r.account /\ Priced(r, x, y).relAccount = r.relAccount
           /\ Priced(r, x, y).relId = r.relId
BY DEF Priced, Row

\* Renaming one account to another leaves a row that names neither a new account nor the old one.
LEMMA RenamedIsRow ==
    ASSUME NEW r \in Row, NEW a \in Account, NEW b \in Account
    PROVE  /\ Renamed(r, a, b) \in Row
           /\ Renamed(r, a, b).time = r.time
           /\ Renamed(r, a, b).state = r.state /\ Renamed(r, a, b).type = r.type
           /\ Renamed(r, a, b).amount = r.amount /\ Renamed(r, a, b).relAmount = r.relAmount
           /\ Renamed(r, a, b).relId = r.relId
           /\ Renamed(r, a, b).account = IF r.account = a THEN b ELSE r.account
           /\ Renamed(r, a, b).relAccount = IF r.relAccount = a THEN b ELSE r.relAccount
BY DEF Renamed, Row

-----------------------------------------------------------------------------
(* What the operations do to the table of transactions *)

\* A row that stands alone: an opening balance of an account without rows, or an
\* income or expense after the opening balance of its account.
LEMMA InsertKeeps ==
    ASSUME RowsInv,
           NEW i \in RowId, rows[i].state = "unused",
           NEW type \in EntryType \cup {"modifyBalance"}, NEW a \in Account, NEW x \in Int,
           NEW b \in Account \cup {NoAccount}, NEW y \in Int,
           NEW t, FreeTime(rows, t),
           rows' = [rows EXCEPT ![i] = Posting(type, a, x, 0, b, y, t)],
           status'[a] = "open",
           \A c \in Account : status[c] = "open" => status'[c] = "open",
           type = "modifyBalance" => LiveOn(a) = {},
           \A k \in Openings({a}) : Earlier(rows[k].time, t)
    PROVE  RowsInv'
<1> DEFINE r == Posting(type, a, x, 0, b, y, t)
<1>0. type \in RowType /\ t \in Time /\ 0 \in Nat
  BY DEF RowType, FreeTime
<1>1. /\ r \in Row /\ r.state = "live" /\ r.type = type /\ r.account = a /\ r.time = t
  BY <1>0, PostingIsRow
<1>2. rows \in Table /\ rows' \in Table /\ rows'[i] = r /\ \A k \in RowId \ {i} : rows'[k] = rows[k]
  BY <1>1 DEF RowsInv, Table
<1> HIDE DEF r
<1>3. UniqueTimes'
  BY <1>1, <1>2 DEF UniqueTimes, RowsInv, FreeTime, Used
<1>4. type \notin TransferType
  BY DEF EntryType, TransferType
<1>5. \A k \in RowId : Live(k) /\ rows[k].type \in TransferType => rows[k].relId \in RowId \ {i}
  BY DEF RowsInv, TransferHalvesMirror, Live, OtherHalf
<1>6. TransferHalvesMirror'
  BY <1>1, <1>2, <1>4, <1>5 DEF TransferHalvesMirror, RowsInv, Live, OtherHalf
<1>7. SentBeforeReceived'
  BY <1>1, <1>2, <1>4, <1>5 DEF SentBeforeReceived, RowsInv, Live, TransferType
<1>8. OpeningBalanceFirst'
  BY <1>1, <1>2 DEF OpeningBalanceFirst, RowsInv, Live, LiveOn, Openings, EntryType
<1>9. RowsNameOpenAccounts'
  BY <1>1, <1>2, <1>4 DEF RowsNameOpenAccounts, RowsInv, Live
<1> QED
  BY <1>2, <1>3, <1>6, <1>7, <1>8, <1>9 DEF RowsInv, Table

\* The two halves of a transfer, new or written over an entry or a transfer.
LEMMA HalvesKeep ==
    ASSUME RowsInv,
           NEW i \in RowId, NEW j \in RowId, i # j,
           NEW a \in Account, NEW x \in Int, NEW b \in Account, NEW y \in Int, a # b,
           NEW t \in Time, NEW u \in Time, Earlier(t, u),
           \A k \in RowId \ {i, j} : Used(rows, k) => rows[k].time \notin {t, u},
           \A k \in RowId \ {i, j} : Live(k) /\ rows[k].type \in TransferType => rows[k].relId \notin {i, j},
           rows' = Halves(rows, i, j, a, x, b, y, t, u),
           status[a] = "open", status[b] = "open", UNCHANGED status,
           \A k \in Openings({a, b}) : k \notin {i, j} /\ Earlier(rows[k].time, t)
    PROVE  RowsInv'
<1> DEFINE r == Posting("transferOut", a, x, j, b, y, t)
           q == Posting("transferIn", b, y, i, a, x, u)
<1>0. i \in Nat /\ j \in Nat
  BY LedgerAssumption
<1>1. /\ r \in Row /\ r.state = "live" /\ r.type = "transferOut" /\ r.account = a /\ r.amount = x
      /\ r.relId = j /\ r.relAccount = b /\ r.relAmount = y /\ r.time = t
  BY <1>0, PostingIsRow DEF RowType, TransferType
<1>2. /\ q \in Row /\ q.state = "live" /\ q.type = "transferIn" /\ q.account = b /\ q.amount = y
      /\ q.relId = i /\ q.relAccount = a /\ q.relAmount = x /\ q.time = u
  BY <1>0, PostingIsRow DEF RowType, TransferType
<1>3. /\ rows \in Table /\ rows' \in Table /\ rows'[i] = r /\ rows'[j] = q
      /\ \A k \in RowId \ {i, j} : rows'[k] = rows[k]
  BY <1>1, <1>2 DEF RowsInv, Table, Halves
<1> HIDE DEF r, q
<1>4. t # u
  BY EarlierIsOrder
<1>5. UniqueTimes'
  BY <1>1, <1>2, <1>3, <1>4 DEF UniqueTimes, RowsInv, Used
<1>6. TransferHalvesMirror'
  <2> SUFFICES ASSUME NEW k \in RowId, Live(k)', rows'[k].type \in TransferType
               PROVE  rows'[k].account # rows'[k].relAccount /\ OtherHalf(k, rows[k].relId)'
    BY DEF TransferHalvesMirror
  <2>1. CASE k = i
    BY <2>1, <1>1, <1>2, <1>3 DEF Live, OtherHalf, TransferType
  <2>2. CASE k = j
    BY <2>2, <1>1, <1>2, <1>3 DEF Live, OtherHalf, TransferType
  <2>3. CASE k \notin {i, j}
    BY <2>3, <1>3 DEF Live, OtherHalf, RowsInv, TransferHalvesMirror
  <2> QED
    BY <2>1, <2>2, <2>3
<1>7. SentBeforeReceived'
  BY <1>1, <1>2, <1>3 DEF SentBeforeReceived, RowsInv, Live, TransferType, TransferHalvesMirror, OtherHalf
<1>8. OpeningBalanceFirst'
  <2> SUFFICES ASSUME NEW k \in RowId, NEW m \in RowId, Live(k)', rows'[k].type = "modifyBalance",
                      Live(m)', m # k, rows'[m].account = rows'[k].account
               PROVE  rows'[m].type # "modifyBalance" /\ Earlier(rows'[k].time, rows'[m].time)
    BY DEF OpeningBalanceFirst
  <2>1. k \notin {i, j} /\ rows'[k] = rows[k]
    BY <1>1, <1>2, <1>3
  <2>2. rows[k].account \in {a, b} => Earlier(rows[k].time, t)
    BY <2>1 DEF Openings, Live
  <2>3. rows[k].time \in Time
    BY <1>3 DEF Table, Row
  <2>4. CASE m \notin {i, j}
    BY <2>1, <2>4, <1>3 DEF RowsInv, OpeningBalanceFirst, Live
  <2>5. CASE m \in {i, j}
    BY <2>1, <2>2, <2>3, <2>5, <1>1, <1>2, <1>3, EarlierIsOrder
  <2> QED
    BY <2>4, <2>5
<1>9. RowsNameOpenAccounts'
  BY <1>1, <1>2, <1>3 DEF RowsNameOpenAccounts, RowsInv, Live
<1> QED
  BY <1>3, <1>5, <1>6, <1>7, <1>8, <1>9 DEF RowsInv, Table

\* An entry written over an entry, or over the sending half of a transfer whose
\* receiving half is deleted.
LEMMA EntryKeeps ==
    ASSUME RowsInv,
           NEW i \in RowId, Live(i), rows[i].type \in EntryType \cup {"transferOut"},
           NEW type \in EntryType, NEW a \in Account, NEW x \in Int, NEW t \in Time,
           \A k \in RowId \ {i} : Used(rows, k) => rows[k].time # t,
           \A k \in Openings({a}) : Earlier(rows[k].time, t),
           rows' = [j \in RowId |->
                       IF j = i THEN Posting(type, a, x, rows[i].relId, NoAccount, 0, t)
                       ELSE IF rows[i].type = "transferOut" /\ j = rows[i].relId THEN Deleted(rows[j])
                       ELSE rows[j]],
           status[a] = "open", UNCHANGED status
    PROVE  RowsInv'
<1> DEFINE r == Posting(type, a, x, rows[i].relId, NoAccount, 0, t)
           Gone(j) == rows[i].type = "transferOut" /\ j = rows[i].relId
<1>0. rows \in Table /\ \A k \in RowId : rows[k] \in Row
  BY DEF RowsInv, Table
<1>1. /\ r \in Row /\ r.state = "live" /\ r.type = type /\ r.account = a /\ r.time = t
  <2>1. type \in RowType /\ rows[i].relId \in Nat /\ NoAccount \in Account \cup {NoAccount} /\ 0 \in Int
    BY <1>0 DEF Row, RowType
  <2> QED
    BY <2>1 DEF Posting, Row
<1>2. /\ rows' \in Table /\ rows'[i] = r
      /\ \A k \in RowId \ {i} : rows'[k] = IF Gone(k) THEN Deleted(rows[k]) ELSE rows[k]
  BY <1>0, <1>1, DeletedIsRow DEF Table
<1>3. \A k \in RowId \ {i} : Gone(k) => rows'[k].state = "deleted" /\ rows'[k].time = rows[k].time /\ Live(k)
  BY <1>0, <1>2, DeletedIsRow DEF RowsInv, TransferHalvesMirror, OtherHalf, TransferType
<1>4. \A k \in RowId \ {i} : ~Gone(k) => rows'[k] = rows[k]
  BY <1>2
\* no row that stays points at the row or at the half that is deleted
<1>5. \A k \in RowId \ {i} : ~Gone(k) /\ Live(k) /\ rows[k].type \in TransferType =>
          rows[k].relId # i /\ ~Gone(rows[k].relId) /\ OtherHalf(k, rows[k].relId)
  BY DEF RowsInv, TransferHalvesMirror, OtherHalf, TransferType, EntryType
<1>6. type # "modifyBalance" /\ type \notin TransferType
  BY DEF EntryType, TransferType
<1> HIDE DEF r, Gone
<1>7. UniqueTimes'
  BY <1>1, <1>2, <1>3, <1>4 DEF UniqueTimes, RowsInv, Used, Live
<1>8. TransferHalvesMirror'
  <2> SUFFICES ASSUME NEW k \in RowId, Live(k)', rows'[k].type \in TransferType
               PROVE  rows'[k].account # rows'[k].relAccount /\ OtherHalf(k, rows[k].relId)'
    BY DEF TransferHalvesMirror
  <2>1. k # i /\ ~Gone(k)
    BY <1>1, <1>2, <1>3, <1>6 DEF Live
  <2>2. rows'[k] = rows[k] /\ Live(k)
    BY <2>1, <1>4 DEF Live
  <2>3. rows[k].relId \in RowId \ {i} /\ ~Gone(rows[k].relId)
    BY <2>1, <2>2, <1>5 DEF OtherHalf
  <2>4. rows'[rows[k].relId] = rows[rows[k].relId]
    BY <2>3, <1>4
  <2> QED
    BY <2>1, <2>2, <2>4, <1>5 DEF OtherHalf, RowsInv, TransferHalvesMirror, Live
<1>9. SentBeforeReceived'
  <2> SUFFICES ASSUME NEW k \in RowId, Live(k)', rows'[k].type = "transferOut"
               PROVE  Earlier(rows'[k].time, rows'[rows'[k].relId].time)
    BY DEF SentBeforeReceived
  <2>1. k # i /\ ~Gone(k)
    BY <1>1, <1>2, <1>3, <1>6 DEF Live, TransferType
  <2>2. rows'[k] = rows[k] /\ Live(k)
    BY <2>1, <1>4 DEF Live
  <2>3. rows'[rows[k].relId] = rows[rows[k].relId]
    BY <2>1, <2>2, <1>4, <1>5 DEF OtherHalf, TransferType
  <2> QED
    BY <2>2, <2>3 DEF SentBeforeReceived, RowsInv
<1>10. OpeningBalanceFirst'
  <2> SUFFICES ASSUME NEW k \in RowId, NEW m \in RowId, Live(k)', rows'[k].type = "modifyBalance",
                      Live(m)', m # k, rows'[m].account = rows'[k].account
               PROVE  rows'[m].type # "modifyBalance" /\ Earlier(rows'[k].time, rows'[m].time)
    BY DEF OpeningBalanceFirst
  <2>1. k # i /\ rows'[k] = rows[k]
    BY <1>1, <1>2, <1>3, <1>4, <1>6 DEF Live
  <2>2. CASE m = i
    BY <2>1, <2>2, <1>1, <1>2, <1>6 DEF Openings, Live
  <2>3. CASE m # i
    BY <2>1, <2>3, <1>3, <1>4 DEF Live, RowsInv, OpeningBalanceFirst
  <2> QED
    BY <2>2, <2>3
<1>11. RowsNameOpenAccounts'
  BY <1>1, <1>2, <1>3, <1>4, <1>6 DEF RowsNameOpenAccounts, RowsInv, Live
<1> QED
  BY <1>2, <1>7, <1>8, <1>9, <1>10, <1>11 DEF RowsInv, Table

\* Rows deleted together with their other halves, and accounts closed that no
\* remaining row names.
LEMMA DropKeeps ==
    ASSUME RowsInv,
           NEW G \in SUBSET RowId, \A k \in G : Live(k),
           \A k \in RowId \ G : Live(k) /\ rows[k].type \in TransferType => rows[k].relId \notin G,
           rows' = [k \in RowId |-> IF k \in G THEN Deleted(rows[k]) ELSE rows[k]],
           \A k \in RowId \ G : Live(k) =>
               /\ status'[rows[k].account] = status[rows[k].account]
               /\ rows[k].type \in TransferType => status'[rows[k].relAccount] = status[rows[k].relAccount]
    PROVE  RowsInv'
<1>0. rows \in Table /\ \A k \in RowId : rows[k] \in Row
  BY DEF RowsInv, Table
<1>1. /\ rows' \in Table
      /\ \A k \in G : rows'[k].state = "deleted" /\ rows'[k].time = rows[k].time
      /\ \A k \in RowId \ G : rows'[k] = rows[k]
  BY <1>0, DeletedIsRow DEF Table
<1>2. UniqueTimes'
  BY <1>1 DEF UniqueTimes, RowsInv, Live
<1>3. TransferHalvesMirror'
  BY <1>1 DEF TransferHalvesMirror, RowsInv, Live, OtherHalf
<1>4. SentBeforeReceived'
  BY <1>1 DEF SentBeforeReceived, TransferHalvesMirror, RowsInv, Live, OtherHalf, TransferType
<1>5. OpeningBalanceFirst'
  BY <1>1 DEF OpeningBalanceFirst, RowsInv, Live
<1>6. RowsNameOpenAccounts'
  BY <1>1 DEF RowsNameOpenAccounts, RowsInv, Live
<1> QED
  BY <1>1, <1>2, <1>3, <1>4, <1>5, <1>6 DEF RowsInv, Table

\* An opening balance with another amount.
LEMMA PriceKeeps ==
    ASSUME RowsInv,
           NEW i \in RowId, Live(i), rows[i].type = "modifyBalance",
           NEW x \in Int, NEW y \in Int,
           rows' = [rows EXCEPT ![i] = Priced(rows[i], x, y)],
           UNCHANGED status
    PROVE  RowsInv'
<1>0. rows \in Table /\ \A k \in RowId : rows[k] \in Row
  BY DEF RowsInv, Table
<1>1. /\ rows' \in Table
      /\ \A k \in RowId : /\ rows'[k].state = rows[k].state /\ rows'[k].type = rows[k].type
                          /\ rows'[k].account = rows[k].account /\ rows'[k].time = rows[k].time
                          /\ rows'[k].relAccount = rows[k].relAccount /\ rows'[k].relId = rows[k].relId
      /\ \A k \in RowId : rows[k].type \in TransferType => rows'[k] = rows[k]
  BY <1>0, PricedIsRow DEF Table, TransferType
<1>2. UniqueTimes' /\ SentBeforeReceived' /\ OpeningBalanceFirst' /\ RowsNameOpenAccounts'
  <2>1. UniqueTimes'
    BY <1>1 DEF UniqueTimes, RowsInv
  <2>2. SentBeforeReceived'
    BY <1>1 DEF SentBeforeReceived, TransferHalvesMirror, OtherHalf, TransferType, RowsInv, Live
  <2>3. OpeningBalanceFirst'
    BY <1>1 DEF OpeningBalanceFirst, RowsInv, Live
  <2>4. RowsNameOpenAccounts'
    BY <1>1 DEF RowsNameOpenAccounts, RowsInv, Live
  <2> QED
    BY <2>1, <2>2, <2>3, <2>4
<1>3. TransferHalvesMirror'
  BY <1>1 DEF TransferHalvesMirror, OtherHalf, RowsInv, Live
<1> QED
  BY <1>1, <1>2, <1>3 DEF RowsInv, Table

-----------------------------------------------------------------------------
(* Moving all rows of one account to another *)

\* A row dated anew within a second stays in it.
LEMMA MovedToKeepsSecond ==
    ASSUME rows \in Table, NEW s \in Nat, NEW t \in MovedTo(s)
    PROVE  t.sec = s
<1>1. CASE t = FirstSlot(s)
  BY <1>1 DEF FirstSlot
<1>2. CASE t # FirstSlot(s)
  <2>1. /\ \E v \in Latest(rows, s) : v.slot # Slots - 1
        /\ t \in AfterLatest(rows, s)
    BY <1>2 DEF MovedTo
  <2>2. PICK u \in Latest(rows, s) : u.slot # Slots - 2 /\ t = Tick(u)
    BY <2>1 DEF AfterLatest
  <2>3. \A v \in Latest(rows, s) : v \in Time /\ v.sec = s /\ v.slot = u.slot
    BY LedgerAssumption DEF Latest, Taken, Table, Row, Time
  <2> QED
    BY <2>1, <2>2, <2>3 DEF Tick
<1> QED
  BY <1>1, <1>2

\* The second before is before.
LEMMA SecondBeforeIsEarlier ==
    ASSUME rows \in Table, NEW j \in RowId, Used(rows, j), NEW t \in SecondBefore(rows[j].time.sec)
    PROVE  FreeTime(rows, t) /\ Earlier(t, rows[j].time)
<1> DEFINE s == rows[j].time.sec
<1>1. rows[j].time \in Time /\ s \in Nat
  BY DEF Table, Row, Time
<1>2. CASE s = 0
  <2>1. t = FirstSlot(0) /\ t \in Time /\ t \notin Taken(rows)
    BY <1>2, FirstSlotIsTime DEF SecondBefore
  <2>2. FreeTime(rows, t)
    BY <2>1, NotTakenIsFree
  <2> QED
    BY <1>1, <1>2, <2>1, <2>2 DEF FreeTime, Earlier, FirstSlot, Time
<1>3. CASE s # 0
  <2>1. s - 1 \in Nat /\ t \in MovedTo(s - 1)
    BY <1>1, <1>3 DEF SecondBefore
  <2>2. FreeTime(rows, t) /\ t.sec = s - 1
    BY <2>1, MovedToIsFree, MovedToKeepsSecond
  <2> QED
    BY <1>1, <2>2 DEF Earlier
<1> QED
  BY <1>2, <1>3

\* rs is the table with the opening balances of from and to settled
Settled(rs, from, to) ==
    /\ rs \in Table
    /\ \A k \in RowId :
         /\ rs[k].type = rows[k].type /\ rs[k].relId = rows[k].relId
         /\ rs[k].account = rows[k].account /\ rs[k].relAccount = rows[k].relAccount
         /\ Used(rs, k) => Used(rows, k)
         /\ ~Live(k) => rs[k] = rows[k]
         /\ rows[k].type \in TransferType => rs[k] = rows[k]
    /\ \A k, m \in RowId : k # m /\ Used(rs, k) /\ Used(rs, m) => rs[k].time # rs[m].time
    /\ \A k, m \in RowId :
         /\ rs[k].state = "live" /\ rs[k].type = "modifyBalance"
         /\ rs[m].state = "live" /\ m # k
         /\ rs[m].account = rs[k].account \/ {rs[m].account, rs[k].account} \subseteq {from, to}
         => rs[m].type # "modifyBalance" /\ Earlier(rs[k].time, rs[m].time)

\* A table whose opening balances already come first in both accounts is settled.
LEMMA UnchangedIsSettled ==
    ASSUME RowsInv, NEW from \in Account, NEW to \in Account,
           \A k \in Openings({from, to}), m \in RowId :
               Live(m) /\ m # k /\ rows[m].account \in {from, to} =>
                   rows[m].type # "modifyBalance" /\ Earlier(rows[k].time, rows[m].time)
    PROVE  Settled(rows, from, to)
BY DEF Settled, RowsInv, UniqueTimes, OpeningBalanceFirst, Openings, Live, Used

\* The lone opening balance comes before every row of both accounts once it is moved.
LEMMA MovedIsSettled ==
    ASSUME RowsInv, NEW from \in Account, NEW to \in Account,
           NEW o \in Openings({from, to}), Openings({from, to}) = {o},
           NEW other \in {from, to}, {rows[o].account, other} = {from, to},
           NEW rs \in MoveOpening(o, other)
    PROVE  Settled(rs, from, to)
<1>0. rows \in Table /\ (\A k \in RowId : rows[k] \in Row /\ rows[k].time \in Time) /\ o \in RowId /\ Live(o)
  BY DEF RowsInv, Table, Row, Openings
<1>1. rows[o].type = "modifyBalance" /\ \A m \in RowId :
          /\ Live(m) /\ m # o /\ rows[m].account \in {from, to}
          => /\ rows[m].type # "modifyBalance"
             /\ rows[m].account = rows[o].account => Earlier(rows[o].time, rows[m].time)
             /\ rows[m].account # rows[o].account => m \in LiveOn(other)
  BY <1>0 DEF Openings, LiveOn, RowsInv, OpeningBalanceFirst, Live
<1>2. CASE ~\E j \in LiveOn(other) : Earlier(rows[j].time, rows[o].time)
  <2>1. rs = rows
    BY <1>2 DEF MoveOpening
  <2>2. \A m \in LiveOn(other) : m # o => Earlier(rows[o].time, rows[m].time)
    BY <1>0, <1>2, EarlierIsOrder DEF LiveOn, RowsInv, UniqueTimes, Live
  <2> QED
    BY <1>0, <1>1, <2>1, <2>2, UnchangedIsSettled
<1>3. CASE \E j \in LiveOn(other) : Earlier(rows[j].time, rows[o].time)
  <2>0. PICK j \in Earliest(other) :
            \E t \in SecondBefore(rows[j].time.sec) : rs = [rows EXCEPT ![o] = Dated(rows[o], t)]
    BY <1>3 DEF MoveOpening
  <2>1. PICK t \in SecondBefore(rows[j].time.sec) : rs = [rows EXCEPT ![o] = Dated(rows[o], t)]
    BY <2>0
  <2>2. j \in RowId /\ Live(j) /\ \A m \in LiveOn(other) : ~Earlier(rows[m].time, rows[j].time)
    BY <2>0 DEF Earliest, LiveOn
  <2>3. FreeTime(rows, t) /\ t \in Time /\ Earlier(t, rows[j].time)
    BY <1>0, <2>1, <2>2, SecondBeforeIsEarlier DEF Live, Used, FreeTime
  <2>4. \A m \in LiveOn(other) : Earlier(t, rows[m].time)
    BY <1>0, <2>2, <2>3, EarlierIsOrder DEF LiveOn
  <2>5. Earlier(t, rows[o].time)
    BY <1>0, <1>3, <2>3, <2>4, EarlierIsOrder DEF LiveOn
  <2>6. \A m \in RowId : Live(m) /\ m # o /\ rows[m].account \in {from, to} => Earlier(t, rows[m].time)
    BY <1>0, <1>1, <2>3, <2>4, <2>5, EarlierIsOrder
  <2>7. /\ rs \in Table /\ \A k \in RowId \ {o} : rs[k] = rows[k]
        /\ rs[o].time = t /\ rs[o].state = rows[o].state /\ rs[o].type = rows[o].type
        /\ rs[o].account = rows[o].account /\ rs[o].relAccount = rows[o].relAccount /\ rs[o].relId = rows[o].relId
    BY <1>0, <2>1, <2>3, DatedIsRow DEF Table
  <2>8. rows[o].type \notin TransferType /\ rows[o].account \in {from, to}
    BY DEF Openings, TransferType
  <2>9. \A k, m \in RowId : k # m /\ Used(rs, k) /\ Used(rs, m) => rs[k].time # rs[m].time
    BY <2>3, <2>7 DEF RowsInv, UniqueTimes, FreeTime, Used
  <2>10. ASSUME NEW k \in RowId, NEW m \in RowId, rs[k].state = "live", rs[k].type = "modifyBalance",
                rs[m].state = "live", m # k,
                rs[m].account = rs[k].account \/ {rs[m].account, rs[k].account} \subseteq {from, to}
         PROVE  rs[m].type # "modifyBalance" /\ Earlier(rs[k].time, rs[m].time)
    <3>1. CASE k = o
      BY <1>1, <2>6, <2>7, <2>8, <2>10, <3>1 DEF Live
    <3>2. CASE k # o
      <4>1. rows[k].account \notin {from, to}
        BY <2>7, <2>10, <3>2 DEF Openings, Live
      <4>2. m # o
        BY <2>7, <2>8, <2>10, <4>1
      <4> QED
        BY <2>7, <2>10, <3>2, <4>1, <4>2 DEF RowsInv, OpeningBalanceFirst, Live
    <3> QED
      BY <3>1, <3>2
  <2> QED
    BY <1>0, <2>7, <2>8, <2>9, <2>10 DEF Settled, Used, Live
<1> QED
  BY <1>2, <1>3

\* The merged opening balance comes before every row of both accounts.
LEMMA MergedIsSettled ==
    ASSUME RowsInv, NEW from \in Account, NEW to \in Account,
           NEW e \in Openings({from, to}), NEW l \in Openings({from, to}),
           Openings({from, to}) = {e, l}, Earlier(rows[e].time, rows[l].time),
           NEW rs \in MergeOpenings(e, l)
    PROVE  Settled(rs, from, to)
<1>0. rows \in Table /\ (\A k \in RowId : rows[k] \in Row /\ rows[k].time \in Time)
      /\ e \in RowId /\ Live(e) /\ l \in RowId /\ Live(l) /\ e # l
      /\ rows[e].type = "modifyBalance" /\ rows[l].type = "modifyBalance"
      /\ rows[e].account \in {from, to} /\ rows[l].account \in {from, to}
  BY EarlierIsOrder DEF RowsInv, Table, Row, Openings
<1>1. {rows[e].account, rows[l].account} = {from, to}
  BY <1>0 DEF RowsInv, OpeningBalanceFirst, Live
<1>2. PICK x \in Int, y \in Int : rs = [rows EXCEPT ![e] = Priced(rows[e], x, y), ![l] = Deleted(rows[l])]
  <2>1. rows[e].amount + rows[l].amount \in Int /\ rows[e].relAmount + rows[l].relAmount \in Int
    BY <1>0 DEF Row
  <2> QED
    BY <1>0, <2>1 DEF MergeOpenings
<1>3. /\ rs \in Table /\ rs[e] = Priced(rows[e], x, y) /\ rs[l] = Deleted(rows[l])
      /\ \A k \in RowId \ {e, l} : rs[k] = rows[k]
  BY <1>0, <1>2, PricedIsRow, DeletedIsRow DEF Table
<1>4. /\ rs[l].state = "deleted" /\ rs[l].type = rows[l].type /\ rs[l].relId = rows[l].relId
      /\ rs[l].account = rows[l].account /\ rs[l].relAccount = rows[l].relAccount /\ rs[l].time = rows[l].time
  BY <1>0, <1>3 DEF Deleted, Row
<1>5. /\ rs[e].state = "live" /\ rs[e].type = rows[e].type /\ rs[e].relId = rows[e].relId
      /\ rs[e].account = rows[e].account /\ rs[e].relAccount = rows[e].relAccount /\ rs[e].time = rows[e].time
  BY <1>0, <1>3, PricedIsRow DEF Live
<1>6. \A k, m \in RowId : k # m /\ Used(rs, k) /\ Used(rs, m) => rs[k].time # rs[m].time
  BY <1>0, <1>3, <1>4, <1>5 DEF RowsInv, UniqueTimes, Used, Live
<1>7. \A m \in RowId \ {e, l} : Live(m) /\ rows[m].account \in {from, to} =>
          rows[m].type # "modifyBalance" /\ Earlier(rows[e].time, rows[m].time)
  BY <1>0, <1>1, EarlierIsOrder DEF Openings, RowsInv, OpeningBalanceFirst, Live
<1>8. ASSUME NEW k \in RowId, NEW m \in RowId, rs[k].state = "live", rs[k].type = "modifyBalance",
             rs[m].state = "live", m # k,
             rs[m].account = rs[k].account \/ {rs[m].account, rs[k].account} \subseteq {from, to}
      PROVE  rs[m].type # "modifyBalance" /\ Earlier(rs[k].time, rs[m].time)
  <2>1. CASE k = e
    BY <1>0, <1>3, <1>4, <1>5, <1>7, <1>8, <2>1 DEF Live
  <2>2. CASE k # e
    <3>1. k \notin {e, l} /\ rows[k].account \notin {from, to}
      BY <1>3, <1>4, <1>8, <2>2 DEF Openings, Live
    <3>2. m \notin {e, l}
      BY <1>0, <1>3, <1>4, <1>5, <1>8, <3>1
    <3> QED
      BY <1>3, <1>8, <3>1, <3>2 DEF RowsInv, OpeningBalanceFirst, Live
  <2> QED
    BY <2>1, <2>2
<1> QED
  BY <1>0, <1>3, <1>4, <1>5, <1>6, <1>8 DEF Settled, Used, Live, TransferType

\* Whatever opening balances the two accounts have, the settled table has at most one, dated first.
LEMMA SettledOpeningsAreSettled ==
    ASSUME RowsInv, NEW from \in Account, NEW to \in Account, from # to,
           NEW rs \in SettledOpenings(from, to)
    PROVE  Settled(rs, from, to)
<1> DEFINE B == Openings({from, to})
<1>1. CASE B = {}
  BY <1>1, UnchangedIsSettled DEF SettledOpenings
<1>2. CASE B # {}
  <2>1. PICK e \in B, l \in B :
            rs \in IF B = {e} THEN MoveOpening(e, IF rows[e].account = from THEN to ELSE from)
                   ELSE IF B = {e, l} /\ rows[e].account = rows[l].account THEN {rows}
                   ELSE IF B = {e, l} /\ Earlier(rows[e].time, rows[l].time) THEN MergeOpenings(e, l)
                   ELSE {}
    BY <1>2 DEF SettledOpenings
  <2>2. CASE B = {e}
    <3> DEFINE other == IF rows[e].account = from THEN to ELSE from
    <3>1. rows[e].account \in {from, to} /\ other \in {from, to} /\ {rows[e].account, other} = {from, to}
      BY DEF Openings
    <3>2. rs \in MoveOpening(e, other)
      BY <2>1, <2>2
    <3> HIDE DEF other
    <3> QED
      BY <2>2, <3>1, <3>2, MovedIsSettled
  <2>3. CASE B = {e, l} /\ B # {e}
    <3>1. rows[e].account # rows[l].account
      BY <2>3 DEF Openings, RowsInv, OpeningBalanceFirst, Live
    <3>2. rs \in MergeOpenings(e, l) /\ Earlier(rows[e].time, rows[l].time)
      BY <2>1, <2>3, <3>1
    <3> QED
      BY <2>3, <3>2, MergedIsSettled
  <2> QED
    BY <2>1, <2>2, <2>3
<1> QED
  BY <1>1, <1>2

\* Rows renamed from one account to the other, and the transfers between the two deleted.
LEMMA ReassignedKeeps ==
    ASSUME RowsInv, NEW from \in Account, NEW to \in Account, from # to,
           NEW rs, Settled(rs, from, to),
           rows' = Reassigned(rs, from, to),
           status[to] = "open", UNCHANGED status
    PROVE  RowsInv'
<1> DEFINE N(k) == Renamed(rs[k], from, to)
           Name(c) == IF c = from THEN to ELSE c
           Gone(k) == rs[k].state = "live" /\ WithinAccount(N(k), to)
<1>0. rows \in Table /\ rs \in Table /\ \A k \in RowId : rows[k] \in Row /\ rs[k] \in Row
  BY DEF RowsInv, Table, Settled
<1>1. \A k \in RowId : /\ N(k) \in Row /\ N(k).time = rs[k].time /\ N(k).state = rs[k].state
                       /\ N(k).type = rs[k].type /\ N(k).relId = rs[k].relId
                       /\ N(k).amount = rs[k].amount /\ N(k).relAmount = rs[k].relAmount
                       /\ N(k).account = Name(rs[k].account) /\ N(k).relAccount = Name(rs[k].relAccount)
  BY <1>0, RenamedIsRow
<1>2. \A k \in RowId : Gone(k) <=> /\ rs[k].state = "live" /\ rs[k].type \in TransferType
                                   /\ Name(rs[k].account) = to /\ Name(rs[k].relAccount) = to
  BY <1>1 DEF WithinAccount
<1>3. \A k \in RowId : rows'[k] = IF rs[k].state # "live" THEN rs[k]
                                  ELSE IF Gone(k) THEN Deleted(N(k)) ELSE N(k)
  BY DEF Reassigned
<1> HIDE DEF N, Gone
<1>4. /\ rows' \in Table
      /\ \A k \in RowId : rows'[k].time = rs[k].time /\ (Used(rows', k) <=> Used(rs, k))
  <2>1. ASSUME NEW k \in RowId
        PROVE  rows'[k] \in Row /\ rows'[k].time = rs[k].time /\ (Used(rows', k) <=> Used(rs, k))
    BY <1>0, <1>1, <1>3, DeletedIsRow DEF Used
  <2>2. rows' = [k \in RowId |-> rows'[k]]
    BY DEF Reassigned
  <2> QED
    BY <2>1, <2>2 DEF Table
<1>5. \A k \in RowId : Live(k)' => /\ rs[k].state = "live" /\ ~Gone(k) /\ rows'[k] = N(k) /\ Live(k)
  <2> TAKE k \in RowId
  <2> HAVE Live(k)'
  <2>1. rs[k].state = "live" /\ ~Gone(k)
    BY <1>1, <1>3, DeletedIsRow DEF Live
  <2>2. Live(k)
    BY <2>1 DEF Settled, Live
  <2> QED
    BY <1>3, <2>1, <2>2
<1>6. \A k \in RowId : rs[k].state = "live" /\ ~Gone(k) => Live(k)' /\ rows'[k] = N(k)
  BY <1>1, <1>3 DEF Live
<1>7. UniqueTimes'
  BY <1>4 DEF UniqueTimes, Settled, Used
<1>8. \A k \in RowId : Live(k)' /\ rows'[k].type \in TransferType =>
          /\ rows'[k].account # rows'[k].relAccount
          /\ OtherHalf(k, rows[k].relId) /\ rows[k].relId = rows'[k].relId
          /\ rs[rows[k].relId] = rows[rows[k].relId] /\ rs[k] = rows[k]
          /\ rows'[rows[k].relId] = N(rows[k].relId) /\ Live(rows[k].relId)'
  <2> TAKE k \in RowId
  <2> HAVE Live(k)' /\ rows'[k].type \in TransferType
  <2> DEFINE m == rows[k].relId
  <2>1. rows'[k] = N(k) /\ rs[k].type \in TransferType /\ Live(k) /\ ~Gone(k)
    BY <1>1, <1>5
  <2>2. rs[k] = rows[k]
    BY <2>1 DEF Settled
  <2>3. rows[k].account # rows[k].relAccount /\ OtherHalf(k, m)
    BY <2>1, <2>2 DEF RowsInv, TransferHalvesMirror
  <2>4. m \in RowId /\ Live(m) /\ rs[m] = rows[m]
    BY <2>3 DEF OtherHalf, Settled
  <2>5. ~Gone(m)
    BY <1>2, <2>1, <2>2, <2>3, <2>4 DEF OtherHalf, Live
  <2>6. rows'[k].account # rows'[k].relAccount
    BY <1>1, <1>2, <2>1, <2>2, <2>3 DEF Live
  <2>7. rows[k].relId = rows'[k].relId
    BY <1>1, <2>1, <2>2
  <2>8. rows'[m] = N(m) /\ Live(m)'
    <3>1. rs[m].state = "live"
      BY <2>4 DEF Live
    <3>2. rows'[m] = N(m) /\ rows'[m].state = "live"
      BY <1>6, <2>4, <2>5, <3>1 DEF Live
    <3> QED
      BY <2>7, <3>2 DEF Live
  <2> QED
    BY <2>2, <2>3, <2>4, <2>6, <2>7, <2>8
<1>9. TransferHalvesMirror'
  <2> SUFFICES ASSUME NEW k \in RowId, Live(k)', rows'[k].type \in TransferType
               PROVE  rows'[k].account # rows'[k].relAccount /\ OtherHalf(k, rows[k].relId)'
    BY DEF TransferHalvesMirror
  <2>1. rows'[k] = N(k) /\ OtherHalf(k, rows[k].relId) /\ rows[k].relId = rows'[k].relId
    BY <1>5, <1>8
  <2>2. rows[k].relId \in RowId /\ rows'[rows[k].relId] = N(rows[k].relId) /\ Live(rows[k].relId)'
    BY <1>8, <2>1 DEF OtherHalf
  <2> QED
    BY <1>1, <1>8, <2>1, <2>2 DEF OtherHalf
<1>10. SentBeforeReceived'
  <2> SUFFICES ASSUME NEW k \in RowId, Live(k)', rows'[k].type = "transferOut"
               PROVE  Earlier(rows'[k].time, rows'[rows'[k].relId].time)
    BY DEF SentBeforeReceived
  <2>1. rows'[k].type \in TransferType
    BY DEF TransferType
  <2>2. /\ OtherHalf(k, rows[k].relId) /\ rows[k].relId = rows'[k].relId
        /\ rs[k] = rows[k] /\ rs[rows[k].relId] = rows[rows[k].relId] /\ Live(k) /\ rows[k].type = "transferOut"
    BY <1>1, <1>5, <1>8, <2>1
  <2>3. Earlier(rows[k].time, rows[rows[k].relId].time)
    BY <2>2 DEF RowsInv, SentBeforeReceived
  <2> QED
    BY <1>4, <2>2, <2>3 DEF OtherHalf
<1>11. OpeningBalanceFirst'
  <2> SUFFICES ASSUME NEW k \in RowId, NEW m \in RowId, Live(k)', rows'[k].type = "modifyBalance",
                      Live(m)', m # k, rows'[m].account = rows'[k].account
               PROVE  rows'[m].type # "modifyBalance" /\ Earlier(rows'[k].time, rows'[m].time)
    BY DEF OpeningBalanceFirst
  <2>1. rs[k].state = "live" /\ rs[m].state = "live" /\ rs[k].type = "modifyBalance" /\ rows'[m].type = rs[m].type
    BY <1>1, <1>5
  <2>2. rs[m].account = rs[k].account \/ {rs[m].account, rs[k].account} \subseteq {from, to}
    BY <1>1, <1>5
  <2>3. rs[m].type # "modifyBalance" /\ Earlier(rs[k].time, rs[m].time)
    BY <2>1, <2>2 DEF Settled
  <2> QED
    BY <1>4, <2>1, <2>3
<1>12. RowsNameOpenAccounts'
  <2> SUFFICES ASSUME NEW k \in RowId, Live(k)'
               PROVE  /\ rows'[k].account \in {a \in Account : status[a] = "open"}
                      /\ rows'[k].type \in TransferType => rows'[k].relAccount \in {a \in Account : status[a] = "open"}
    BY DEF RowsNameOpenAccounts
  <2>1. Live(k) /\ rows'[k] = N(k) /\ rs[k].account = rows[k].account /\ rs[k].relAccount = rows[k].relAccount
        /\ rs[k].type = rows[k].type
    BY <1>5 DEF Settled
  <2> QED
    BY <1>1, <2>1 DEF RowsInv, RowsNameOpenAccounts
<1> QED
  BY <1>4, <1>7, <1>9, <1>10, <1>11, <1>12 DEF RowsInv, Table

-----------------------------------------------------------------------------
(* Times, balances and tags of one request *)

\* A row keeps its time or gets a free one, and the time the opening balances are
\* checked against is not after it.
LEMMA NewTimeIsFree ==
    ASSUME RowsInv, NEW i \in RowId, Live(i), NEW s \in Second, NEW t \in NewTime(i, s)
    PROVE  /\ t \in Time /\ CheckedTime(i, s, t) \in Time
           /\ \A k \in RowId \ {i} : Used(rows, k) => rows[k].time # t
           /\ ~Earlier(t, CheckedTime(i, s, t))
<1>1. rows \in Table /\ rows[i].time \in Time /\ s \in Nat
  BY LedgerAssumption DEF RowsInv, Table, Row
<1>2. CASE rows[i].time.sec = s
  BY <1>1, <1>2, FirstSlotIsTime DEF NewTime, CheckedTime, RowsInv, UniqueTimes, Used, Live
<1>3. CASE rows[i].time.sec # s
  <2>1. t \in MovedTo(s) /\ CheckedTime(i, s, t) = t
    BY <1>3 DEF NewTime, CheckedTime
  <2> QED
    BY <1>1, <2>1, MovedToIsFree, EarlierIsOrder DEF FreeTime
<1> QED
  BY <1>2, <1>3

\* Openings checked against c come before a row dated at or after c.
LEMMA OpeningsComeFirst ==
    ASSUME rows \in Table, NEW A, NEW c \in Time, NEW t \in Time,
           ~OpeningAtOrAfter(A, c), ~Earlier(t, c)
    PROVE  \A k \in Openings(A) : Earlier(rows[k].time, t)
<1> TAKE k \in Openings(A)
<1>1. k \in RowId /\ rows[k].time \in Time /\ Earlier(rows[k].time, c)
  BY DEF Openings, OpeningAtOrAfter, Table, Row
<1> QED
  BY <1>1, EarlierIsOrder

\* A balance that was updated fits the column.
LEMMA BalancesFit ==
    ASSUME TypeOK, NEW u1, NEW u2, NEW u3, NEW u4,
           u1.delta \in Int, u2.delta \in Int, u3.delta \in Int, u4.delta \in Int,
           UpdateBalances(u1, u2, u3, u4)
    PROVE  balance' \in [Account -> -MaxBalance - 1 .. MaxBalance]
<1> DEFINE Fit == [Account -> -MaxBalance - 1 .. MaxBalance]
<1>1. ASSUME NEW bal \in Fit, NEW u, CanApply(bal, u)
      PROVE  Applied(bal, u) \in Fit
  BY <1>1 DEF CanApply, Applied
<1>2. balance \in Fit
  BY DEF TypeOK
<1> HIDE DEF Fit
<1>3. Applied(balance, u1) \in Fit
  BY <1>1, <1>2 DEF UpdateBalances
<1>4. Applied(Applied(balance, u1), u2) \in Fit
  BY <1>1, <1>3 DEF UpdateBalances
<1>5. Applied(Applied(Applied(balance, u1), u2), u3) \in Fit
  BY <1>1, <1>4 DEF UpdateBalances
<1>6. Applied(Applied(Applied(Applied(balance, u1), u2), u3), u4) \in Fit
  BY <1>1, <1>5 DEF UpdateBalances
<1>7. balance' \in Fit
  BY <1>6 DEF UpdateBalances
<1> QED
  BY <1>7 DEF Fit

\* What a row did to its account, and what a posting does, is an integer.
LEMMA DeltasAreIntegers ==
    ASSUME rows \in Table, NEW i \in RowId, NEW a, NEW e \in Int, NEW type, NEW x \in Int
    PROVE  /\ NoUpdate.delta \in Int /\ Signed(type, x) \in Int /\ Effect(rows[i]) \in Int
           /\ Update(a, e).delta = e
           /\ OldSource(i, a, e).delta \in Int /\ NewSource(i, a, e).delta \in Int
           /\ OldDestination(i, a, e).delta \in Int /\ NewDestination(i, a, e).delta \in Int
<1>1. rows[i].amount \in Int /\ rows[i].relAmount \in Int
  BY DEF Table, Row
<1>2. Signed(type, x) \in Int /\ Effect(rows[i]) \in Int
  BY <1>1 DEF Signed, Effect
<1>3. NoUpdate.delta \in Int /\ Update(a, e).delta = e
  BY DEF NoUpdate, Update
<1> QED
  BY <1>1, <1>2, <1>3 DEF OldSource, NewSource, OldDestination, NewDestination, Update, NoUpdate

\* Tag rows written for a time are tag rows.
LEMMA IndexesAreTagRows ==
    ASSUME TypeOK, NEW i \in RowId, NEW T \in SUBSET Tag, NEW t \in Time, NEW moved
    PROVE  /\ Indexes(i, T, t) \subseteq [row : RowId, tag : Tag, time : Time]
           /\ Retagged(i, T, t, moved) \subseteq [row : RowId, tag : Tag, time : Time]
<1>1. Indexes(i, T, t) \subseteq [row : RowId, tag : Tag, time : Time]
  BY DEF Indexes
<1> QED
  BY <1>1 DEF Retagged, TypeOK

-----------------------------------------------------------------------------
(* One lemma per operation *)

\* CreateTransaction for an income or expense keeps the invariant.
LEMMA CreateEntryKeeps ==
    ASSUME LedgerInv, NEW type \in EntryType, NEW a \in Account, NEW x \in Amount,
           NEW s \in Second, NEW T \in SUBSET Tag, CreateEntry(type, a, x, s, T)
    PROVE  LedgerInv'
<1>0. RowsInv /\ TypeOK /\ rows \in Table /\ s \in Nat /\ x \in Int
  BY LedgerAssumption DEF LedgerInv, RowsInv
<1>1. PICK i \in RowId, t \in CreatedAt(s) :
         /\ Fresh(i)
         /\ rows' = [rows EXCEPT ![i] = Posting(type, a, x, 0, NoAccount, 0, t)]
         /\ tagIndex' = tagIndex \cup Indexes(i, T, t)
  BY DEF CreateEntry
<1>2. FreeTime(rows, t) /\ t \in Time /\ ~Earlier(t, FirstSlot(s)) /\ FirstSlot(s) \in Time
  BY <1>0, CreatedAtIsFree, FirstSlotIsTime DEF FreeTime
<1>3. \A k \in Openings({a}) : Earlier(rows[k].time, t)
  BY <1>0, <1>2, OpeningsComeFirst DEF CreateEntry
<1>4. RowsInv'
  <2>1. /\ rows[i].state = "unused" /\ status'[a] = "open" /\ UNCHANGED status
        /\ type # "modifyBalance" /\ NoAccount \in Account \cup {NoAccount} /\ 0 \in Int
    BY <1>1 DEF CreateEntry, Usable, Fresh, EntryType
  <2> QED
    BY <1>0, <1>1, <1>2, <1>3, <2>1, InsertKeeps
<1>5. balance' \in [Account -> -MaxBalance - 1 .. MaxBalance]
  <2>1. Signed(type, x) \in Int /\ NoUpdate.delta \in Int /\ Update(a, Signed(type, x)).delta \in Int
    BY <1>0, <1>1, DeltasAreIntegers
  <2> QED
    BY <1>0, <2>1, BalancesFit DEF CreateEntry
<1>6. tagIndex' \subseteq [row : RowId, tag : Tag, time : Time]
  BY <1>0, <1>1, <1>2, IndexesAreTagRows DEF TypeOK
<1> QED
  BY <1>0, <1>4, <1>5, <1>6 DEF LedgerInv, TypeOK, RowsInv, Table, CreateEntry

\* CreateTransaction for a transfer keeps the invariant.
LEMMA CreateTransferKeeps ==
    ASSUME LedgerInv, NEW a \in Account, NEW x \in Amount, NEW b \in Account, NEW y \in Amount,
           NEW s \in Second, NEW T \in SUBSET Tag, CreateTransfer(a, x, b, y, s, T)
    PROVE  LedgerInv'
<1>0. RowsInv /\ TypeOK /\ rows \in Table /\ s \in Nat /\ x \in Int /\ y \in Int
  BY LedgerAssumption DEF LedgerInv, RowsInv
<1>1. PICK i \in RowId, j \in RowId, t \in CreatedAt(s) :
         /\ FreshPair(i, j)
         /\ Tick(t) \notin Taken(rows)
         /\ rows' = Halves(rows, i, j, a, x, b, y, t, Tick(t))
         /\ tagIndex' = tagIndex \cup Indexes(i, T, t)
  BY DEF CreateTransfer
<1>2. FreeTime(rows, t) /\ t \in Time /\ ~Earlier(t, FirstSlot(s)) /\ FirstSlot(s) \in Time
  BY <1>0, CreatedAtIsFree, FirstSlotIsTime DEF FreeTime
<1>3. \A k \in Openings({a, b}) : Earlier(rows[k].time, t)
  BY <1>0, <1>2, OpeningsComeFirst DEF CreateTransfer
<1>4. Tick(t) \in Time /\ Earlier(t, Tick(t)) /\ FreeTime(rows, Tick(t))
  BY <1>1, <1>2, TickIsLater, NotTakenIsFree
<1>5. rows[i].state = "unused" /\ rows[j].state = "unused" /\ i # j
  BY <1>1, LedgerAssumption DEF FreshPair, Fresh
<1>6. \A k \in RowId : Live(k) /\ rows[k].type \in TransferType => rows[k].relId \notin {i, j}
  BY <1>0, <1>5 DEF RowsInv, TransferHalvesMirror, OtherHalf, Live
<1>7. RowsInv'
  <2>1. \A k \in RowId : Used(rows, k) => rows[k].time \notin {t, Tick(t)}
    BY <1>2, <1>4 DEF FreeTime
  <2>2. \A k \in Openings({a, b}) : k \notin {i, j}
    BY <1>5 DEF Openings, Live
  <2>3. a # b /\ status[a] = "open" /\ status[b] = "open" /\ UNCHANGED status
    BY DEF CreateTransfer, TransferAllowed, Usable
  <2> QED
    BY <1>0, <1>1, <1>2, <1>3, <1>4, <1>5, <1>6, <2>1, <2>2, <2>3, HalvesKeep
<1>8. balance' \in [Account -> -MaxBalance - 1 .. MaxBalance]
  <2>1. NoUpdate.delta \in Int /\ Update(a, -x).delta \in Int /\ Update(b, y).delta \in Int
    BY <1>0 DEF NoUpdate, Update
  <2> QED
    BY <1>0, <2>1, BalancesFit DEF CreateTransfer
<1>9. tagIndex' \subseteq [row : RowId, tag : Tag, time : Time]
  BY <1>0, <1>1, <1>2, IndexesAreTagRows DEF TypeOK
<1> QED
  BY <1>0, <1>7, <1>8, <1>9 DEF LedgerInv, TypeOK, RowsInv, Table, CreateTransfer

\* CreateTransaction for a balance modification keeps the invariant.
LEMMA CreateBalanceModificationKeeps ==
    ASSUME LedgerInv, NEW a \in Account, NEW x \in Amount,
           NEW s \in Second, NEW T \in SUBSET Tag, CreateBalanceModification(a, x, s, T)
    PROVE  LedgerInv'
<1> DEFINE delta == x - balance[a]
<1>0. RowsInv /\ TypeOK /\ rows \in Table /\ s \in Nat /\ x \in Int /\ delta \in Int
  BY LedgerAssumption DEF LedgerInv, RowsInv, TypeOK
<1>1. PICK i \in RowId, t \in CreatedAt(s) :
         /\ Fresh(i)
         /\ rows' = [rows EXCEPT ![i] = Posting("modifyBalance", a, x, 0, a, delta, t)]
         /\ tagIndex' = tagIndex \cup Indexes(i, T, t)
  BY DEF CreateBalanceModification
<1>2. FreeTime(rows, t) /\ t \in Time
  BY <1>0, CreatedAtIsFree DEF FreeTime
<1>3. /\ rows[i].state = "unused" /\ status'[a] = "open" /\ UNCHANGED status /\ LiveOn(a) = {}
      /\ balance' \in [Account -> -MaxBalance - 1 .. MaxBalance]
  <2>1. NoUpdate.delta \in Int /\ Update(a, delta).delta \in Int
    BY <1>0 DEF NoUpdate, Update
  <2>2. UpdateBalances(Update(a, delta), NoUpdate, NoUpdate, NoUpdate)
    BY DEF CreateBalanceModification
  <2>3. balance' \in [Account -> -MaxBalance - 1 .. MaxBalance]
    BY <1>0, <2>1, <2>2, BalancesFit
  <2> QED
    BY <1>1, <2>3 DEF CreateBalanceModification, Usable, Fresh
<1>4. Openings({a}) = {}
  BY <1>3 DEF Openings, LiveOn, Live
<1> HIDE DEF delta
<1>5. RowsInv'
  BY <1>0, <1>1, <1>2, <1>3, <1>4, InsertKeeps
<1>6. tagIndex' \subseteq [row : RowId, tag : Tag, time : Time]
  BY <1>0, <1>1, <1>2, IndexesAreTagRows DEF TypeOK
<1> QED
  BY <1>0, <1>3, <1>5, <1>6 DEF LedgerInv, TypeOK, RowsInv, Table, CreateBalanceModification

\* CreateAccounts, with its opening balance, keeps the invariant.
LEMMA CreateAccountKeeps ==
    ASSUME LedgerInv, NEW a \in Account, NEW x \in Amount \cup {0}, NEW s \in Second, CreateAccount(a, x, s)
    PROVE  LedgerInv'
<1>0. RowsInv /\ TypeOK /\ rows \in Table /\ s \in Nat /\ x \in -MaxBalance - 1 .. MaxBalance /\ x \in Int
  BY LedgerAssumption DEF LedgerInv, RowsInv
<1>1. /\ status' = [status EXCEPT ![a] = "open"] /\ status[a] = "absent"
      /\ balance' = [balance EXCEPT ![a] = x] /\ UNCHANGED <<hidden, tagIndex>>
  BY DEF CreateAccount
<1>2. status'[a] = "open" /\ \A c \in Account : status[c] = "open" => status'[c] = "open"
  BY <1>0, <1>1 DEF TypeOK
<1>3. LiveOn(a) = {} /\ Openings({a}) = {}
  BY <1>0, <1>1 DEF LiveOn, Openings, RowsInv, RowsNameOpenAccounts, Live
<1>4. CASE x = 0
  <2>1. UNCHANGED rows
    BY <1>4 DEF CreateAccount
  <2>2. RowsNameOpenAccounts'
    BY <1>0, <1>2, <2>1 DEF RowsInv, RowsNameOpenAccounts, Live
  <2> QED
    BY <1>0, <1>1, <2>1, <2>2 DEF LedgerInv, RowsInv, TypeOK, Table, UniqueTimes,
        TransferHalvesMirror, OtherHalf, SentBeforeReceived, OpeningBalanceFirst, Live
<1>5. CASE x # 0
  <2>1. PICK i \in RowId, t \in CreatedAt(s) :
            Fresh(i) /\ rows' = [rows EXCEPT ![i] = Posting("modifyBalance", a, x, 0, a, x, t)]
    BY <1>5 DEF CreateAccount
  <2>2. FreeTime(rows, t) /\ rows[i].state = "unused"
    BY <1>0, <2>1, CreatedAtIsFree DEF Fresh
  <2>3. RowsInv'
    BY <1>0, <1>2, <1>3, <2>1, <2>2, InsertKeeps
  <2> QED
    BY <1>0, <1>1, <2>3 DEF LedgerInv, TypeOK, RowsInv, Table
<1> QED
  BY <1>4, <1>5

\* ModifyTransaction of an opening balance keeps the invariant.
LEMMA ModifyBalanceModificationKeeps ==
    ASSUME LedgerInv, NEW i \in RowId, NEW x \in Amount, NEW T \in SUBSET Tag,
           ModifyBalanceModification(i, x, T)
    PROVE  LedgerInv'
<1> DEFINE delta == x - rows[i].amount
<1>0. /\ RowsInv /\ TypeOK /\ rows \in Table /\ x \in Int
      /\ delta \in Int /\ rows[i].relAmount + delta \in Int /\ FirstSlot(rows[i].time.sec) \in Time
  <2>1. RowsInv /\ TypeOK /\ rows \in Table /\ x \in Int
    BY LedgerAssumption DEF LedgerInv, RowsInv
  <2>2. rows[i].amount \in Int /\ rows[i].relAmount \in Int /\ rows[i].time.sec \in Nat
    BY <2>1 DEF Table, Row, Time
  <2> QED
    BY <2>1, <2>2, FirstSlotIsTime
<1>1. /\ Live(i) /\ rows[i].type = "modifyBalance" /\ UNCHANGED <<status, hidden>>
      /\ rows' = [rows EXCEPT ![i] = Priced(rows[i], x, rows[i].relAmount + delta)]
      /\ tagIndex' = Retagged(i, T, FirstSlot(rows[i].time.sec), FALSE)
      /\ UpdateBalances(Update(rows[i].account, delta), NoUpdate, NoUpdate, NoUpdate)
  BY DEF ModifyBalanceModification, Modifiable
<1> HIDE DEF delta
<1>2. RowsInv'
  BY <1>0, <1>1, PriceKeeps
<1>3. balance' \in [Account -> -MaxBalance - 1 .. MaxBalance]
  <2>1. NoUpdate.delta \in Int /\ Update(rows[i].account, delta).delta \in Int
    BY <1>0 DEF NoUpdate, Update
  <2> QED
    BY <1>0, <1>1, <2>1, BalancesFit
<1>4. tagIndex' \subseteq [row : RowId, tag : Tag, time : Time]
  BY <1>0, <1>1, IndexesAreTagRows
<1> QED
  BY <1>0, <1>1, <1>2, <1>3, <1>4 DEF LedgerInv, TypeOK, RowsInv, Table

\* ModifyTransaction into an income or expense keeps the invariant.
LEMMA ModifyToEntryKeeps ==
    ASSUME LedgerInv, NEW i \in RowId, NEW type \in EntryType, NEW a \in Account, NEW x \in Amount,
           NEW s \in Second, NEW T \in SUBSET Tag, ModifyToEntry(i, type, a, x, s, T)
    PROVE  LedgerInv'
<1>0. RowsInv /\ TypeOK /\ rows \in Table /\ x \in Int
  BY LedgerAssumption DEF LedgerInv, RowsInv
<1>1. /\ Live(i) /\ rows[i].type \in EntryType \cup {"transferOut"}
      /\ status[a] = "open" /\ UNCHANGED <<status, hidden>>
      /\ UpdateBalances(OldSource(i, a, Signed(type, x)), NewSource(i, a, Signed(type, x)),
                        OldDestination(i, NoAccount, 0), NewDestination(i, NoAccount, 0))
  BY DEF ModifyToEntry, Modifiable, Usable
<1>2. PICK t \in NewTime(i, s) :
         /\ ~OpeningAtOrAfter({a}, CheckedTime(i, s, t))
         /\ rows' = [j \in RowId |->
                IF j = i THEN Posting(type, a, x, rows[i].relId, NoAccount, 0, t)
                ELSE IF rows[i].type = "transferOut" /\ j = rows[i].relId THEN Deleted(rows[j])
                ELSE rows[j]]
         /\ tagIndex' = Retagged(i, T, CheckedTime(i, s, t), s # rows[i].time.sec)
  BY DEF ModifyToEntry
<1>3. /\ t \in Time /\ CheckedTime(i, s, t) \in Time /\ ~Earlier(t, CheckedTime(i, s, t))
      /\ \A k \in RowId \ {i} : Used(rows, k) => rows[k].time # t
  BY <1>0, <1>1, NewTimeIsFree
<1>4. \A k \in Openings({a}) : Earlier(rows[k].time, t)
  BY <1>0, <1>2, <1>3, OpeningsComeFirst
<1>5. RowsInv'
  BY <1>0, <1>1, <1>2, <1>3, <1>4, EntryKeeps
<1>6. balance' \in [Account -> -MaxBalance - 1 .. MaxBalance]
  <2>1. Signed(type, x) \in Int /\ 0 \in Int
    BY <1>0, DeltasAreIntegers
  <2>2. /\ OldSource(i, a, Signed(type, x)).delta \in Int /\ NewSource(i, a, Signed(type, x)).delta \in Int
        /\ OldDestination(i, NoAccount, 0).delta \in Int /\ NewDestination(i, NoAccount, 0).delta \in Int
    BY <1>0, <2>1, DeltasAreIntegers
  <2> QED
    BY <1>0, <1>1, <2>2, BalancesFit
<1>7. tagIndex' \subseteq [row : RowId, tag : Tag, time : Time]
  BY <1>0, <1>2, <1>3, IndexesAreTagRows
<1> QED
  BY <1>0, <1>1, <1>5, <1>6, <1>7 DEF LedgerInv, TypeOK, RowsInv, Table

\* The two halves a modification writes over row i and row j keep the invariant.
LEMMA ModifiedHalvesKeep ==
    ASSUME LedgerInv, NEW i \in RowId, NEW j \in RowId, i # j, Live(i),
           \/ rows[i].type \in EntryType /\ rows[j].state = "unused"
           \/ rows[i].type = "transferOut" /\ j = rows[i].relId,
           NEW a \in Account, NEW x \in Amount, NEW b \in Account, NEW y \in Amount,
           NEW s \in Second, NEW T \in SUBSET Tag,
           TransferAllowed(a, x, b, y),
           NEW t \in NewTime(i, s), ~OpeningAtOrAfter({a, b}, CheckedTime(i, s, t)),
           NEW u \in Time, Earlier(t, u), \A k \in RowId \ {i, j} : Used(rows, k) => rows[k].time # u,
           rows' = Halves(rows, i, j, a, x, b, y, t, u),
           NEW moved, tagIndex' = Retagged(i, T, CheckedTime(i, s, t), moved),
           UpdateBalances(OldSource(i, a, -x), NewSource(i, a, -x),
                          OldDestination(i, b, y), NewDestination(i, b, y)),
           UNCHANGED <<status, hidden>>
    PROVE  LedgerInv'
<1>0. RowsInv /\ TypeOK /\ rows \in Table /\ x \in Int /\ y \in Int /\ -x \in Int
  BY LedgerAssumption DEF LedgerInv, RowsInv
<1>1. /\ t \in Time /\ CheckedTime(i, s, t) \in Time /\ ~Earlier(t, CheckedTime(i, s, t))
      /\ \A k \in RowId \ {i} : Used(rows, k) => rows[k].time # t
  BY <1>0, NewTimeIsFree
<1>2. \A k \in Openings({a, b}) : Earlier(rows[k].time, t)
  BY <1>0, <1>1, OpeningsComeFirst
<1>3. \A k \in Openings({a, b}) : k \notin {i, j}
  BY <1>0 DEF Openings, EntryType, TransferType, RowsInv, TransferHalvesMirror, OtherHalf, Live
<1>4. \A k \in RowId \ {i, j} : Live(k) /\ rows[k].type \in TransferType => rows[k].relId \notin {i, j}
  BY <1>0 DEF EntryType, TransferType, RowsInv, TransferHalvesMirror, OtherHalf, Live
<1>5. RowsInv'
  <2>1. a # b /\ status[a] = "open" /\ status[b] = "open"
    BY DEF TransferAllowed, Usable
  <2>2. \A k \in RowId \ {i, j} : Used(rows, k) => rows[k].time \notin {t, u}
    BY <1>1
  <2> QED
    BY <1>0, <1>1, <1>2, <1>3, <1>4, <2>1, <2>2, HalvesKeep
<1>6. balance' \in [Account -> -MaxBalance - 1 .. MaxBalance]
  <2>1. /\ OldSource(i, a, -x).delta \in Int /\ NewSource(i, a, -x).delta \in Int
        /\ OldDestination(i, b, y).delta \in Int /\ NewDestination(i, b, y).delta \in Int
    BY <1>0, DeltasAreIntegers
  <2> QED
    BY <1>0, <2>1, BalancesFit
<1>7. tagIndex' \subseteq [row : RowId, tag : Tag, time : Time]
  BY <1>0, <1>1, IndexesAreTagRows
<1> QED
  BY <1>0, <1>5, <1>6, <1>7 DEF LedgerInv, TypeOK, RowsInv, Table

\* ModifyTransaction of an income or expense into a transfer keeps the invariant.
LEMMA ModifyEntryToTransferKeeps ==
    ASSUME LedgerInv, NEW i \in RowId, NEW a \in Account, NEW x \in Amount, NEW b \in Account,
           NEW y \in Amount, NEW s \in Second, NEW T \in SUBSET Tag,
           ModifyEntryToTransfer(i, a, x, b, y, s, T)
    PROVE  LedgerInv'
<1>0. RowsInv /\ rows \in Table /\ s \in Nat
  BY LedgerAssumption DEF LedgerInv, RowsInv
<1>1. /\ Live(i) /\ rows[i].type \in EntryType /\ TransferAllowed(a, x, b, y)
      /\ UNCHANGED <<status, hidden>>
      /\ UpdateBalances(OldSource(i, a, -x), NewSource(i, a, -x),
                        OldDestination(i, b, y), NewDestination(i, b, y))
  BY DEF ModifyEntryToTransfer, Modifiable
<1>2. PICK j \in RowId, t \in NewTime(i, s) :
         /\ Fresh(j) /\ ~OpeningAtOrAfter({a, b}, CheckedTime(i, s, t))
         /\ tagIndex' = Retagged(i, T, CheckedTime(i, s, t), s # rows[i].time.sec)
         /\ \E u \in AfterLatest([rows EXCEPT ![i] = Dated(@, t)], s) \ Taken([rows EXCEPT ![i] = Dated(@, t)]) :
               rows' = Halves(rows, i, j, a, x, b, y, t, u)
  BY DEF ModifyEntryToTransfer
<1> DEFINE updated == [rows EXCEPT ![i] = Dated(@, t)]
<1>3. PICK u \in AfterLatest(updated, s) \ Taken(updated) : rows' = Halves(rows, i, j, a, x, b, y, t, u)
  BY <1>2
<1>4. t \in Time /\ rows[j].state = "unused" /\ i # j
  BY <1>0, <1>1, <1>2, NewTimeIsFree DEF Fresh, Live
<1>5. /\ updated \in Table /\ updated[i].time = t /\ Used(updated, i)
      /\ \A k \in RowId \ {i} : updated[k] = rows[k]
  BY <1>0, <1>1, <1>4, DatedIsRow DEF Table, Used, Live
<1>6. t.sec = s
  BY <1>0, <1>2, MovedToKeepsSecond DEF NewTime
<1> HIDE DEF updated
<1>7. u \in Time /\ Earlier(t, u)
  BY <1>5, <1>6, AfterLatestIsLast
<1>8. \A k \in RowId \ {i, j} : Used(rows, k) => rows[k].time # u
  BY <1>3, <1>5, <1>7, NotTakenIsFree DEF FreeTime, Used
<1> DEFINE moved == s # rows[i].time.sec
<1>9. /\ j \in RowId /\ t \in NewTime(i, s)
      /\ ~OpeningAtOrAfter({a, b}, CheckedTime(i, s, t))
      /\ tagIndex' = Retagged(i, T, CheckedTime(i, s, t), moved)
      /\ rows' = Halves(rows, i, j, a, x, b, y, t, u)
  BY <1>2, <1>3
<1> HIDE DEF moved
<1>10. rows[i].type \in EntryType /\ rows[j].state = "unused"
  BY <1>1, <1>4
<1> QED
  BY <1>1, <1>4, <1>7, <1>8, <1>9, <1>10, ModifiedHalvesKeep

\* ModifyTransaction of a transfer, which stays one, keeps the invariant.
LEMMA ModifyTransferKeeps ==
    ASSUME LedgerInv, NEW i \in RowId, NEW a \in Account, NEW x \in Amount, NEW b \in Account,
           NEW y \in Amount, NEW s \in Second, NEW T \in SUBSET Tag,
           ModifyTransfer(i, a, x, b, y, s, T)
    PROVE  LedgerInv'
<1> DEFINE j == rows[i].relId
           moved == s # rows[i].time.sec
<1>0. RowsInv /\ rows \in Table /\ s \in Nat
  BY LedgerAssumption DEF LedgerInv, RowsInv
<1>1. /\ Live(i) /\ rows[i].type = "transferOut" /\ TransferAllowed(a, x, b, y)
      /\ UNCHANGED <<status, hidden>>
      /\ UpdateBalances(OldSource(i, a, -x), NewSource(i, a, -x),
                        OldDestination(i, b, y), NewDestination(i, b, y))
  BY DEF ModifyTransfer, Modifiable
<1>2. PICK t \in NewTime(i, s) :
         /\ ~OpeningAtOrAfter({a, b}, CheckedTime(i, s, t))
         /\ tagIndex' = Retagged(i, T, CheckedTime(i, s, t), moved)
         /\ LET u == IF moved THEN Tick(t) ELSE rows[j].time
            IN  /\ moved => \A k \in RowId \ {j} : rows[k].state # "unused" => rows[k].time # u
                /\ rows' = Halves(rows, i, j, a, x, b, y, t, u)
  BY DEF ModifyTransfer
<1> DEFINE u == IF moved THEN Tick(t) ELSE rows[j].time
<1>3. OtherHalf(i, j) /\ j \in RowId /\ i # j /\ Live(j)
  BY <1>0, <1>1 DEF RowsInv, TransferHalvesMirror, OtherHalf, TransferType
<1>4. t \in Time
  BY <1>0, <1>1, NewTimeIsFree
<1>5. u \in Time /\ Earlier(t, u)
  <2>1. CASE moved
    BY <1>4, <2>1, TickIsLater
  <2>2. CASE ~moved
    BY <1>0, <1>1, <1>3, <2>2 DEF NewTime, RowsInv, SentBeforeReceived, Table, Row
  <2> QED
    BY <2>1, <2>2
<1>6. \A k \in RowId \ {i, j} : Used(rows, k) => rows[k].time # u
  <2>1. CASE moved
    BY <1>2, <2>1 DEF Used
  <2>2. CASE ~moved
    BY <1>0, <1>3, <2>2 DEF RowsInv, UniqueTimes, Used, Live
  <2> QED
    BY <2>1, <2>2
<1>7. rows' = Halves(rows, i, j, a, x, b, y, t, u)
  BY <1>2
<1> HIDE DEF u, moved
<1> QED
  BY <1>1, <1>2, <1>3, <1>5, <1>6, <1>7, ModifiedHalvesKeep

\* DeleteTransaction, which takes both halves of a transfer, keeps the invariant.
LEMMA DeleteTransactionKeeps ==
    ASSUME LedgerInv, NEW i \in RowId, DeleteTransaction(i)
    PROVE  LedgerInv'
<1> DEFINE gone == IF rows[i].type = "transferOut" THEN {i, rows[i].relId} ELSE {i}
<1>0. RowsInv /\ TypeOK /\ rows \in Table /\ 0 \in Int
  BY DEF LedgerInv, RowsInv
<1>1. /\ Live(i) /\ rows[i].type # "transferIn" /\ UNCHANGED <<status, hidden>>
      /\ rows' = [j \in RowId |-> IF j \in gone THEN Deleted(rows[j]) ELSE rows[j]]
      /\ tagIndex' = {e \in tagIndex : e.row # i}
      /\ UpdateBalances(Update(rows[i].account, -Effect(rows[i])), OldDestination(i, NoAccount, 0), NoUpdate, NoUpdate)
  BY DEF DeleteTransaction, Modifiable
<1>2. gone \in SUBSET RowId /\ \A k \in gone : Live(k)
  BY <1>0, <1>1 DEF RowsInv, TransferHalvesMirror, OtherHalf, TransferType
<1>3. \A k \in RowId \ gone : Live(k) /\ rows[k].type \in TransferType => rows[k].relId \notin gone
  BY <1>0, <1>1 DEF RowsInv, TransferHalvesMirror, OtherHalf, TransferType
<1> HIDE DEF gone
<1>4. RowsInv'
  BY <1>0, <1>1, <1>2, <1>3, DropKeeps
<1>5. balance' \in [Account -> -MaxBalance - 1 .. MaxBalance]
  <2>1. Effect(rows[i]) \in Int
    BY <1>0, DeltasAreIntegers
  <2>2. Update(rows[i].account, -Effect(rows[i])).delta \in Int
    BY <2>1 DEF Update
  <2>3. OldDestination(i, NoAccount, 0).delta \in Int /\ NoUpdate.delta \in Int
    BY <1>0, DeltasAreIntegers
  <2> QED
    BY <1>0, <1>1, <2>2, <2>3, BalancesFit
<1> QED
  BY <1>0, <1>1, <1>4, <1>5 DEF LedgerInv, TypeOK, RowsInv, Table

\* DeleteAllTransactions keeps the invariant.
LEMMA DeleteAllTransactionsKeeps ==
    ASSUME LedgerInv, NEW alsoAccounts \in BOOLEAN, DeleteAllTransactions(alsoAccounts)
    PROVE  LedgerInv'
<1> DEFINE G == {k \in RowId : Live(k)}
<1>0. RowsInv /\ TypeOK /\ 0 \in -MaxBalance - 1 .. MaxBalance
  BY LedgerAssumption DEF LedgerInv
<1>1. rows' = [k \in RowId |-> IF k \in G THEN Deleted(rows[k]) ELSE rows[k]]
  BY DEF DeleteAllTransactions
<1>2. RowsInv'
  <2>1. G \in SUBSET RowId /\ (\A k \in G : Live(k)) /\ (\A k \in RowId \ G : ~Live(k))
    OBVIOUS
  <2> HIDE DEF G
  <2> QED
    BY <1>0, <1>1, <2>1, DropKeeps
<1>3. /\ balance' \in [Account -> -MaxBalance - 1 .. MaxBalance]
      /\ status' \in [Account -> {"absent", "open", "deleted"}]
      /\ tagIndex' = {} /\ UNCHANGED hidden
  BY <1>0 DEF DeleteAllTransactions, TypeOK
<1> QED
  BY <1>0, <1>2, <1>3 DEF LedgerInv, TypeOK, RowsInv, Table

\* DeleteAccount, allowed only while nothing but its opening balance is posted to it,
\* keeps the invariant.
LEMMA DeleteAccountKeeps ==
    ASSUME LedgerInv, NEW a \in Account, DeleteAccount(a)
    PROVE  LedgerInv'
<1> DEFINE G == LiveOn(a)
<1>0. RowsInv /\ TypeOK /\ 0 \in -MaxBalance - 1 .. MaxBalance /\ rows \in Table
  BY LedgerAssumption DEF LedgerInv, RowsInv
<1>1. /\ rows' = [k \in RowId |-> IF k \in G THEN Deleted(rows[k]) ELSE rows[k]]
      /\ status' = [status EXCEPT ![a] = "deleted"] /\ balance' = [balance EXCEPT ![a] = 0]
      /\ UNCHANGED <<hidden, tagIndex>> /\ LiveOn(a) = Openings({a})
  BY DEF DeleteAccount, OnlyOpening
<1>2. G \in SUBSET RowId /\ \A k \in G : Live(k) /\ rows[k].type = "modifyBalance"
  BY <1>1 DEF LiveOn, Openings
<1>3. \A k \in RowId : Live(k) /\ rows[k].type \in TransferType =>
          OtherHalf(k, rows[k].relId) /\ rows[k].relId \notin G /\ rows[k].relAccount # a
  BY <1>0, <1>2 DEF RowsInv, TransferHalvesMirror, OtherHalf, TransferType, LiveOn
<1>4. \A k \in RowId \ G : Live(k) =>
          /\ status'[rows[k].account] = status[rows[k].account]
          /\ rows[k].type \in TransferType => status'[rows[k].relAccount] = status[rows[k].relAccount]
  BY <1>0, <1>1, <1>3 DEF TypeOK, LiveOn, RowsInv, RowsNameOpenAccounts
<1> HIDE DEF G
<1>5. RowsInv'
  BY <1>0, <1>1, <1>2, <1>3, <1>4, DropKeeps
<1> QED
  BY <1>0, <1>1, <1>5 DEF LedgerInv, TypeOK, RowsInv, Table

\* MoveAllTransactionsBetweenAccounts keeps the invariant.
LEMMA MoveAllTransactionsKeeps ==
    ASSUME LedgerInv, NEW from \in Account, NEW to \in Account,
           MoveAllTransactionsBetweenAccounts(from, to)
    PROVE  LedgerInv'
<1>0. RowsInv /\ TypeOK
  BY DEF LedgerInv
<1>1. PICK rs \in SettledOpenings(from, to) : rows' = Reassigned(rs, from, to)
  BY DEF MoveAllTransactionsBetweenAccounts
<1>2. /\ from # to /\ status[to] = "open" /\ UNCHANGED <<status, hidden, tagIndex>>
      /\ CanApply(balance, Update(to, balance[from]))
      /\ balance' = [balance EXCEPT ![to] = @ + balance[from], ![from] = 0]
  BY DEF MoveAllTransactionsBetweenAccounts, Usable
<1>3. RowsInv'
  <2>1. Settled(rs, from, to)
    BY <1>0, <1>1, <1>2, SettledOpeningsAreSettled
  <2> QED
    BY <1>0, <1>1, <1>2, <2>1, ReassignedKeeps
<1>4. balance' \in [Account -> -MaxBalance - 1 .. MaxBalance]
  BY <1>0, <1>2, LedgerAssumption DEF TypeOK, CanApply, Update
<1> QED
  BY <1>0, <1>2, <1>3, <1>4 DEF LedgerInv, TypeOK, RowsInv, Table

\* Hiding an account and tagging a row leave the rows and the accounts alone.
LEMMA UnpostedKeeps ==
    ASSUME LedgerInv, UNCHANGED <<status, rows, balance>>,
           hidden' \in [Account -> BOOLEAN],
           tagIndex' \subseteq [row : RowId, tag : Tag, time : Time]
    PROVE  LedgerInv'
BY DEF LedgerInv, RowsInv, TypeOK, Table, UniqueTimes, TransferHalvesMirror, OtherHalf,
       SentBeforeReceived, OpeningBalanceFirst, RowsNameOpenAccounts, Live

-----------------------------------------------------------------------------
(* The invariant *)

\* A ledger without accounts and rows satisfies the invariant.
LEMMA InitKeeps == Init => LedgerInv
<1> SUFFICES ASSUME Init PROVE LedgerInv
  OBVIOUS
<1>1. Unused \in Row /\ Unused.state = "unused"
  BY FirstSlotIsTime DEF Unused, Row, RowType
<1>2. rows \in Table /\ \A i \in RowId : rows[i].state = "unused"
  BY <1>1 DEF Init, Table
<1>3. RowsInv
  BY <1>2 DEF RowsInv, UniqueTimes, TransferHalvesMirror, SentBeforeReceived,
      OpeningBalanceFirst, RowsNameOpenAccounts, Live
<1>4. TypeOK
  BY <1>2, LedgerAssumption DEF TypeOK, Init, Table
<1> QED
  BY <1>3, <1>4 DEF LedgerInv

\* Every operation of the two services keeps the invariant.
LEMMA NextKeeps == LedgerInv /\ [Next]_vars => LedgerInv'
<1> SUFFICES ASSUME LedgerInv, [Next]_vars PROVE LedgerInv'
  OBVIOUS
<1>0. TypeOK /\ rows \in Table
  BY DEF LedgerInv, RowsInv
<1>1. ASSUME NEW a \in Account, NEW x \in Amount \cup {0}, NEW s \in Second, CreateAccount(a, x, s)
      PROVE  LedgerInv'
  BY <1>1, CreateAccountKeeps
<1>2. ASSUME NEW a \in Account, NEW h \in BOOLEAN, HideAccount(a, h)
      PROVE  LedgerInv'
  BY <1>0, <1>2, UnpostedKeeps DEF HideAccount, TypeOK
<1>3. ASSUME NEW a \in Account, DeleteAccount(a)
      PROVE  LedgerInv'
  BY <1>3, DeleteAccountKeeps
<1>4. ASSUME NEW a \in Account, NEW x \in Amount, NEW s \in Second, NEW T \in SUBSET Tag,
             CreateBalanceModification(a, x, s, T)
      PROVE  LedgerInv'
  BY <1>4, CreateBalanceModificationKeeps
<1>5. ASSUME NEW a \in Account, NEW type \in EntryType, NEW x \in Amount, NEW s \in Second,
             NEW T \in SUBSET Tag, CreateEntry(type, a, x, s, T)
      PROVE  LedgerInv'
  BY <1>5, CreateEntryKeeps
<1>6. ASSUME NEW a \in Account, NEW b \in Account, MoveAllTransactionsBetweenAccounts(a, b)
      PROVE  LedgerInv'
  BY <1>6, MoveAllTransactionsKeeps
<1>7. ASSUME NEW a \in Account, NEW b \in Account, NEW x \in Amount, NEW y \in Amount, NEW s \in Second,
             NEW T \in SUBSET Tag, CreateTransfer(a, x, b, y, s, T)
      PROVE  LedgerInv'
  BY <1>7, CreateTransferKeeps
<1>8. ASSUME NEW i \in RowId, DeleteTransaction(i)
      PROVE  LedgerInv'
  BY <1>8, DeleteTransactionKeeps
<1>9. ASSUME NEW i \in RowId, NEW T \in SUBSET Tag, BatchAddTags(i, T)
      PROVE  LedgerInv'
  <2>1. tagIndex' \subseteq [row : RowId, tag : Tag, time : Time]
    <3>1. rows[i].time \in Time /\ T \ TagsOf(i) \in SUBSET Tag
      BY <1>0 DEF Table, Row
    <3> QED
      BY <1>0, <1>9, <3>1, IndexesAreTagRows DEF BatchAddTags, TypeOK
  <2> QED
    BY <1>0, <1>9, <2>1, UnpostedKeeps DEF BatchAddTags, TypeOK
<1>10. ASSUME NEW i \in RowId, NEW T \in SUBSET Tag, BatchRemoveTags(i, T)
       PROVE  LedgerInv'
  BY <1>0, <1>10, UnpostedKeeps DEF BatchRemoveTags, TypeOK
<1>11. ASSUME NEW i \in RowId, NEW T \in SUBSET Tag, NEW x \in Amount, ModifyBalanceModification(i, x, T)
       PROVE  LedgerInv'
  BY <1>11, ModifyBalanceModificationKeeps
<1>12. ASSUME NEW i \in RowId, NEW T \in SUBSET Tag, NEW a \in Account, NEW x \in Amount, NEW s \in Second,
              NEW type \in EntryType, ModifyToEntry(i, type, a, x, s, T)
       PROVE  LedgerInv'
  BY <1>12, ModifyToEntryKeeps
<1>13. ASSUME NEW i \in RowId, NEW T \in SUBSET Tag, NEW a \in Account, NEW x \in Amount, NEW s \in Second,
              NEW b \in Account, NEW y \in Amount, ModifyEntryToTransfer(i, a, x, b, y, s, T)
       PROVE  LedgerInv'
  BY <1>13, ModifyEntryToTransferKeeps
<1>14. ASSUME NEW i \in RowId, NEW T \in SUBSET Tag, NEW a \in Account, NEW x \in Amount, NEW s \in Second,
              NEW b \in Account, NEW y \in Amount, ModifyTransfer(i, a, x, b, y, s, T)
       PROVE  LedgerInv'
  BY <1>14, ModifyTransferKeeps
<1>15. ASSUME NEW alsoAccounts \in BOOLEAN, DeleteAllTransactions(alsoAccounts)
       PROVE  LedgerInv'
  BY <1>15, DeleteAllTransactionsKeeps
<1>16. CASE UNCHANGED vars
  BY <1>0, <1>16, UnpostedKeeps DEF vars, TypeOK
<1> QED
  BY <1>1, <1>2, <1>3, <1>4, <1>5, <1>6, <1>7, <1>8, <1>9, <1>10, <1>11, <1>12, <1>13, <1>14, <1>15, <1>16
  DEF Next

\* In every reachable state of the ledger the inductive invariant holds.
THEOREM LedgerIsInductive == Spec => []LedgerInv
BY InitKeeps, NextKeeps, PTL DEF Spec

\* The tables are well typed and no stored balance leaves int64, since every update
\* of a balance is checked before it is written.
THEOREM LedgerIsTyped == Spec => []TypeOK
<1>1. LedgerInv => TypeOK
  BY DEF LedgerInv
<1> QED
  BY <1>1, LedgerIsInductive, PTL

\* Whatever retries and moves choose the times, the unique index on the transaction
\* time is never asked to hold a duplicate.
THEOREM LedgerTimesAreUnique == Spec => []UniqueTimes
<1>1. LedgerInv => UniqueTimes
  BY DEF LedgerInv, RowsInv
<1> QED
  BY <1>1, LedgerIsInductive, PTL

\* No sequence of creations, edits, deletions and moves parts the two halves of a transfer.
THEOREM LedgerTransfersMirror == Spec => []TransferHalvesMirror
<1>1. LedgerInv => TransferHalvesMirror
  BY DEF LedgerInv, RowsInv
<1> QED
  BY <1>1, LedgerIsInductive, PTL

\* The receiving half of a transfer is always dated after the sending half.
THEOREM LedgerSendsFirst == Spec => []SentBeforeReceived
<1>1. LedgerInv => SentBeforeReceived
  BY DEF LedgerInv, RowsInv
<1> QED
  BY <1>1, LedgerIsInductive, PTL

\* The opening balance stays the first row of its account, moves and merges included.
THEOREM LedgerOpensFirst == Spec => []OpeningBalanceFirst
<1>1. LedgerInv => OpeningBalanceFirst
  BY DEF LedgerInv, RowsInv
<1> QED
  BY <1>1, LedgerIsInductive, PTL

\* No live row ever names an account that is closed.
THEOREM LedgerNamesOpenAccounts == Spec => []RowsNameOpenAccounts
<1>1. LedgerInv => RowsNameOpenAccounts
  BY DEF LedgerInv, RowsInv
<1> QED
  BY <1>1, LedgerIsInductive, PTL

-----------------------------------------------------------------------------
(* Deleted rows *)

\* No step of the ledger writes a deleted row.
LEMMA NextLeavesDeleted ==
    ASSUME LedgerInv, Next, NEW k \in RowId, rows[k].state = "deleted"
    PROVE  rows'[k] = rows[k]
<1>0. rows \in Table
  BY DEF LedgerInv, RowsInv
<1>1. ASSUME NEW a \in Account, NEW x \in Amount \cup {0}, NEW s \in Second, CreateAccount(a, x, s)
      PROVE  rows'[k] = rows[k]
  BY <1>0, <1>1 DEF CreateAccount, Fresh, Table
<1>2. ASSUME NEW a \in Account, DeleteAccount(a)
      PROVE  rows'[k] = rows[k]
  BY <1>0, <1>2 DEF DeleteAccount, LiveOn, Live, Table
<1>3. ASSUME NEW a \in Account, NEW x \in Amount, NEW s \in Second, NEW T \in SUBSET Tag,
             CreateBalanceModification(a, x, s, T)
      PROVE  rows'[k] = rows[k]
  BY <1>0, <1>3 DEF CreateBalanceModification, Fresh, Table
<1>4. ASSUME NEW a \in Account, NEW type \in EntryType, NEW x \in Amount, NEW s \in Second,
             NEW T \in SUBSET Tag, CreateEntry(type, a, x, s, T)
      PROVE  rows'[k] = rows[k]
  BY <1>0, <1>4 DEF CreateEntry, Fresh, Table
<1>5. ASSUME NEW a \in Account, NEW b \in Account, MoveAllTransactionsBetweenAccounts(a, b)
      PROVE  rows'[k] = rows[k]
  <2>1. PICK rs \in SettledOpenings(a, b) : rows' = Reassigned(rs, a, b)
    BY <1>5 DEF MoveAllTransactionsBetweenAccounts
  <2>2. Settled(rs, a, b)
    BY <1>5, <2>1, SettledOpeningsAreSettled DEF MoveAllTransactionsBetweenAccounts, LedgerInv
  <2>3. rs[k] = rows[k]
    BY <2>2 DEF Settled, Live
  <2> QED
    BY <2>1, <2>3 DEF Reassigned
<1>6. ASSUME NEW a \in Account, NEW b \in Account, NEW x \in Amount, NEW y \in Amount, NEW s \in Second,
             NEW T \in SUBSET Tag, CreateTransfer(a, x, b, y, s, T)
      PROVE  rows'[k] = rows[k]
  BY <1>0, <1>6 DEF CreateTransfer, FreshPair, Fresh, Halves, Table
<1>7. ASSUME NEW i \in RowId, DeleteTransaction(i)
      PROVE  rows'[k] = rows[k]
  BY <1>0, <1>7 DEF DeleteTransaction, Modifiable, Live, Table
<1>8. ASSUME NEW i \in RowId, NEW T \in SUBSET Tag, NEW x \in Amount, ModifyBalanceModification(i, x, T)
      PROVE  rows'[k] = rows[k]
  BY <1>0, <1>8 DEF ModifyBalanceModification, Modifiable, Live, Table
<1>9. ASSUME NEW i \in RowId, NEW T \in SUBSET Tag, NEW a \in Account, NEW x \in Amount, NEW s \in Second,
             NEW type \in EntryType, ModifyToEntry(i, type, a, x, s, T)
      PROVE  rows'[k] = rows[k]
  BY <1>0, <1>9 DEF ModifyToEntry, Modifiable, Live, Table
<1>10. ASSUME NEW i \in RowId, NEW T \in SUBSET Tag, NEW a \in Account, NEW x \in Amount, NEW s \in Second,
              NEW b \in Account, NEW y \in Amount, ModifyEntryToTransfer(i, a, x, b, y, s, T)
       PROVE  rows'[k] = rows[k]
  BY <1>0, <1>10 DEF ModifyEntryToTransfer, Modifiable, Live, Fresh, Halves, Table
<1>11. ASSUME NEW i \in RowId, NEW T \in SUBSET Tag, NEW a \in Account, NEW x \in Amount, NEW s \in Second,
              NEW b \in Account, NEW y \in Amount, ModifyTransfer(i, a, x, b, y, s, T)
       PROVE  rows'[k] = rows[k]
  BY <1>0, <1>11 DEF ModifyTransfer, Modifiable, Live, Halves, Table
<1>12. ASSUME NEW alsoAccounts \in BOOLEAN, DeleteAllTransactions(alsoAccounts)
       PROVE  rows'[k] = rows[k]
  BY <1>0, <1>12 DEF DeleteAllTransactions, Live, Table
<1>13. ASSUME NEW a \in Account, NEW h \in BOOLEAN, HideAccount(a, h)
       PROVE  rows'[k] = rows[k]
  BY <1>13 DEF HideAccount
<1>14. ASSUME NEW i \in RowId, NEW T \in SUBSET Tag, BatchAddTags(i, T) \/ BatchRemoveTags(i, T)
       PROVE  rows'[k] = rows[k]
  BY <1>14 DEF BatchAddTags, BatchRemoveTags
<1> QED
  BY <1>1, <1>2, <1>3, <1>4, <1>5, <1>6, <1>7, <1>8, <1>9, <1>10, <1>11, <1>12, <1>13, <1>14 DEF Next

\* Deletion is final: what a deleted row says of its time, its accounts and its
\* other half is never written again.
THEOREM LedgerDeletedRowsStay == Spec => DeletedRowsStay
<1>1. LedgerInv /\ [Next]_vars => [\A i \in RowId : rows[i].state = "deleted" => rows'[i] = rows[i]]_vars
  BY NextLeavesDeleted DEF vars
<1> QED
  BY <1>1, LedgerIsInductive, PTL DEF Spec, DeletedRowsStay

-----------------------------------------------------------------------------
(* Hidden accounts *)

\* Settling the opening balances of two accounts writes no other row, and clears none.
LEMMA SettledChangesOpenings ==
    ASSUME RowsInv, NEW from \in Account, NEW to \in Account, from # to,
           NEW rs \in SettledOpenings(from, to)
    PROVE  \A k \in RowId : /\ k \notin Openings({from, to}) => rs[k] = rows[k]
                            /\ rows[k].state # "unused" => rs[k].state # "unused"
<1> DEFINE B == Openings({from, to})
<1>1. CASE B = {}
  BY <1>1 DEF SettledOpenings
<1>2. CASE B # {}
  <2>1. PICK e \in B, l \in B :
            rs \in IF B = {e} THEN MoveOpening(e, IF rows[e].account = from THEN to ELSE from)
                   ELSE IF B = {e, l} /\ rows[e].account = rows[l].account THEN {rows}
                   ELSE IF B = {e, l} /\ Earlier(rows[e].time, rows[l].time) THEN MergeOpenings(e, l)
                   ELSE {}
    BY <1>2 DEF SettledOpenings
  <2>2. rows \in Table /\ \A k \in B : k \in RowId /\ rows[k] \in Row /\ rows[k].state = "live"
    BY DEF RowsInv, Table, Openings, Live
  <2> HIDE DEF B
  <2>3. TAKE k \in RowId
  <2>4. rs = rows => (k \notin B => rs[k] = rows[k]) /\ (rows[k].state # "unused" => rs[k].state # "unused")
    OBVIOUS
  <2>5. ASSUME NEW other, rs \in MoveOpening(e, other)
        PROVE  (k \notin B => rs[k] = rows[k]) /\ (rows[k].state # "unused" => rs[k].state # "unused")
    <3>1. rs = rows \/ \E t : rs = [rows EXCEPT ![e] = Dated(rows[e], t)]
      BY <2>5 DEF MoveOpening
    <3>2. \A t : Dated(rows[e], t).state = "live"
      BY <2>2 DEF Dated, Row
    <3> QED
      BY <2>2, <3>1, <3>2 DEF Table
  <2>6. ASSUME rs \in MergeOpenings(e, l), e # l
        PROVE  (k \notin B => rs[k] = rows[k]) /\ (rows[k].state # "unused" => rs[k].state # "unused")
    <3>1. \E x, y : rs = [rows EXCEPT ![e] = Priced(rows[e], x, y), ![l] = Deleted(rows[l])]
      BY <2>6 DEF MergeOpenings
    <3>2. \A x, y : Priced(rows[e], x, y).state = "live"
      BY <2>2 DEF Priced, Row
    <3>3. Deleted(rows[l]).state = "deleted"
      BY <2>2 DEF Deleted, Row
    <3> QED
      BY <2>2, <2>6, <3>1, <3>2, <3>3 DEF Table
  <2>7. CASE B = {e}
    BY <2>1, <2>5, <2>7 DEF B
  <2>8. CASE B # {e}
    <3>1. e # l => rs = rows \/ rs \in MergeOpenings(e, l)
      BY <2>1, <2>8
    <3>2. e = l => rs = rows
      BY <2>1, <2>8
    <3> QED
      BY <2>4, <2>6, <3>1, <3>2 DEF B
  <2> QED
    BY <2>7, <2>8
<1> QED
  BY <1>1, <1>2

\* An account that no update names keeps its balance.
LEMMA BalanceStands ==
    ASSUME TypeOK, NEW c \in Account, NEW u1, NEW u2, NEW u3, NEW u4,
           UpdateBalances(u1, u2, u3, u4),
           u1.delta = 0 \/ u1.account # c, u2.delta = 0 \/ u2.account # c,
           u3.delta = 0 \/ u3.account # c, u4.delta = 0 \/ u4.account # c
    PROVE  balance'[c] = balance[c]
<1>1. ASSUME NEW bal, NEW u, DOMAIN bal = Account, u.delta = 0 \/ u.account # c
      PROVE  DOMAIN Applied(bal, u) = Account /\ Applied(bal, u)[c] = bal[c]
  BY <1>1 DEF Applied
<1> DEFINE b1 == Applied(balance, u1)
           b2 == Applied(b1, u2)
           b3 == Applied(b2, u3)
           b4 == Applied(b3, u4)
<1>2. DOMAIN balance = Account
  BY DEF TypeOK
<1>3. DOMAIN b1 = Account /\ b1[c] = balance[c]
  BY <1>1, <1>2
<1> HIDE DEF b1
<1>4. DOMAIN b2 = Account /\ b2[c] = b1[c]
  BY <1>1, <1>3
<1> HIDE DEF b2
<1>5. DOMAIN b3 = Account /\ b3[c] = b2[c]
  BY <1>1, <1>4
<1> HIDE DEF b3
<1>6. b4[c] = b3[c]
  BY <1>1, <1>5
<1> HIDE DEF b4
<1>7. balance' = b4
  BY DEF UpdateBalances, b1, b2, b3, b4
<1> QED
  BY <1>3, <1>4, <1>5, <1>6, <1>7

\* While account c stays hidden, no step but the clearing of all data touches it.
Stands(c) == balance'[c] = balance[c] /\ LiveOn(c)' = LiveOn(c)

\* The set of an account's live rows stands when each row does.
LEMMA RowsStand ==
    ASSUME NEW c, \A k \in RowId : Live(k)' /\ rows'[k].account = c <=> Live(k) /\ rows[k].account = c
    PROVE  LiveOn(c)' = LiveOn(c)
BY DEF LiveOn

\* A new posting to another account is none to c.
LEMMA InsertStands ==
    ASSUME rows \in Table, NEW c, NEW i \in RowId, rows[i].state = "unused", NEW r,
           r.account # c, rows' = [rows EXCEPT ![i] = r]
    PROVE  LiveOn(c)' = LiveOn(c)
<1>1. rows'[i] = r /\ \A k \in RowId \ {i} : rows'[k] = rows[k]
  BY DEF Table
<1> QED
  BY <1>1, RowsStand DEF Live

\* Two halves written over rows that are not on c, for two other accounts.
LEMMA HalvesStand ==
    ASSUME rows \in Table, NEW c, NEW i \in RowId, NEW j \in RowId,
           ~(Live(i) /\ rows[i].account = c), ~(Live(j) /\ rows[j].account = c),
           NEW a, NEW b, a # c, b # c, NEW x, NEW y, NEW t, NEW u,
           rows' = Halves(rows, i, j, a, x, b, y, t, u)
    PROVE  LiveOn(c)' = LiveOn(c)
<1>1. /\ rows'[i].account # c /\ rows'[j].account # c
      /\ \A k \in RowId \ {i, j} : rows'[k] = rows[k]
  BY DEF Table, Halves, Posting
<1> QED
  BY <1>1, RowsStand DEF Live

\* No update that an edit of row i makes names a hidden account.
LEMMA EditSparesHidden ==
    ASSUME NEW c \in Account, NEW i \in RowId, NEW a, NEW b, NEW e, NEW y,
           rows[i].account # c, rows[i].type = "transferOut" => rows[i].relAccount # c,
           a # c, b # c
    PROVE  /\ OldSource(i, a, e).account # c
           /\ NewSource(i, a, e).delta = 0 \/ NewSource(i, a, e).account # c
           /\ OldDestination(i, b, y).delta = 0 \/ OldDestination(i, b, y).account # c
           /\ NewDestination(i, b, y).delta = 0 \/ NewDestination(i, b, y).account # c
           /\ NoUpdate.delta = 0
BY DEF OldSource, NewSource, OldDestination, NewDestination, Update, NoUpdate

\* The halves of a transfer that may be edited are not on a hidden account.
LEMMA ModifiableIsVisible ==
    ASSUME RowsInv, NEW c \in Account, hidden[c], NEW i \in RowId, NEW types, Modifiable(i, types)
    PROVE  /\ rows[i].account # c
           /\ rows[i].type = "transferOut" =>
                /\ rows[i].relAccount # c /\ rows[i].relId \in RowId /\ rows[rows[i].relId].account # c
<1>1. rows[i].account # c /\ (rows[i].type = "transferOut" => rows[i].relAccount # c)
  BY DEF Modifiable, Usable
<1>2. rows[i].type = "transferOut" =>
          rows[i].relId \in RowId /\ rows[rows[i].relId].account = rows[i].relAccount
  BY DEF RowsInv, TransferHalvesMirror, OtherHalf, TransferType, Modifiable
<1> QED
  BY <1>1, <1>2

\* No step but the clearing of all data touches an account that stays hidden: each
\* refuses a hidden account, on either side of a transfer.
LEMMA NextSparesHidden ==
    ASSUME LedgerInv, Next, NEW c \in Account, hidden[c], hidden'[c], status'[c] = status[c],
           \E i \in RowId : Live(i)'
    PROVE  Stands(c)
<1>0. TypeOK /\ RowsInv /\ rows \in Table /\ NoUpdate.delta = 0
      /\ \A a, d : Update(a, d).account = a /\ Update(a, d).delta = d
  BY DEF LedgerInv, RowsInv, NoUpdate, Update
<1>1. ASSUME NEW a \in Account, NEW x \in Amount \cup {0}, NEW s \in Second, CreateAccount(a, x, s)
      PROVE  Stands(c)
  <2>1. a # c /\ balance'[c] = balance[c]
    BY <1>0, <1>1 DEF CreateAccount, TypeOK
  <2>2. CASE x = 0
    BY <1>1, <2>1, <2>2, RowsStand DEF CreateAccount, Stands, LiveOn, Live
  <2>3. CASE x # 0
    <3>1. PICK i \in RowId, t \in CreatedAt(s) :
              Fresh(i) /\ rows' = [rows EXCEPT ![i] = Posting("modifyBalance", a, x, 0, a, x, t)]
      BY <1>1, <2>3 DEF CreateAccount
    <3>2. rows[i].state = "unused" /\ Posting("modifyBalance", a, x, 0, a, x, t).account # c
      BY <2>1, <3>1 DEF Fresh, Posting
    <3> QED
      BY <1>0, <2>1, <3>1, <3>2, InsertStands DEF Stands
  <2> QED
    BY <2>2, <2>3
<1>2. ASSUME NEW a \in Account, NEW h \in BOOLEAN, HideAccount(a, h)
      PROVE  Stands(c)
  BY <1>2 DEF HideAccount, Stands, LiveOn, Live
<1>3. ASSUME NEW a \in Account, DeleteAccount(a)
      PROVE  Stands(c)
  <2>1. a # c /\ balance'[c] = balance[c]
    BY <1>0, <1>3 DEF DeleteAccount, TypeOK
  <2>2. \A k \in RowId : rows'[k] = IF Live(k) /\ rows[k].account = a THEN Deleted(rows[k]) ELSE rows[k]
    BY <1>3 DEF DeleteAccount, LiveOn
  <2>3. \A k \in RowId : Deleted(rows[k]).state # "live"
    BY <1>0, DeletedIsRow DEF Table
  <2> QED
    BY <2>1, <2>2, <2>3, RowsStand DEF Stands, Live
<1>4. ASSUME NEW a \in Account, NEW x \in Amount, NEW s \in Second, NEW T \in SUBSET Tag,
             CreateBalanceModification(a, x, s, T)
      PROVE  Stands(c)
  <2>1. PICK i \in RowId, t \in CreatedAt(s) :
            Fresh(i) /\ rows' = [rows EXCEPT ![i] = Posting("modifyBalance", a, x, 0, a, x - balance[a], t)]
    BY <1>4 DEF CreateBalanceModification
  <2>2. a # c /\ UpdateBalances(Update(a, x - balance[a]), NoUpdate, NoUpdate, NoUpdate)
    BY <1>4 DEF CreateBalanceModification, Usable
  <2>3. rows[i].state = "unused" /\ Posting("modifyBalance", a, x, 0, a, x - balance[a], t).account # c
    BY <2>1, <2>2 DEF Fresh, Posting
  <2>4. LiveOn(c)' = LiveOn(c)
    BY <1>0, <2>1, <2>3, InsertStands
  <2>5. balance'[c] = balance[c]
    BY <1>0, <2>2, BalanceStands
  <2> QED
    BY <2>4, <2>5 DEF Stands
<1>5. ASSUME NEW a \in Account, NEW type \in EntryType, NEW x \in Amount, NEW s \in Second,
             NEW T \in SUBSET Tag, CreateEntry(type, a, x, s, T)
      PROVE  Stands(c)
  <2>1. PICK i \in RowId, t \in CreatedAt(s) :
            Fresh(i) /\ rows' = [rows EXCEPT ![i] = Posting(type, a, x, 0, NoAccount, 0, t)]
    BY <1>5 DEF CreateEntry
  <2>2. a # c /\ UpdateBalances(Update(a, Signed(type, x)), NoUpdate, NoUpdate, NoUpdate)
    BY <1>5 DEF CreateEntry, Usable
  <2>3. rows[i].state = "unused" /\ Posting(type, a, x, 0, NoAccount, 0, t).account # c
    BY <2>1, <2>2 DEF Fresh, Posting
  <2>4. LiveOn(c)' = LiveOn(c)
    BY <1>0, <2>1, <2>3, InsertStands
  <2>5. balance'[c] = balance[c]
    BY <1>0, <2>2, BalanceStands
  <2> QED
    BY <2>4, <2>5 DEF Stands
<1>6. ASSUME NEW a \in Account, NEW b \in Account, MoveAllTransactionsBetweenAccounts(a, b)
      PROVE  Stands(c)
  <2>1. PICK rs \in SettledOpenings(a, b) : rows' = Reassigned(rs, a, b)
    BY <1>6 DEF MoveAllTransactionsBetweenAccounts
  <2>2. a # c /\ b # c /\ a # b /\ balance'[c] = balance[c]
    BY <1>0, <1>6 DEF MoveAllTransactionsBetweenAccounts, Usable, TypeOK
  <2>3. \A k \in RowId : Live(k) /\ rows[k].account = c => rs[k] = rows[k]
    BY <1>0, <2>1, <2>2, SettledChangesOpenings DEF Openings
  <2>4. rs \in Table /\ \A k \in RowId : rs[k].account = rows[k].account /\ (~Live(k) => rs[k] = rows[k])
    BY <1>0, <2>1, <2>2, SettledOpeningsAreSettled DEF Settled
  <2>5. ASSUME NEW k \in RowId
        PROVE  Live(k)' /\ rows'[k].account = c <=> Live(k) /\ rows[k].account = c
    <3>1. rs[k] \in Row
      BY <2>4 DEF Table
    <3>2. /\ Renamed(rs[k], a, b) \in Row
          /\ Renamed(rs[k], a, b).state = rs[k].state
          /\ Renamed(rs[k], a, b).account = IF rs[k].account = a THEN b ELSE rs[k].account
      <4>1. \A r \in Row : /\ Renamed(r, a, b) \in Row
                          /\ Renamed(r, a, b).state = r.state
                          /\ Renamed(r, a, b).account = IF r.account = a THEN b ELSE r.account
        BY ONLY <1>6, RenamedIsRow
      <4> QED
        BY ONLY <3>1, <4>1
    <3>3. rows'[k] = IF rs[k].state # "live" THEN rs[k]
                     ELSE IF WithinAccount(Renamed(rs[k], a, b), b) THEN Deleted(Renamed(rs[k], a, b))
                     ELSE Renamed(rs[k], a, b)
      BY <2>1 DEF Reassigned
    <3>4. CASE rs[k].state # "live"
      BY <2>3, <3>3, <3>4 DEF Live
    <3>5. CASE rs[k].state = "live" /\ WithinAccount(Renamed(rs[k], a, b), b)
      <4>1. rs[k].account # c
        BY <2>2, <3>2, <3>5 DEF WithinAccount
      <4>2. Deleted(Renamed(rs[k], a, b)).state # "live"
        BY <3>2, DeletedIsRow
      <4> QED
        BY <2>4, <3>3, <3>5, <4>1, <4>2 DEF Live
    <3>6. CASE rs[k].state = "live" /\ ~WithinAccount(Renamed(rs[k], a, b), b)
      <4>1. Live(k) /\ Live(k)' /\ rows'[k].account = IF rs[k].account = a THEN b ELSE rs[k].account
        BY <2>4, <3>2, <3>3, <3>6 DEF Live
      <4> QED
        BY <2>2, <2>4, <4>1
    <3> QED
      BY <3>4, <3>5, <3>6
  <2> QED
    BY <2>2, <2>5, RowsStand DEF Stands
<1>7. ASSUME NEW a \in Account, NEW b \in Account, NEW x \in Amount, NEW y \in Amount, NEW s \in Second,
             NEW T \in SUBSET Tag, CreateTransfer(a, x, b, y, s, T)
      PROVE  Stands(c)
  <2>1. PICK i \in RowId, j \in RowId, t \in CreatedAt(s) :
            FreshPair(i, j) /\ rows' = Halves(rows, i, j, a, x, b, y, t, Tick(t))
    BY <1>7 DEF CreateTransfer
  <2>2. a # c /\ b # c /\ UpdateBalances(Update(a, -x), Update(b, y), NoUpdate, NoUpdate)
    BY <1>7 DEF CreateTransfer, TransferAllowed, Usable
  <2>3. ~Live(i) /\ ~Live(j)
    BY <2>1 DEF FreshPair, Fresh, Live
  <2>4. LiveOn(c)' = LiveOn(c)
    BY <1>0, <2>1, <2>2, <2>3, HalvesStand
  <2> QED
    BY <1>0, <2>2, <2>4, BalanceStands DEF Stands
<1>8. ASSUME NEW i \in RowId, DeleteTransaction(i)
      PROVE  Stands(c)
  <2> DEFINE gone == IF rows[i].type = "transferOut" THEN {i, rows[i].relId} ELSE {i}
  <2>1. /\ Modifiable(i, RowType \ {"transferIn"})
        /\ UpdateBalances(Update(rows[i].account, -Effect(rows[i])), OldDestination(i, NoAccount, 0), NoUpdate, NoUpdate)
        /\ \A k \in RowId : rows'[k] = IF k \in gone THEN Deleted(rows[k]) ELSE rows[k]
    BY <1>8 DEF DeleteTransaction
  <2>2. \A k \in gone : k \in RowId /\ rows[k].account # c
    BY <1>0, <2>1, ModifiableIsVisible
  <2>3. OldDestination(i, NoAccount, 0).delta = 0 \/ OldDestination(i, NoAccount, 0).account # c
    BY <1>0, <2>1, ModifiableIsVisible DEF OldDestination
  <2>4. rows[i].account # c
    BY <2>2
  <2> HIDE DEF gone
  <2>5. \A k \in RowId : Deleted(rows[k]).state # "live"
    BY <1>0, DeletedIsRow DEF Table
  <2>6. LiveOn(c)' = LiveOn(c)
    BY <2>1, <2>2, <2>5, RowsStand DEF Live
  <2> QED
    BY <1>0, <2>1, <2>3, <2>4, <2>6, BalanceStands DEF Stands
<1>9. ASSUME NEW i \in RowId, NEW T \in SUBSET Tag, NEW x \in Amount, ModifyBalanceModification(i, x, T)
      PROVE  Stands(c)
  <2> DEFINE delta == x - rows[i].amount
  <2>1. /\ Modifiable(i, {"modifyBalance"})
        /\ rows' = [rows EXCEPT ![i] = Priced(rows[i], x, rows[i].relAmount + delta)]
        /\ UpdateBalances(Update(rows[i].account, delta), NoUpdate, NoUpdate, NoUpdate)
    BY <1>9 DEF ModifyBalanceModification
  <2>2. rows[i].account # c
    BY <1>0, <2>1, ModifiableIsVisible
  <2> HIDE DEF delta
  <2>3. LiveOn(c)' = LiveOn(c)
    BY <1>0, <2>1, <2>2, RowsStand DEF Live, Table, Row, Priced
  <2> QED
    BY <1>0, <2>1, <2>2, <2>3, BalanceStands DEF Stands
<1>10. ASSUME NEW i \in RowId, NEW T \in SUBSET Tag, NEW a \in Account, NEW x \in Amount, NEW s \in Second,
              NEW type \in EntryType, ModifyToEntry(i, type, a, x, s, T)
       PROVE  Stands(c)
  <2> DEFINE e == Signed(type, x)
  <2>1. /\ Modifiable(i, EntryType \cup {"transferOut"}) /\ a # c /\ NoAccount # c
        /\ UpdateBalances(OldSource(i, a, e), NewSource(i, a, e),
                          OldDestination(i, NoAccount, 0), NewDestination(i, NoAccount, 0))
    BY <1>10, LedgerAssumption DEF ModifyToEntry, Usable
  <2>2. PICK t :
            \A j \in RowId : rows'[j] =
                IF j = i THEN Posting(type, a, x, rows[i].relId, NoAccount, 0, t)
                ELSE IF rows[i].type = "transferOut" /\ j = rows[i].relId THEN Deleted(rows[j])
                ELSE rows[j]
    BY <1>10 DEF ModifyToEntry
  <2>3. rows[i].account # c
        /\ (rows[i].type = "transferOut" => rows[i].relAccount # c /\ rows[rows[i].relId].account # c)
    BY <1>0, <2>1, ModifiableIsVisible
  <2> HIDE DEF e
  <2>4. balance'[c] = balance[c]
    BY <1>0, <2>1, <2>3, EditSparesHidden, BalanceStands
  <2>5. \A k \in RowId : Deleted(rows[k]).state # "live"
    BY <1>0, DeletedIsRow DEF Table
  <2>6. Posting(type, a, x, rows[i].relId, NoAccount, 0, t).account # c
    BY <2>1 DEF Posting
  <2>7. LiveOn(c)' = LiveOn(c)
    BY <2>2, <2>3, <2>5, <2>6, RowsStand DEF Live
  <2> QED
    BY <2>4, <2>7 DEF Stands
<1>11. ASSUME NEW i \in RowId, NEW T \in SUBSET Tag, NEW a \in Account, NEW x \in Amount, NEW s \in Second,
              NEW b \in Account, NEW y \in Amount, ModifyEntryToTransfer(i, a, x, b, y, s, T)
       PROVE  Stands(c)
  <2>1. /\ Modifiable(i, EntryType) /\ a # c /\ b # c
        /\ UpdateBalances(OldSource(i, a, -x), NewSource(i, a, -x),
                          OldDestination(i, b, y), NewDestination(i, b, y))
    BY <1>11 DEF ModifyEntryToTransfer, TransferAllowed, Usable
  <2>2. PICK j, t, u : j \in RowId /\ Fresh(j) /\ rows' = Halves(rows, i, j, a, x, b, y, t, u)
    BY <1>11 DEF ModifyEntryToTransfer
  <2>3. rows[i].account # c /\ (rows[i].type = "transferOut" => rows[i].relAccount # c) /\ ~Live(j)
    BY <1>0, <2>1, <2>2, ModifiableIsVisible DEF Fresh, Live
  <2>4. balance'[c] = balance[c]
    BY <1>0, <2>1, <2>3, EditSparesHidden, BalanceStands
  <2>5. LiveOn(c)' = LiveOn(c)
    BY <1>0, <2>1, <2>2, <2>3, HalvesStand
  <2> QED
    BY <2>4, <2>5 DEF Stands
<1>12. ASSUME NEW i \in RowId, NEW T \in SUBSET Tag, NEW a \in Account, NEW x \in Amount, NEW s \in Second,
              NEW b \in Account, NEW y \in Amount, ModifyTransfer(i, a, x, b, y, s, T)
       PROVE  Stands(c)
  <2>1. /\ Modifiable(i, {"transferOut"}) /\ a # c /\ b # c
        /\ UpdateBalances(OldSource(i, a, -x), NewSource(i, a, -x),
                          OldDestination(i, b, y), NewDestination(i, b, y))
    BY <1>12 DEF ModifyTransfer, TransferAllowed, Usable
  <2>2. PICK t, u : rows' = Halves(rows, i, rows[i].relId, a, x, b, y, t, u)
    BY <1>12 DEF ModifyTransfer
  <2>3. rows[i].account # c /\ rows[i].relAccount # c
        /\ rows[i].relId \in RowId /\ rows[rows[i].relId].account # c
    BY <1>0, <2>1, ModifiableIsVisible DEF Modifiable
  <2>4. balance'[c] = balance[c]
    BY <1>0, <2>1, <2>3, EditSparesHidden, BalanceStands
  <2>5. LiveOn(c)' = LiveOn(c)
    BY <1>0, <2>1, <2>2, <2>3, HalvesStand
  <2> QED
    BY <2>4, <2>5 DEF Stands
<1>13. ASSUME NEW alsoAccounts \in BOOLEAN, DeleteAllTransactions(alsoAccounts)
       PROVE  Stands(c)
  <2>1. \A i \in RowId : rows'[i].state # "live"
    BY <1>0, <1>13, DeletedIsRow DEF DeleteAllTransactions, Live, Table
  <2> QED
    BY <2>1 DEF Live
<1>14. ASSUME NEW i \in RowId, NEW T \in SUBSET Tag, BatchAddTags(i, T) \/ BatchRemoveTags(i, T)
       PROVE  Stands(c)
  BY <1>14 DEF BatchAddTags, BatchRemoveTags, Stands, LiveOn, Live
<1> QED
  BY <1>1, <1>2, <1>3, <1>4, <1>5, <1>6, <1>7, <1>8, <1>9, <1>10, <1>11, <1>12, <1>13, <1>14 DEF Next

\* A hidden account is out of every request's reach: not its balance and not one
\* of its rows changes until it is shown again, closed, or all data is cleared.
THEOREM LedgerHiddenAccountsStand == Spec => HiddenAccountsStand
<1>1. LedgerInv /\ [Next]_vars =>
        [\A a \in Account :
            hidden[a] /\ hidden'[a] /\ status'[a] = status[a] /\ (\E i \in RowId : Live(i)') =>
                balance'[a] = balance[a] /\ LiveOn(a)' = LiveOn(a)]_vars
  BY NextSparesHidden DEF Stands, vars
<1> QED
  BY <1>1, LedgerIsInductive, PTL DEF Spec, HiddenAccountsStand

-----------------------------------------------------------------------------
(* Tag indexes *)

\* What tag index row e needs of the row r it points at: a row that was written, not the
\* receiving half of a transfer, and, unless an opening balance, dated in the second e says.
Follows(e, r) ==
    /\ r.state # "unused"
    /\ r.state = "live" => r.type # "transferIn"
    /\ r.state = "live" /\ r.type # "modifyBalance" => e.time.sec = r.time.sec

OncePerTag == \A e, f \in tagIndex : f.row = e.row /\ f.tag = e.tag => f = e

TagInv == (\A e \in tagIndex : Follows(e, rows[e.row])) /\ OncePerTag

\* A step that writes no new tag index row need only keep what the rows it changes owe.
LEMMA FewerTags ==
    ASSUME LedgerInv, TagInv, tagIndex' \subseteq tagIndex,
           \A e \in tagIndex' : Follows(e, rows[e.row]) => Follows(e, rows'[e.row])
    PROVE  TagInv'
BY DEF TagInv, OncePerTag, Follows

\* The tag index rows of a created row i, which had none.
LEMMA CreatedTagsFollow ==
    ASSUME LedgerInv, TagInv, NEW i \in RowId, rows[i].state = "unused",
           NEW T \in SUBSET Tag, NEW t \in Time, tagIndex' = tagIndex \cup Indexes(i, T, t),
           rows'[i].type # "transferIn", rows'[i].state = "live", rows'[i].time = t,
           \A k \in RowId : rows[k].state # "unused" => rows'[k] = rows[k]
    PROVE  TagInv'
<1>1. \A e \in tagIndex : e.row \in RowId /\ e.row # i /\ rows'[e.row] = rows[e.row]
  BY DEF TagInv, Follows, LedgerInv, TypeOK
<1>2. \A e \in Indexes(i, T, t) : e.row = i /\ e.time = t
  BY DEF Indexes
<1>3. \A e, f \in Indexes(i, T, t) : e.tag = f.tag => e = f
  BY DEF Indexes
<1>4. \A e \in tagIndex' : Follows(e, rows'[e.row])
  BY <1>1, <1>2 DEF TagInv, Follows
<1>5. OncePerTag'
  BY <1>1, <1>2, <1>3 DEF TagInv, OncePerTag
<1> QED
  BY <1>4, <1>5 DEF TagInv

\* The tag index rows of an edited row i that is dated in the second of t: written
\* anew for t, or kept because neither the tags nor the second changed.
LEMMA EditedTagsFollow ==
    ASSUME LedgerInv, TagInv, NEW i \in RowId, NEW T \in SUBSET Tag, NEW t \in Time, NEW moved \in BOOLEAN,
           Live(i), rows[i].type # "transferIn",
           tagIndex' = Retagged(i, T, t, moved),
           rows'[i].state = "live", rows'[i].type # "transferIn",
           rows'[i].type # "modifyBalance" => rows[i].type # "modifyBalance" /\ rows'[i].time.sec = t.sec,
           ~moved => rows[i].time.sec = t.sec,
           \A k \in RowId \ {i} : \A e \in tagIndex :
               Follows(e, rows[k]) => Follows(e, rows'[k])
    PROVE  TagInv'
<1>1. \A e \in tagIndex : e.row \in RowId /\ Follows(e, rows[e.row])
  BY DEF TagInv, LedgerInv, TypeOK
<1>2. /\ \A e \in Indexes(i, T, t) : e.row = i /\ e.time = t
      /\ \A e, f \in Indexes(i, T, t) : e.tag = f.tag => e = f
  BY DEF Indexes
<1>3. CASE T # TagsOf(i) \/ moved
  <2>1. tagIndex' = {e \in tagIndex : e.row # i} \cup Indexes(i, T, t)
    BY <1>3 DEF Retagged
  <2>2. \A e \in tagIndex' : Follows(e, rows'[e.row])
    BY <1>1, <1>2, <2>1 DEF Follows
  <2>3. OncePerTag'
    BY <1>2, <2>1 DEF TagInv, OncePerTag
  <2> QED
    BY <2>2, <2>3 DEF TagInv
<1>4. CASE ~(T # TagsOf(i) \/ moved)
  <2>1. tagIndex' = tagIndex
    BY <1>4 DEF Retagged
  <2>2. \A e \in tagIndex : e.row = i => Follows(e, rows'[i])
    BY <1>1, <1>4 DEF Follows, Live
  <2> QED
    BY <1>1, <2>1, <2>2 DEF TagInv, OncePerTag
<1> QED
  BY <1>3, <1>4

\* The time a request ends with is in the second it asked for, and so is the row.
LEMMA CheckedTimeKeepsSecond ==
    ASSUME RowsInv, NEW i \in RowId, Live(i), NEW s \in Second, NEW t \in NewTime(i, s)
    PROVE  t.sec = s /\ CheckedTime(i, s, t).sec = s
BY MovedToKeepsSecond, LedgerAssumption DEF NewTime, CheckedTime, FirstSlot, RowsInv

\* The two halves written over row i and row j: i keeps its tags, j has none.
LEMMA HalvesFollow ==
    ASSUME rows \in Table, NEW i \in RowId, NEW j \in RowId, i # j,
           NEW a, NEW b, NEW x, NEW y, NEW t, NEW u, rows' = Halves(rows, i, j, a, x, b, y, t, u),
           \/ rows[j].state = "unused"
           \/ rows[j].state = "live" /\ rows[j].type = "transferIn"
    PROVE  /\ rows'[i].state = "live" /\ rows'[i].type = "transferOut" /\ rows'[i].time = t
           /\ \A k \in RowId \ {i} : \A e : Follows(e, rows[k]) => Follows(e, rows'[k])
<1>1. /\ rows'[i] = Posting("transferOut", a, x, j, b, y, t)
      /\ \A k \in RowId \ {i, j} : rows'[k] = rows[k]
  BY DEF Halves, Table
<1> QED
  BY <1>1 DEF Posting, Follows

\* Every operation that writes a row, a time or a tag keeps the tag index in step.
LEMMA NextKeepsTags == LedgerInv /\ TagInv /\ [Next]_vars => TagInv'
<1> SUFFICES ASSUME LedgerInv, TagInv, [Next]_vars PROVE TagInv'
  OBVIOUS
<1>0. /\ TypeOK /\ RowsInv /\ rows \in Table
      /\ \A e \in tagIndex : e.row \in RowId /\ Follows(e, rows[e.row])
      /\ \A k \in RowId : rows[k] \in Row /\ rows[k].time \in Time
      /\ \A k \in RowId : \A e : Follows(e, rows[k]) => Follows(e, Deleted(rows[k]))
  <2>1. /\ TypeOK /\ RowsInv /\ rows \in Table
        /\ \A e \in tagIndex : e.row \in RowId /\ Follows(e, rows[e.row])
    BY DEF LedgerInv, RowsInv, TagInv, TypeOK
  <2>2. \A k \in RowId : rows[k] \in Row /\ rows[k].time \in Time
    BY <2>1 DEF Table, Row
  <2>3. \A k \in RowId : Deleted(rows[k]).state = "deleted"
    BY <2>2, DeletedIsRow
  <2> QED
    BY <2>1, <2>2, <2>3 DEF Follows
<1>1. ASSUME NEW a \in Account, NEW x \in Amount \cup {0}, NEW s \in Second, CreateAccount(a, x, s)
      PROVE  TagInv'
  <2>1. \A k \in RowId : rows[k].state # "unused" => rows'[k] = rows[k]
    BY <1>0, <1>1 DEF CreateAccount, Fresh, Table
  <2> QED
    BY <1>0, <1>1, <2>1, FewerTags DEF CreateAccount, Follows
<1>2. ASSUME NEW a \in Account, NEW h \in BOOLEAN, HideAccount(a, h)
      PROVE  TagInv'
  BY <1>2, FewerTags DEF HideAccount
<1>3. ASSUME NEW a \in Account, DeleteAccount(a)
      PROVE  TagInv'
  <2>1. \A k \in RowId : rows'[k] = rows[k] \/ rows'[k] = Deleted(rows[k])
    BY <1>3 DEF DeleteAccount
  <2>2. tagIndex' = tagIndex
    BY <1>3 DEF DeleteAccount
  <2> QED
    BY <1>0, <2>1, <2>2, FewerTags
<1>4. ASSUME NEW a \in Account, NEW x \in Amount, NEW s \in Second, NEW T \in SUBSET Tag,
             CreateBalanceModification(a, x, s, T)
      PROVE  TagInv'
  <2>1. PICK i \in RowId, t \in CreatedAt(s) :
            /\ Fresh(i)
            /\ rows' = [rows EXCEPT ![i] = Posting("modifyBalance", a, x, 0, a, x - balance[a], t)]
            /\ tagIndex' = tagIndex \cup Indexes(i, T, t)
    BY <1>4 DEF CreateBalanceModification
  <2>2. t \in Time
    BY <1>0, CreatedAtIsFree, LedgerAssumption DEF FreeTime
  <2>3. /\ rows[i].state = "unused" /\ rows'[i] = Posting("modifyBalance", a, x, 0, a, x - balance[a], t)
        /\ \A k \in RowId : rows[k].state # "unused" => rows'[k] = rows[k]
    BY <1>0, <2>1 DEF Fresh, Table
  <2>4. rows'[i].type # "transferIn" /\ rows'[i].state = "live" /\ rows'[i].time = t
    BY <2>3 DEF Posting
  <2> QED
    BY <2>1, <2>2, <2>3, <2>4, CreatedTagsFollow
<1>5. ASSUME NEW a \in Account, NEW type \in EntryType, NEW x \in Amount, NEW s \in Second,
             NEW T \in SUBSET Tag, CreateEntry(type, a, x, s, T)
      PROVE  TagInv'
  <2>1. PICK i \in RowId, t \in CreatedAt(s) :
            /\ Fresh(i)
            /\ rows' = [rows EXCEPT ![i] = Posting(type, a, x, 0, NoAccount, 0, t)]
            /\ tagIndex' = tagIndex \cup Indexes(i, T, t)
    BY <1>5 DEF CreateEntry
  <2>2. t \in Time
    BY <1>0, CreatedAtIsFree, LedgerAssumption DEF FreeTime
  <2>3. /\ rows[i].state = "unused" /\ rows'[i] = Posting(type, a, x, 0, NoAccount, 0, t)
        /\ \A k \in RowId : rows[k].state # "unused" => rows'[k] = rows[k]
    BY <1>0, <2>1 DEF Fresh, Table
  <2>4. rows'[i].type # "transferIn" /\ rows'[i].state = "live" /\ rows'[i].time = t
    BY <2>3 DEF Posting, EntryType
  <2> QED
    BY <2>1, <2>2, <2>3, <2>4, CreatedTagsFollow
<1>6. ASSUME NEW a \in Account, NEW b \in Account, MoveAllTransactionsBetweenAccounts(a, b)
      PROVE  TagInv'
  <2>1. PICK rs \in SettledOpenings(a, b) : rows' = Reassigned(rs, a, b)
    BY <1>6 DEF MoveAllTransactionsBetweenAccounts
  <2>2. a # b /\ tagIndex' = tagIndex
    BY <1>6 DEF MoveAllTransactionsBetweenAccounts
  <2>3. Settled(rs, a, b) /\ rs \in Table
    BY <1>0, <2>1, <2>2, SettledOpeningsAreSettled DEF Settled
  <2>4. \A k \in RowId : \/ rs[k] = rows[k]
                         \/ Live(k) /\ rs[k].type = "modifyBalance" /\ rs[k].state # "unused"
    <3>1. \A k \in RowId : /\ k \notin Openings({a, b}) => rs[k] = rows[k]
                           /\ rows[k].state # "unused" => rs[k].state # "unused"
      BY <1>0, <2>1, <2>2, SettledChangesOpenings
    <3>2. \A k \in Openings({a, b}) : Live(k) /\ rows[k].type = "modifyBalance" /\ rows[k].state # "unused"
      BY DEF Openings, Live
    <3>3. \A k \in RowId : rs[k].type = rows[k].type
      BY <2>3 DEF Settled
    <3> QED
      BY <3>1, <3>2, <3>3
  <2>5. ASSUME NEW k \in RowId, NEW e, Follows(e, rows[k])
        PROVE  Follows(e, rows'[k])
    <3>1. Follows(e, rs[k])
      BY <2>4, <2>5 DEF Follows
    <3>2. rs[k] \in Row
      BY <2>3 DEF Table
    <3>3. /\ Renamed(rs[k], a, b) \in Row /\ Renamed(rs[k], a, b).time = rs[k].time
          /\ Renamed(rs[k], a, b).state = rs[k].state /\ Renamed(rs[k], a, b).type = rs[k].type
      BY <3>2, RenamedIsRow
    <3>4. Deleted(Renamed(rs[k], a, b)).state = "deleted"
      BY <3>3, DeletedIsRow
    <3>5. rows'[k] \in {rs[k], Renamed(rs[k], a, b), Deleted(Renamed(rs[k], a, b))}
      BY <2>1 DEF Reassigned
    <3> QED
      BY <3>1, <3>3, <3>4, <3>5 DEF Follows
  <2> QED
    BY <1>0, <2>2, <2>5, FewerTags
<1>7. ASSUME NEW a \in Account, NEW b \in Account, NEW x \in Amount, NEW y \in Amount, NEW s \in Second,
             NEW T \in SUBSET Tag, CreateTransfer(a, x, b, y, s, T)
      PROVE  TagInv'
  <2>1. PICK i \in RowId, j \in RowId, t \in CreatedAt(s) :
            /\ FreshPair(i, j)
            /\ rows' = Halves(rows, i, j, a, x, b, y, t, Tick(t))
            /\ tagIndex' = tagIndex \cup Indexes(i, T, t)
    BY <1>7 DEF CreateTransfer
  <2>2. t \in Time
    BY <1>0, CreatedAtIsFree, LedgerAssumption DEF FreeTime
  <2>3. rows[i].state = "unused" /\ rows[j].state = "unused" /\ i # j
    BY <2>1, LedgerAssumption DEF FreshPair, Fresh
  <2>4. /\ rows'[i].state = "live" /\ rows'[i].type = "transferOut" /\ rows'[i].time = t
        /\ \A k \in RowId \ {i, j} : rows'[k] = rows[k]
    BY <1>0, <2>1, <2>3 DEF Halves, Posting, Table
  <2> QED
    BY <2>1, <2>2, <2>3, <2>4, CreatedTagsFollow
<1>8. ASSUME NEW i \in RowId, DeleteTransaction(i)
      PROVE  TagInv'
  <2>1. \A k \in RowId : rows'[k] = rows[k] \/ rows'[k] = Deleted(rows[k])
    BY <1>8 DEF DeleteTransaction
  <2>2. tagIndex' \subseteq tagIndex
    BY <1>8 DEF DeleteTransaction
  <2> QED
    BY <1>0, <2>1, <2>2, FewerTags
<1>9. ASSUME NEW i \in RowId, NEW T \in SUBSET Tag, BatchAddTags(i, T)
      PROVE  TagInv'
  <2> DEFINE D == Indexes(i, T \ TagsOf(i), rows[i].time)
  <2>1. tagIndex' = tagIndex \cup D /\ UNCHANGED rows /\ Live(i) /\ rows[i].type # "transferIn"
    BY <1>9 DEF BatchAddTags
  <2>2. /\ \A e \in D : e.row = i /\ e.time = rows[i].time /\ e.tag \notin TagsOf(i)
        /\ \A e, f \in D : e.tag = f.tag => e = f
    BY DEF Indexes
  <2>3. \A e \in tagIndex : e.row = i => e.tag \in TagsOf(i)
    BY DEF TagsOf
  <2> HIDE DEF D
  <2>4. OncePerTag'
    BY <2>1, <2>2, <2>3 DEF TagInv, OncePerTag
  <2> QED
    BY <1>0, <2>1, <2>2, <2>4 DEF TagInv, Follows, Live
<1>10. ASSUME NEW i \in RowId, NEW T \in SUBSET Tag, BatchRemoveTags(i, T)
       PROVE  TagInv'
  BY <1>10, FewerTags DEF BatchRemoveTags
<1>11. ASSUME NEW i \in RowId, NEW T \in SUBSET Tag, NEW x \in Amount, ModifyBalanceModification(i, x, T)
       PROVE  TagInv'
  <2>1. /\ Live(i) /\ rows[i].type = "modifyBalance"
        /\ \E y : rows' = [rows EXCEPT ![i] = Priced(rows[i], x, y)]
        /\ tagIndex' = Retagged(i, T, FirstSlot(rows[i].time.sec), FALSE)
    BY <1>11 DEF ModifyBalanceModification, Modifiable
  <2>2. /\ rows'[i].state = "live" /\ rows'[i].type = "modifyBalance"
        /\ \A k \in RowId \ {i} : rows'[k] = rows[k]
    BY <1>0, <2>1 DEF Table, Row, Priced, Live
  <2>3. FirstSlot(rows[i].time.sec) \in Time /\ FirstSlot(rows[i].time.sec).sec = rows[i].time.sec
    BY <1>0, FirstSlotIsTime DEF Time
  <2> QED
    BY <2>1, <2>2, <2>3, EditedTagsFollow
<1>12. ASSUME NEW i \in RowId, NEW T \in SUBSET Tag, NEW a \in Account, NEW x \in Amount, NEW s \in Second,
              NEW type \in EntryType, ModifyToEntry(i, type, a, x, s, T)
       PROVE  TagInv'
  <2>1. Live(i) /\ rows[i].type \in EntryType \cup {"transferOut"}
    BY <1>12 DEF ModifyToEntry, Modifiable
  <2>2. PICK t \in NewTime(i, s) :
           /\ \A j \in RowId : rows'[j] =
                  IF j = i THEN Posting(type, a, x, rows[i].relId, NoAccount, 0, t)
                  ELSE IF rows[i].type = "transferOut" /\ j = rows[i].relId THEN Deleted(rows[j])
                  ELSE rows[j]
           /\ tagIndex' = Retagged(i, T, CheckedTime(i, s, t), s # rows[i].time.sec)
    BY <1>12 DEF ModifyToEntry
  <2>3. t.sec = s /\ CheckedTime(i, s, t).sec = s /\ CheckedTime(i, s, t) \in Time
    BY <1>0, <2>1, NewTimeIsFree, CheckedTimeKeepsSecond
  <2>4. rows'[i].state = "live" /\ rows'[i].type = type /\ rows'[i].time = t
    BY <2>2 DEF Posting
  <2>5. \A k \in RowId \ {i} : rows'[k] = rows[k] \/ rows'[k] = Deleted(rows[k])
    BY <2>2
  <2>6. rows[i].type \notin {"transferIn", "modifyBalance"} /\ type # "transferIn"
    BY <2>1 DEF EntryType
  <2>7. \A k \in RowId \ {i} : \A e \in tagIndex : Follows(e, rows[k]) => Follows(e, rows'[k])
    BY <1>0, <2>5
  <2> QED
    BY <2>1, <2>2, <2>3, <2>4, <2>6, <2>7, EditedTagsFollow
<1>13. ASSUME NEW i \in RowId, NEW T \in SUBSET Tag, NEW a \in Account, NEW x \in Amount, NEW s \in Second,
              NEW b \in Account, NEW y \in Amount, ModifyEntryToTransfer(i, a, x, b, y, s, T)
       PROVE  TagInv'
  <2>1. Live(i) /\ rows[i].type \in EntryType
    BY <1>13 DEF ModifyEntryToTransfer, Modifiable
  <2>2. PICK j, t, u :
           /\ j \in RowId /\ t \in NewTime(i, s) /\ Fresh(j)
           /\ rows' = Halves(rows, i, j, a, x, b, y, t, u)
           /\ tagIndex' = Retagged(i, T, CheckedTime(i, s, t), s # rows[i].time.sec)
    BY <1>13 DEF ModifyEntryToTransfer
  <2>3. t.sec = s /\ CheckedTime(i, s, t).sec = s /\ CheckedTime(i, s, t) \in Time
    BY <1>0, <2>1, <2>2, NewTimeIsFree, CheckedTimeKeepsSecond
  <2>4. i # j /\ rows[j].state = "unused" /\ rows[i].type \notin {"transferIn", "modifyBalance"}
    BY <2>1, <2>2 DEF Fresh, Live, EntryType
  <2>5. /\ rows'[i].state = "live" /\ rows'[i].type = "transferOut" /\ rows'[i].time = t
        /\ \A k \in RowId \ {i} : \A e : Follows(e, rows[k]) => Follows(e, rows'[k])
    BY <1>0, <2>2, <2>4, HalvesFollow
  <2> QED
    BY <2>1, <2>2, <2>3, <2>4, <2>5, EditedTagsFollow
<1>14. ASSUME NEW i \in RowId, NEW T \in SUBSET Tag, NEW a \in Account, NEW x \in Amount, NEW s \in Second,
              NEW b \in Account, NEW y \in Amount, ModifyTransfer(i, a, x, b, y, s, T)
       PROVE  TagInv'
  <2> DEFINE j == rows[i].relId
  <2>1. Live(i) /\ rows[i].type = "transferOut"
    BY <1>14 DEF ModifyTransfer, Modifiable
  <2>2. PICK t, u :
           /\ t \in NewTime(i, s)
           /\ rows' = Halves(rows, i, j, a, x, b, y, t, u)
           /\ tagIndex' = Retagged(i, T, CheckedTime(i, s, t), s # rows[i].time.sec)
    BY <1>14 DEF ModifyTransfer
  <2>3. t.sec = s /\ CheckedTime(i, s, t).sec = s /\ CheckedTime(i, s, t) \in Time
    BY <1>0, <2>1, <2>2, NewTimeIsFree, CheckedTimeKeepsSecond
  <2>4. j \in RowId /\ i # j /\ rows[j].state = "live" /\ rows[j].type = "transferIn"
    BY <1>0, <2>1 DEF RowsInv, TransferHalvesMirror, OtherHalf, TransferType, Live
  <2> HIDE DEF j
  <2>5. /\ rows'[i].state = "live" /\ rows'[i].type = "transferOut" /\ rows'[i].time = t
        /\ \A k \in RowId \ {i} : \A e : Follows(e, rows[k]) => Follows(e, rows'[k])
    BY <1>0, <2>2, <2>4, HalvesFollow
  <2> QED
    BY <2>1, <2>2, <2>3, <2>5, EditedTagsFollow
<1>15. ASSUME NEW alsoAccounts \in BOOLEAN, DeleteAllTransactions(alsoAccounts)
       PROVE  TagInv'
  BY <1>15 DEF DeleteAllTransactions, TagInv, OncePerTag
<1>16. CASE UNCHANGED vars
  BY <1>16, FewerTags DEF vars
<1> QED
  BY <1>1, <1>2, <1>3, <1>4, <1>5, <1>6, <1>7, <1>8, <1>9, <1>10, <1>11, <1>12, <1>13, <1>14, <1>15, <1>16
  DEF Next

\* However often a row is edited into another second, and whatever is deleted, moved
\* or tagged anew meanwhile, its tag index rows say its second, once per tag.
THEOREM LedgerTagsFollow == Spec => []TagIndexFollowsRow
<1>1. Init => LedgerInv /\ TagInv
  BY InitKeeps DEF Init, TagInv, OncePerTag
<1>2. LedgerInv /\ TagInv /\ [Next]_vars => (LedgerInv /\ TagInv)'
  BY NextKeeps, NextKeepsTags
<1>3. TagInv => TagIndexFollowsRow
  BY DEF TagInv, TagIndexFollowsRow, OncePerTag, Follows, Live
<1> QED
  BY <1>1, <1>2, <1>3, PTL DEF Spec
=============================================================================
