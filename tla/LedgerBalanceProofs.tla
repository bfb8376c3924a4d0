-------------------------- MODULE LedgerBalanceProofs --------------------------
(***************************************************************************)
(* A stored balance is the sum of the account's live rows, for every set   *)
(* of accounts, rows and amounts, and an opening balance is its amount.    *)
(*                                                                         *)
(* What a row adds to an account is its share, 0 when the row is not live  *)
(* or another account's, so a balance is a sum over all rows and an        *)
(* operation changes it by the shares of the one or two rows it writes.    *)
(* Moving every row of an account needs more: two opening balances become  *)
(* one, and the transfers between the two accounts are deleted, which must *)
(* cancel out in pairs.                                                    *)
(***************************************************************************)
EXTENDS LedgerProofs, SumProofs

Share(r, a) == IF r.state = "live" /\ r.account = a THEN Effect(r) ELSE 0
Shares(rs, a) == [i \in RowId |-> Share(rs[i], a)]
Total(rs, a) == SumFunctionOnSet(Shares(rs, a), RowId)

BalancesAreTotals == \A a \in Account : status[a] = "open" => balance[a] = Total(rows, a)

\* a live transfer between accounts of one currency carries one amount
OneAmountPerCurrency ==
    \A i \in RowId : Live(i) /\ rows[i].type \in TransferType /\ Currency[rows[i].account] = Currency[rows[i].relAccount]
        => rows[i].relAmount = rows[i].amount

\* a live income or expense has no second account
EntriesHaveOneAccount == \A i \in RowId : Live(i) /\ rows[i].type \in EntryType => rows[i].relAccount = NoAccount

\* what is kept besides LedgerInv
Amounts == OneAmountPerCurrency /\ EntriesHaveOneAccount /\ OpeningBalanceIsItsAmount
BalanceInv == BalancesAreTotals /\ Amounts

-----------------------------------------------------------------------------
(* Totals *)

\* A share is an integer, and the effect of a live row on its own account.
LEMMA ShareIsInteger ==
    ASSUME NEW r \in Row, NEW a
    PROVE  Share(r, a) \in Int /\ Effect(r) \in Int
BY DEF Share, Effect, Signed, Row

\* Shares are integers, row by row.
LEMMA SharesAreIntegers ==
    ASSUME NEW rs \in Table, NEW a
    PROVE  \A i \in RowId : Shares(rs, a)[i] = Share(rs[i], a) /\ Shares(rs, a)[i] \in Int
BY ShareIsInteger DEF Shares, Table

\* The total of an account is the sum over its live rows.
LEMMA TotalIsSumOfRows ==
    ASSUME rows \in Table, NEW a
    PROVE  Total(rows, a) = SumFunctionOnSet(Effects, LiveOn(a))
<1> DEFINE F == Shares(rows, a)
           L == LiveOn(a)
<1>1. IsFiniteSet(RowId) /\ L \in SUBSET RowId /\ IsFiniteSet(L)
  <2>1. IsFiniteSet(RowId) /\ L \in SUBSET RowId
    BY LedgerAssumption DEF LiveOn
  <2> HIDE DEF L
  <2> QED
    BY <2>1, FS_Subset
<1>2. \A i \in RowId : F[i] \in Int /\ (i \notin L => F[i] = 0) /\ (i \in L => F[i] = Effects[i])
  BY SharesAreIntegers DEF Share, LiveOn, Live, Effects
<1> HIDE DEF F, L
<1>3. SumFunctionOnSet(F, L) = SumFunctionOnSet(F, RowId)
  BY <1>1, <1>2, SumOfSubset
<1>4. \A i \in L : F[i] \in Int /\ Effects[i] = F[i]
  BY <1>1, <1>2
<1>5. SumFunctionOnSet(Effects, L) = SumFunctionOnSet(F, L)
  BY <1>1, <1>4, SumOfEqual
<1> QED
  BY <1>3, <1>5 DEF F, L, Total

\* A total is an integer.
LEMMA TotalIsInteger ==
    ASSUME NEW rs \in Table, NEW a
    PROVE  Total(rs, a) \in Int
BY SharesAreIntegers, LedgerAssumption, SumIsInteger DEF Total

\* Tables with the same shares of an account have the same total of it.
LEMMA TotalStands ==
    ASSUME NEW rs \in Table, NEW rs2 \in Table, NEW a, \A k \in RowId : Share(rs2[k], a) = Share(rs[k], a)
    PROVE  Total(rs2, a) = Total(rs, a)
<1>1. \A k \in RowId : Shares(rs, a)[k] \in Int /\ Shares(rs2, a)[k] = Shares(rs, a)[k]
  BY SharesAreIntegers
<1> QED
  BY <1>1, SumOfEqual, LedgerAssumption DEF Total

\* An account without a share has the total 0.
LEMMA TotalOfNone ==
    ASSUME NEW rs \in Table, NEW a, \A k \in RowId : Share(rs[k], a) = 0
    PROVE  Total(rs, a) = 0
<1>1. \A k \in RowId : Shares(rs, a)[k] = 0
  BY SharesAreIntegers
<1> QED
  BY <1>1, SumOfZeros, LedgerAssumption DEF Total

\* One row written.
LEMMA TotalOfOneRow ==
    ASSUME NEW rs \in Table, NEW rs2 \in Table, NEW a, NEW i \in RowId,
           \A k \in RowId \ {i} : rs2[k] = rs[k]
    PROVE  Total(rs2, a) = Total(rs, a) - Share(rs[i], a) + Share(rs2[i], a)
<1>1. \A k \in RowId : Shares(rs, a)[k] \in Int /\ Shares(rs2, a)[k] \in Int
                       /\ Shares(rs, a)[k] = Share(rs[k], a) /\ Shares(rs2, a)[k] = Share(rs2[k], a)
  BY SharesAreIntegers
<1>2. \A k \in RowId \ {i} : Shares(rs2, a)[k] = Shares(rs, a)[k]
  BY <1>1
<1>3. Total(rs2, a) = Total(rs, a) - Shares(rs, a)[i] + Shares(rs2, a)[i]
  <2> DEFINE F == Shares(rs, a)
             G == Shares(rs2, a)
  <2>1. IsFiniteSet(RowId) /\ (\A k \in RowId : F[k] \in Int /\ G[k] \in Int)
    BY <1>1, LedgerAssumption
  <2>2. \A k \in RowId \ {i} : G[k] = F[k]
    BY <1>2
  <2> HIDE DEF F, G
  <2> QED
    BY <2>1, <2>2, SumOfChange DEF Total, F, G
<1> QED
  BY <1>1, <1>3

\* Two rows written.
LEMMA TotalOfTwoRows ==
    ASSUME NEW rs \in Table, NEW rs2 \in Table, NEW a, NEW i \in RowId, NEW j \in RowId, i # j,
           \A k \in RowId \ {i, j} : rs2[k] = rs[k]
    PROVE  Total(rs2, a) = Total(rs, a) - Share(rs[i], a) + Share(rs2[i], a) - Share(rs[j], a) + Share(rs2[j], a)
<1>1. \A k \in RowId : Shares(rs, a)[k] \in Int /\ Shares(rs2, a)[k] \in Int
                       /\ Shares(rs, a)[k] = Share(rs[k], a) /\ Shares(rs2, a)[k] = Share(rs2[k], a)
  BY SharesAreIntegers
<1>2. \A k \in RowId \ {i, j} : Shares(rs2, a)[k] = Shares(rs, a)[k]
  BY <1>1
<1>3. Total(rs2, a) = Total(rs, a) - Shares(rs, a)[i] + Shares(rs2, a)[i] - Shares(rs, a)[j] + Shares(rs2, a)[j]
  <2> DEFINE F == Shares(rs, a)
             G == Shares(rs2, a)
  <2>1. IsFiniteSet(RowId) /\ (\A k \in RowId : F[k] \in Int /\ G[k] \in Int)
    BY <1>1, LedgerAssumption
  <2>2. \A k \in RowId \ {i, j} : G[k] = F[k]
    BY <1>2
  <2> HIDE DEF F, G
  <2> QED
    BY <2>1, <2>2, SumOfTwoChanges DEF Total, F, G
<1> QED
  BY <1>1, <1>3

-----------------------------------------------------------------------------
(* Updates *)

\* what an update adds to the balance of a
Adds(u, a) == IF u.account = a THEN u.delta ELSE 0

\* The updates of one operation add up.
LEMMA UpdatesAdd ==
    ASSUME TypeOK, NEW u1, NEW u2, NEW u3, NEW u4,
           u1.delta \in Int, u2.delta \in Int, u3.delta \in Int, u4.delta \in Int,
           UpdateBalances(u1, u2, u3, u4), NEW a \in Account
    PROVE  balance'[a] = balance[a] + Adds(u1, a) + Adds(u2, a) + Adds(u3, a) + Adds(u4, a)
<1> DEFINE Bal == [Account -> Int]
<1>1. ASSUME NEW bal \in Bal, NEW u, u.delta \in Int
      PROVE  Applied(bal, u) \in Bal /\ Applied(bal, u)[a] = bal[a] + Adds(u, a)
  <2>0. bal[a] \in Int
    BY <1>1
  <2>1. CASE u.delta = 0
    BY <1>1, <2>0, <2>1 DEF Applied, Adds
  <2>2. CASE u.delta # 0
    <3>1. Applied(bal, u) = [bal EXCEPT ![u.account] = bal[u.account] + u.delta]
      BY <2>2 DEF Applied
    <3>2. CASE u.account \in Account
      <4>1. bal[u.account] + u.delta \in Int
        BY <1>1, <3>2
      <4>2. Applied(bal, u) \in Bal
        BY ONLY bal \in Bal, <3>1, <4>1
      <4>3. a = u.account => Applied(bal, u)[a] = bal[a] + u.delta
        BY <1>1, <3>1
      <4>4. a # u.account => Applied(bal, u)[a] = bal[a]
        BY <1>1, <3>1
      <4>5. Applied(bal, u)[a] = bal[a] + Adds(u, a)
        BY <2>0, <4>3, <4>4 DEF Adds
      <4> QED
        BY <4>2, <4>5
    <3>3. CASE u.account \notin Account
      <4>1. a # u.account
        BY <3>3
      <4>2. Applied(bal, u) = bal
        BY ONLY bal \in Bal, <3>1, <3>3
      <4>3. bal[a] + Adds(u, a) = bal[a]
        BY <2>0, <4>1 DEF Adds
      <4> QED
        BY <1>1, <4>2, <4>3
    <3> QED
      BY <3>2, <3>3
  <2> QED
    BY <2>1, <2>2
<1>2. balance \in Bal
  BY LedgerAssumption DEF TypeOK
<1> HIDE DEF Bal
<1> DEFINE b1 == Applied(balance, u1)
           b2 == Applied(b1, u2)
           b3 == Applied(b2, u3)
<1>3. b1 \in Bal /\ b1[a] = balance[a] + Adds(u1, a)
  BY <1>1, <1>2
<1> HIDE DEF b1
<1>4. b2 \in Bal /\ b2[a] = b1[a] + Adds(u2, a)
  BY <1>1, <1>3
<1> HIDE DEF b2
<1>5. b3 \in Bal /\ b3[a] = b2[a] + Adds(u3, a)
  BY <1>1, <1>4
<1> HIDE DEF b3
<1>6. Applied(b3, u4)[a] = b3[a] + Adds(u4, a)
  BY <1>1, <1>5
<1>7. balance' = Applied(b3, u4)
  BY DEF UpdateBalances, b1, b2, b3
<1> QED
  BY <1>3, <1>4, <1>5, <1>6, <1>7

\* An operation that writes row i adds the difference of its shares to each open account.
LEMMA OneRowBalances ==
    ASSUME rows \in Table, rows' \in Table, BalancesAreTotals, UNCHANGED status,
           NEW i \in RowId, \A k \in RowId \ {i} : rows'[k] = rows[k],
           \A a \in Account : balance'[a] = balance[a] - Share(rows[i], a) + Share(rows'[i], a)
    PROVE  BalancesAreTotals'
<1>1. SUFFICES ASSUME NEW a \in Account, status[a] = "open" PROVE balance'[a] = Total(rows', a)
  BY DEF BalancesAreTotals
<1>2. balance[a] = Total(rows, a)
  BY <1>1 DEF BalancesAreTotals
<1>3. Total(rows', a) = Total(rows, a) - Share(rows[i], a) + Share(rows'[i], a)
  BY TotalOfOneRow
<1> QED
  BY <1>2, <1>3

\* Likewise for two rows.
LEMMA TwoRowBalances ==
    ASSUME rows \in Table, rows' \in Table, BalancesAreTotals, UNCHANGED status,
           NEW i \in RowId, NEW j \in RowId, i # j, \A k \in RowId \ {i, j} : rows'[k] = rows[k],
           \A a \in Account : balance'[a] = balance[a] - Share(rows[i], a) + Share(rows'[i], a)
                                                       - Share(rows[j], a) + Share(rows'[j], a)
    PROVE  BalancesAreTotals'
<1>1. SUFFICES ASSUME NEW a \in Account, status[a] = "open" PROVE balance'[a] = Total(rows', a)
  BY DEF BalancesAreTotals
<1>2. balance[a] = Total(rows, a)
  BY <1>1 DEF BalancesAreTotals
<1>3. Total(rows', a) = Total(rows, a) - Share(rows[i], a) + Share(rows'[i], a)
                                       - Share(rows[j], a) + Share(rows'[j], a)
  BY TotalOfTwoRows
<1> QED
  BY <1>2, <1>3

\* What a posting adds to an account, and that a row that is not live adds nothing.
LEMMA PostingShare ==
    ASSUME NEW type, NEW a, NEW x, NEW relId, NEW b, NEW y, NEW t, NEW c
    PROVE  Share(Posting(type, a, x, relId, b, y, t), c) =
               IF a # c THEN 0 ELSE IF type = "modifyBalance" THEN y ELSE Signed(type, x)
BY DEF Share, Posting, Effect

\* A row that is not live adds nothing.
LEMMA NoShare ==
    ASSUME NEW r, NEW c, r.state # "live"
    PROVE  Share(r, c) = 0
BY DEF Share

\* what Amounts says of one row
Sound(r) ==
    /\ r.type \in EntryType => r.relAccount = NoAccount
    /\ r.type \in TransferType /\ Currency[r.account] = Currency[r.relAccount] => r.relAmount = r.amount
    /\ r.type = "modifyBalance" => r.relAmount = r.amount

\* An operation that writes sound rows keeps the amounts.
LEMMA SoundRowsKeepAmounts ==
    ASSUME Amounts, \A k \in RowId : \/ rows'[k] = rows[k]
                                     \/ rows'[k].state # "live"
                                     \/ Sound(rows'[k])
    PROVE  Amounts'
BY DEF Amounts, Sound, OneAmountPerCurrency, EntriesHaveOneAccount, OpeningBalanceIsItsAmount, Live

\* The two halves of a transfer written over rows i and j.
LEMMA HalvesBalance ==
    ASSUME rows \in Table, rows' \in Table, BalanceInv, UNCHANGED status, balance \in [Account -> Int],
           NEW i \in RowId, NEW j \in RowId, i # j, NEW a \in Account, NEW b \in Account, NEW x \in Int, NEW y \in Int,
           NEW t, NEW u, rows' = Halves(rows, i, j, a, x, b, y, t, u), Currency[a] = Currency[b] => x = y,
           \A c \in Account : balance'[c] = balance[c] - Share(rows[i], c) - Share(rows[j], c)
                                  + (IF a = c THEN -x ELSE 0) + (IF b = c THEN y ELSE 0)
    PROVE  BalanceInv'
<1>1. /\ rows'[i] = Posting("transferOut", a, x, j, b, y, t)
      /\ rows'[j] = Posting("transferIn", b, y, i, a, x, u)
      /\ \A k \in RowId \ {i, j} : rows'[k] = rows[k]
  BY DEF Halves, Table
<1>2. Sound(rows'[i]) /\ Sound(rows'[j])
  BY <1>1 DEF Sound, Posting, EntryType, TransferType
<1>3. Amounts'
  BY <1>1, <1>2, SoundRowsKeepAmounts DEF BalanceInv
<1>4. ASSUME NEW c \in Account
      PROVE  balance'[c] = balance[c] - Share(rows[i], c) + Share(rows'[i], c) - Share(rows[j], c) + Share(rows'[j], c)
  <2>1. Share(rows'[i], c) = IF a = c THEN -x ELSE 0
    BY <1>1, PostingShare DEF Signed
  <2>2. Share(rows'[j], c) = IF b = c THEN y ELSE 0
    BY <1>1, PostingShare DEF Signed
  <2>3. Share(rows[i], c) \in Int /\ Share(rows[j], c) \in Int /\ balance[c] \in Int
    BY ShareIsInteger DEF Table
  <2> QED
    BY <2>1, <2>2, <2>3
<1> QED
  BY <1>1, <1>3, <1>4, TwoRowBalances DEF BalanceInv

-----------------------------------------------------------------------------
(* One lemma per operation *)

\* An income or expense adds its amount.
LEMMA CreateEntryBalances ==
    ASSUME LedgerInv, rows' \in Table, BalanceInv, NEW type \in EntryType, NEW a \in Account, NEW x \in Amount,
           NEW s \in Second, NEW T \in SUBSET Tag, CreateEntry(type, a, x, s, T)
    PROVE  BalanceInv'
<1>0. TypeOK /\ rows \in Table /\ x \in Int /\ balance \in [Account -> Int]
  BY LedgerAssumption DEF LedgerInv, RowsInv, TypeOK
<1>1. PICK i \in RowId, t \in CreatedAt(s) : Fresh(i) /\ rows' = [rows EXCEPT ![i] = Posting(type, a, x, 0, NoAccount, 0, t)]
  BY DEF CreateEntry
<1>2. /\ rows[i].state = "unused" /\ rows'[i] = Posting(type, a, x, 0, NoAccount, 0, t)
      /\ \A k \in RowId \ {i} : rows'[k] = rows[k]
  BY <1>0, <1>1 DEF Fresh, Table
<1>3. UNCHANGED status /\ UpdateBalances(Update(a, Signed(type, x)), NoUpdate, NoUpdate, NoUpdate)
  BY DEF CreateEntry
<1>4. Amounts'
  <2>1. rows'[i].type \in EntryType /\ rows'[i].relAccount = NoAccount
    BY <1>2 DEF Posting
  <2>2. rows'[i].type \notin TransferType /\ rows'[i].type # "modifyBalance"
    BY <2>1 DEF EntryType, TransferType
  <2> QED
    BY <1>2, <2>1, <2>2, SoundRowsKeepAmounts DEF BalanceInv, Sound
<1>5. ASSUME NEW c \in Account
      PROVE  balance'[c] = balance[c] - Share(rows[i], c) + Share(rows'[i], c)
  <2>1. Signed(type, x) \in Int
    BY <1>0 DEF Signed
  <2>2. Update(a, Signed(type, x)).delta \in Int /\ NoUpdate.delta \in Int
    BY <2>1 DEF Update, NoUpdate
  <2>3. balance'[c] = balance[c] + Adds(Update(a, Signed(type, x)), c) + Adds(NoUpdate, c)
                          + Adds(NoUpdate, c) + Adds(NoUpdate, c)
    BY <1>0, <1>3, <2>2, UpdatesAdd
  <2>4. Adds(NoUpdate, c) = 0 /\ Adds(Update(a, Signed(type, x)), c) = IF a = c THEN Signed(type, x) ELSE 0
    BY DEF Adds, NoUpdate, Update
  <2>5. Share(rows[i], c) = 0 /\ Share(rows'[i], c) = IF a = c THEN Signed(type, x) ELSE 0
    BY <1>2, NoShare, PostingShare DEF EntryType
  <2>6. balance[c] \in Int
    BY <1>0
  <2> QED
    BY <2>1, <2>3, <2>4, <2>5, <2>6
<1> QED
  BY <1>0, <1>2, <1>3, <1>4, <1>5, OneRowBalances DEF BalanceInv

\* A transfer takes from the one account what it sends, and gives the other what arrives.
LEMMA CreateTransferBalances ==
    ASSUME LedgerInv, rows' \in Table, BalanceInv, NEW a \in Account, NEW x \in Amount, NEW b \in Account,
           NEW y \in Amount, NEW s \in Second, NEW T \in SUBSET Tag, CreateTransfer(a, x, b, y, s, T)
    PROVE  BalanceInv'
<1>0. TypeOK /\ rows \in Table /\ x \in Int /\ y \in Int /\ balance \in [Account -> Int]
  BY LedgerAssumption DEF LedgerInv, RowsInv, TypeOK
<1>1. PICK i \in RowId, j \in RowId, t \in CreatedAt(s) : FreshPair(i, j) /\ rows' = Halves(rows, i, j, a, x, b, y, t, Tick(t))
  BY DEF CreateTransfer
<1>2. i # j /\ rows[i].state = "unused" /\ rows[j].state = "unused"
  BY <1>1, LedgerAssumption DEF FreshPair, Fresh
<1>3. /\ UNCHANGED status /\ UpdateBalances(Update(a, -x), Update(b, y), NoUpdate, NoUpdate)
      /\ Currency[a] = Currency[b] => x = y
  BY DEF CreateTransfer, TransferAllowed
<1>4. Update(a, -x).delta \in Int /\ Update(b, y).delta \in Int /\ NoUpdate.delta \in Int
  BY <1>0 DEF Update, NoUpdate
<1>5. ASSUME NEW c \in Account
      PROVE  balance'[c] = balance[c] - Share(rows[i], c) - Share(rows[j], c)
                 + (IF a = c THEN -x ELSE 0) + (IF b = c THEN y ELSE 0)
  <2>1. balance'[c] = balance[c] + Adds(Update(a, -x), c) + Adds(Update(b, y), c)
                          + Adds(NoUpdate, c) + Adds(NoUpdate, c)
    BY <1>0, <1>3, <1>4, UpdatesAdd
  <2>2. /\ Adds(NoUpdate, c) = 0
        /\ Adds(Update(a, -x), c) = IF a = c THEN -x ELSE 0
        /\ Adds(Update(b, y), c) = IF b = c THEN y ELSE 0
    BY DEF Adds, NoUpdate, Update
  <2>3. balance[c] \in Int /\ Share(rows[i], c) = 0 /\ Share(rows[j], c) = 0
    BY <1>0, <1>2, NoShare
  <2> QED
    BY <1>0, <2>1, <2>2, <2>3
<1> QED
  BY <1>0, <1>1, <1>2, <1>3, <1>5, HalvesBalance

\* A balance modification adds what the account lacks, and that is all it shows:
\* no row was posted before it.
LEMMA CreateBalanceModificationBalances ==
    ASSUME LedgerInv, rows' \in Table, BalanceInv, NEW a \in Account, NEW x \in Amount,
           NEW s \in Second, NEW T \in SUBSET Tag, CreateBalanceModification(a, x, s, T)
    PROVE  BalanceInv'
<1> DEFINE delta == x - balance[a]
<1>0. TypeOK /\ rows \in Table /\ x \in Int /\ balance \in [Account -> Int] /\ delta \in Int
  BY LedgerAssumption DEF LedgerInv, RowsInv, TypeOK
<1>1. PICK i \in RowId, t \in CreatedAt(s) : Fresh(i) /\ rows' = [rows EXCEPT ![i] = Posting("modifyBalance", a, x, 0, a, delta, t)]
  BY DEF CreateBalanceModification
<1>2. /\ rows[i].state = "unused" /\ rows'[i] = Posting("modifyBalance", a, x, 0, a, delta, t)
      /\ \A k \in RowId \ {i} : rows'[k] = rows[k]
  BY <1>0, <1>1 DEF Fresh, Table
<1>3. /\ UNCHANGED status /\ status[a] = "open" /\ LiveOn(a) = {}
      /\ UpdateBalances(Update(a, delta), NoUpdate, NoUpdate, NoUpdate)
  BY DEF CreateBalanceModification, Usable
<1>4. delta = x
  <2>1. balance[a] = SumFunctionOnSet(Effects, LiveOn(a))
    BY <1>0, <1>3, TotalIsSumOfRows DEF BalanceInv, BalancesAreTotals
  <2>2. balance[a] = 0
    BY <1>3, <2>1, SumOfNothing
  <2> QED
    BY <1>0, <2>2
<1> HIDE DEF delta
<1>5. Amounts'
  <2>1. Sound(rows'[i])
    BY <1>2, <1>4 DEF Sound, Posting, EntryType, TransferType
  <2> QED
    BY <1>2, <2>1, SoundRowsKeepAmounts DEF BalanceInv
<1>6. ASSUME NEW c \in Account
      PROVE  balance'[c] = balance[c] - Share(rows[i], c) + Share(rows'[i], c)
  <2>1. Update(a, delta).delta \in Int /\ NoUpdate.delta \in Int
    BY <1>0 DEF Update, NoUpdate
  <2>2. balance'[c] = balance[c] + Adds(Update(a, delta), c) + Adds(NoUpdate, c) + Adds(NoUpdate, c) + Adds(NoUpdate, c)
    BY <1>0, <1>3, <2>1, UpdatesAdd
  <2>3. Adds(NoUpdate, c) = 0 /\ Adds(Update(a, delta), c) = IF a = c THEN delta ELSE 0
    BY DEF Adds, NoUpdate, Update
  <2>4. Share(rows[i], c) = 0 /\ Share(rows'[i], c) = IF a = c THEN delta ELSE 0
    BY <1>2, NoShare, PostingShare
  <2>5. balance[c] \in Int
    BY <1>0
  <2> QED
    BY <1>0, <2>2, <2>3, <2>4, <2>5
<1> QED
  BY <1>0, <1>2, <1>3, <1>5, <1>6, OneRowBalances DEF BalanceInv

\* The edit of an opening balance moves the balance by as much as the amount.
LEMMA ModifyBalanceModificationBalances ==
    ASSUME LedgerInv, rows' \in Table, BalanceInv, NEW i \in RowId, NEW x \in Amount, NEW T \in SUBSET Tag,
           ModifyBalanceModification(i, x, T)
    PROVE  BalanceInv'
<1> DEFINE delta == x - rows[i].amount
           a == rows[i].account
<1>0. TypeOK /\ rows \in Table /\ x \in Int /\ balance \in [Account -> Int] /\ rows[i] \in Row
  BY LedgerAssumption DEF LedgerInv, RowsInv, TypeOK, Table
<1>1. /\ Live(i) /\ rows[i].type = "modifyBalance" /\ UNCHANGED status
      /\ rows' = [rows EXCEPT ![i] = Priced(rows[i], x, rows[i].relAmount + delta)]
      /\ UpdateBalances(Update(a, delta), NoUpdate, NoUpdate, NoUpdate)
  BY DEF ModifyBalanceModification, Modifiable
<1>2. rows[i].relAmount = rows[i].amount /\ rows[i].amount \in Int /\ delta \in Int /\ rows[i].relAmount + delta = x
  <2>1. rows[i].relAmount = rows[i].amount
    BY <1>1 DEF BalanceInv, Amounts, OpeningBalanceIsItsAmount
  <2>2. rows[i].amount \in Int
    BY <1>0 DEF Row
  <2> QED
    BY <1>0, <2>1, <2>2
<1>3. /\ rows'[i] = Priced(rows[i], x, rows[i].relAmount + delta)
      /\ \A k \in RowId \ {i} : rows'[k] = rows[k]
  BY <1>0, <1>1 DEF Table
<1>4. /\ rows'[i].type = "modifyBalance" /\ rows'[i].amount = x /\ rows'[i].relAmount = x
      /\ rows'[i].account = a /\ rows'[i].state = "live" /\ rows[i].state = "live"
  <2>1. rows[i].relAmount + delta \in Int
    BY <1>0, <1>2
  <2>2. PICK y \in Int : y = rows[i].relAmount + delta /\ rows'[i] = Priced(rows[i], x, y)
    BY <1>3, <2>1
  <2>3. /\ rows'[i].type = rows[i].type /\ rows'[i].amount = x /\ rows'[i].relAmount = y
        /\ rows'[i].account = a /\ rows'[i].state = rows[i].state
    BY <1>0, <2>2 DEF Priced, Row
  <2> QED
    BY <1>1, <1>2, <2>2, <2>3 DEF Live
<1>5. Amounts'
  <2>1. Sound(rows'[i])
    BY <1>4 DEF Sound, EntryType, TransferType
  <2> QED
    BY <1>3, <2>1, SoundRowsKeepAmounts DEF BalanceInv
<1>6. ASSUME NEW c \in Account
      PROVE  balance'[c] = balance[c] - Share(rows[i], c) + Share(rows'[i], c)
  <2> HIDE DEF a
  <2>1. Update(a, delta).delta \in Int /\ NoUpdate.delta \in Int
    BY <1>2 DEF Update, NoUpdate
  <2>2. balance'[c] = balance[c] + Adds(Update(a, delta), c) + Adds(NoUpdate, c) + Adds(NoUpdate, c) + Adds(NoUpdate, c)
    BY <1>0, <1>1, <2>1, UpdatesAdd
  <2>3. Adds(NoUpdate, c) = 0 /\ Adds(Update(a, delta), c) = IF a = c THEN delta ELSE 0
    BY DEF Adds, NoUpdate, Update
  <2>4. Share(rows[i], c) = IF a = c THEN rows[i].amount ELSE 0
    BY <1>1, <1>2, <1>4 DEF Share, Effect, a
  <2>5. Share(rows'[i], c) = IF a = c THEN x ELSE 0
    BY <1>4 DEF Share, Effect
  <2>6. balance[c] \in Int
    BY <1>0
  <2> QED
    BY <1>0, <1>2, <2>2, <2>3, <2>4, <2>5, <2>6
<1> QED
  BY <1>0, <1>1, <1>3, <1>5, <1>6, OneRowBalances DEF BalanceInv

\* the balance of c with row i taken back, e posted to a and y to b
Edited(i, a, e, b, y, c) ==
    balance[c]
    - (IF rows[i].account = c THEN Effect(rows[i]) ELSE 0)
    - (IF rows[i].type = "transferOut" /\ rows[i].relAccount = c THEN rows[i].relAmount ELSE 0)
    + (IF a = c THEN e ELSE 0) + (IF b = c THEN y ELSE 0)

\* The four updates of an edit take the old effects back and post the new ones, whichever
\* of the accounts coincide.
LEMMA EditAdds ==
    ASSUME TypeOK, rows \in Table, NEW i \in RowId, NEW a \in Account, NEW e \in Int,
           NEW b \in Account \cup {NoAccount}, NEW y \in Int, NEW c \in Account,
           rows[i].type # "transferOut" => rows[i].relAccount = NoAccount,
           UpdateBalances(OldSource(i, a, e), NewSource(i, a, e), OldDestination(i, b, y), NewDestination(i, b, y))
    PROVE  balance'[c] = Edited(i, a, e, b, y, c)
<1> DEFINE old == rows[i].account
           rel == rows[i].relAccount
           E == Effect(rows[i])
           R == rows[i].relAmount
           out == rows[i].type = "transferOut"
<1>0. E \in Int /\ R \in Int /\ balance[c] \in Int
  BY ShareIsInteger, LedgerAssumption DEF Table, Row, TypeOK
<1>1. /\ OldSource(i, a, e).delta \in Int /\ NewSource(i, a, e).delta \in Int
      /\ OldDestination(i, b, y).delta \in Int /\ NewDestination(i, b, y).delta \in Int
  <2>1. /\ OldSource(i, a, e).delta \in Int /\ NewSource(i, a, e).delta \in Int
    BY DeltasAreIntegers
  <2>2. /\ OldDestination(i, b, y).delta \in Int /\ NewDestination(i, b, y).delta \in Int
    BY DeltasAreIntegers
  <2> QED
    BY <2>1, <2>2
<1>2. balance'[c] = balance[c] + Adds(OldSource(i, a, e), c) + Adds(NewSource(i, a, e), c)
                        + Adds(OldDestination(i, b, y), c) + Adds(NewDestination(i, b, y), c)
  BY <1>1, UpdatesAdd
<1>3. \A f, g : Adds(Update(f, g), c) = IF f = c THEN g ELSE 0
  BY DEF Adds, Update
<1>4. Adds(NoUpdate, c) = 0
  BY DEF Adds, NoUpdate, Update
<1>5. /\ OldSource(i, a, e) = Update(old, (IF a = old THEN e ELSE 0) - E)
      /\ NewSource(i, a, e) = IF a = old THEN NoUpdate ELSE Update(a, e)
      /\ OldDestination(i, b, y) = IF out THEN Update(rel, (IF b = rel THEN y ELSE 0) - R) ELSE NoUpdate
      /\ NewDestination(i, b, y) = IF b = rel THEN NoUpdate ELSE Update(b, y)
  BY DEF OldSource, NewSource, OldDestination, NewDestination
<1>6. ~out => rel = NoAccount
  OBVIOUS
<1>7. c # NoAccount
  BY LedgerAssumption
<1> HIDE DEF old, rel, E, R, out
<1>8. Adds(OldSource(i, a, e), c) + Adds(NewSource(i, a, e), c)
          = (IF old = c THEN -E ELSE 0) + (IF a = c THEN e ELSE 0)
  <2>1. CASE a = old
    BY <1>0, <1>3, <1>4, <1>5, <2>1
  <2>2. CASE a # old
    BY <1>0, <1>3, <1>5, <2>2
  <2> QED
    BY <2>1, <2>2
<1>9. Adds(OldDestination(i, b, y), c) + Adds(NewDestination(i, b, y), c)
          = (IF out /\ rel = c THEN -R ELSE 0) + (IF b = c THEN y ELSE 0)
  <2>1. CASE out /\ b = rel
    BY <1>0, <1>3, <1>4, <1>5, <2>1
  <2>2. CASE out /\ b # rel
    BY <1>0, <1>3, <1>5, <2>2
  <2>3. CASE ~out /\ b = rel
    BY <1>0, <1>4, <1>5, <1>6, <1>7, <2>3
  <2>4. CASE ~out /\ b # rel
    BY <1>0, <1>3, <1>4, <1>5, <2>4
  <2> QED
    BY <2>1, <2>2, <2>3, <2>4
<1>10. /\ Adds(OldSource(i, a, e), c) \in Int /\ Adds(NewSource(i, a, e), c) \in Int
       /\ Adds(OldDestination(i, b, y), c) \in Int /\ Adds(NewDestination(i, b, y), c) \in Int
  BY <1>1 DEF Adds
<1>11. balance'[c] = balance[c] + ((IF old = c THEN -E ELSE 0) + (IF a = c THEN e ELSE 0))
                         + ((IF out /\ rel = c THEN -R ELSE 0) + (IF b = c THEN y ELSE 0))
  BY <1>0, <1>2, <1>8, <1>9, <1>10
<1>12. balance'[c] = balance[c] - (IF old = c THEN E ELSE 0) - (IF out /\ rel = c THEN R ELSE 0)
                         + (IF a = c THEN e ELSE 0) + (IF b = c THEN y ELSE 0)
  BY <1>0, <1>11
<1> QED
  BY <1>12 DEF Edited, old, rel, E, R, out

\* The two halves of a live transfer: what each adds to an account.
LEMMA HalvesShare ==
    ASSUME RowsInv, NEW i \in RowId, Live(i), rows[i].type = "transferOut", NEW c
    PROVE  /\ rows[i].relId \in RowId /\ rows[i].relId # i /\ rows[rows[i].relId].state = "live"
           /\ Share(rows[i], c) = IF rows[i].account = c THEN Effect(rows[i]) ELSE 0
           /\ Share(rows[rows[i].relId], c) = IF rows[i].relAccount = c THEN rows[i].relAmount ELSE 0
<1> DEFINE j == rows[i].relId
<1>1. OtherHalf(i, j)
  BY DEF RowsInv, TransferHalvesMirror, TransferType
<1>2. rows[j].type = "transferIn"
  BY <1>1 DEF OtherHalf, TransferType
<1>3. /\ j \in RowId /\ j # i /\ rows[j].state = "live"
      /\ rows[j].account = rows[i].relAccount /\ rows[j].amount = rows[i].relAmount
  BY <1>1 DEF OtherHalf, Live
<1> HIDE DEF j
<1>4. Share(rows[j], c) = IF rows[i].relAccount = c THEN rows[i].relAmount ELSE 0
  BY <1>2, <1>3 DEF Share, Effect, Signed
<1>5. Share(rows[i], c) = IF rows[i].account = c THEN Effect(rows[i]) ELSE 0
  BY DEF Share, Live
<1> QED
  BY <1>3, <1>4, <1>5 DEF j

\* An edit into an income or expense takes back what the row was, both halves of a transfer.
LEMMA ModifyToEntryBalances ==
    ASSUME LedgerInv, rows' \in Table, BalanceInv, NEW i \in RowId, NEW type \in EntryType, NEW a \in Account,
           NEW x \in Amount, NEW s \in Second, NEW T \in SUBSET Tag, ModifyToEntry(i, type, a, x, s, T)
    PROVE  BalanceInv'
<1> DEFINE e == Signed(type, x)
           j == rows[i].relId
<1>0. TypeOK /\ RowsInv /\ rows \in Table /\ x \in Int /\ balance \in [Account -> Int] /\ e \in Int /\ 0 \in Int
  BY LedgerAssumption DEF LedgerInv, RowsInv, TypeOK, Signed
<1>1. /\ Live(i) /\ rows[i].type \in EntryType \cup {"transferOut"} /\ UNCHANGED status
      /\ UpdateBalances(OldSource(i, a, e), NewSource(i, a, e),
                        OldDestination(i, NoAccount, 0), NewDestination(i, NoAccount, 0))
  BY DEF ModifyToEntry, Modifiable
<1>2. PICK t : rows' = [k \in RowId |->
                    IF k = i THEN Posting(type, a, x, j, NoAccount, 0, t)
                    ELSE IF rows[i].type = "transferOut" /\ k = j THEN Deleted(rows[k])
                    ELSE rows[k]]
  BY DEF ModifyToEntry
<1> HIDE DEF e
<1>3. \A k \in RowId : Deleted(rows[k]).state = "deleted"
  BY <1>0, DeletedIsRow DEF Table
<1>4. rows'[i] = Posting(type, a, x, j, NoAccount, 0, t)
  BY <1>2
<1>5. Amounts'
  <2>1. Sound(rows'[i])
    <3>1. rows'[i].type = type /\ rows'[i].relAccount = NoAccount
      BY <1>4 DEF Posting
    <3> QED
      BY <3>1 DEF Sound, EntryType, TransferType
  <2>2. \A k \in RowId \ {i} : rows'[k] = rows[k] \/ rows'[k].state # "live"
    BY <1>2, <1>3
  <2> QED
    BY <2>1, <2>2, SoundRowsKeepAmounts DEF BalanceInv
<1>6. rows[i].type # "transferOut" => rows[i].relAccount = NoAccount
  BY <1>1 DEF BalanceInv, Amounts, EntriesHaveOneAccount
<1>7. \A c \in Account : /\ Share(rows[i], c) = IF rows[i].account = c THEN Effect(rows[i]) ELSE 0
                         /\ Share(rows'[i], c) = IF a = c THEN e ELSE 0
                         /\ c # NoAccount
                         /\ balance[c] \in Int /\ Share(rows[i], c) \in Int
  <2>1. TAKE c \in Account
  <2>2. Share(rows'[i], c) = IF a = c THEN e ELSE 0
    BY <1>4, PostingShare DEF EntryType, e
  <2>3. Share(rows[i], c) = IF rows[i].account = c THEN Effect(rows[i]) ELSE 0
    BY <1>1 DEF Share, Live
  <2> QED
    BY <1>0, <2>2, <2>3, ShareIsInteger, LedgerAssumption DEF Table
<1>8. ASSUME NEW c \in Account
      PROVE  balance'[c] = Edited(i, a, e, NoAccount, 0, c)
  <2>1. NoAccount \in Account \cup {NoAccount}
    OBVIOUS
  <2> QED
    BY <1>0, <1>1, <1>6, <2>1, EditAdds
<1>9. CASE rows[i].type # "transferOut"
  <2>1. \A k \in RowId \ {i} : rows'[k] = rows[k]
    BY <1>2, <1>9
  <2>2. ASSUME NEW c \in Account
        PROVE  balance'[c] = balance[c] - Share(rows[i], c) + Share(rows'[i], c)
    <3>1. Effect(rows[i]) \in Int
      BY <1>0, ShareIsInteger DEF Table
    <3>2. balance'[c] = balance[c] - (IF rows[i].account = c THEN Effect(rows[i]) ELSE 0) - 0
                            + (IF a = c THEN e ELSE 0) + 0
      BY <1>7, <1>8, <1>9 DEF Edited
    <3>3. balance'[c] = balance[c] - Share(rows[i], c) - 0 + Share(rows'[i], c) + 0
      BY <1>7, <3>2
    <3>4. Share(rows[i], c) \in Int /\ Share(rows'[i], c) \in Int /\ balance[c] \in Int
      BY <1>0, <1>7
    <3> QED
      BY ONLY <3>3, <3>4
  <2>3. UNCHANGED status /\ BalancesAreTotals
    BY <1>1 DEF BalanceInv
  <2>4. BalancesAreTotals'
    BY ONLY <1>0, <2>1, <2>2, <2>3, rows' \in Table, i \in RowId, OneRowBalances
  <2> QED
    BY <1>5, <2>4 DEF BalanceInv
<1>10. CASE rows[i].type = "transferOut"
  <2>1. j \in RowId /\ j # i /\ \A c : Share(rows[j], c) = IF rows[i].relAccount = c THEN rows[i].relAmount ELSE 0
    BY <1>0, <1>1, <1>10, HalvesShare
  <2>2. rows'[j].state = "deleted" /\ \A k \in RowId \ {i, j} : rows'[k] = rows[k]
    BY <1>2, <1>3, <1>10, <2>1
  <2>3. ASSUME NEW c \in Account
        PROVE  balance'[c] = balance[c] - Share(rows[i], c) + Share(rows'[i], c) - Share(rows[j], c) + Share(rows'[j], c)
    <3>1. Share(rows'[j], c) = 0
      BY <2>2, NoShare
    <3>2. Share(rows[j], c) \in Int /\ Share(rows[j], c) = IF rows[i].relAccount = c THEN rows[i].relAmount ELSE 0
      BY <1>0, <2>1, ShareIsInteger DEF Table
    <3>3. balance'[c] = balance[c] - Share(rows[i], c) - Share(rows[j], c) + Share(rows'[i], c) + 0
      BY <1>7, <1>8, <1>10, <3>2 DEF Edited
    <3> QED
      BY <1>0, <1>7, <3>1, <3>2, <3>3
  <2> HIDE DEF j
  <2> QED
    BY <1>0, <1>1, <1>5, <2>1, <2>2, <2>3, TwoRowBalances DEF BalanceInv
<1> QED
  BY <1>9, <1>10

\* An edit that writes two halves over row i and row j: the row i was an income or expense
\* and j is new, or the two were the halves of the transfer.
LEMMA ModifiedHalvesBalance ==
    ASSUME LedgerInv, rows' \in Table, BalanceInv, UNCHANGED status, NEW i \in RowId, NEW j \in RowId, i # j, Live(i),
           \/ rows[i].type \in EntryType /\ rows[j].state = "unused"
           \/ rows[i].type = "transferOut" /\ j = rows[i].relId,
           NEW a \in Account, NEW x \in Amount, NEW b \in Account, NEW y \in Amount,
           TransferAllowed(a, x, b, y), NEW t, NEW u, rows' = Halves(rows, i, j, a, x, b, y, t, u),
           UpdateBalances(OldSource(i, a, -x), NewSource(i, a, -x), OldDestination(i, b, y), NewDestination(i, b, y))
    PROVE  BalanceInv'
<1>0. TypeOK /\ RowsInv /\ rows \in Table /\ x \in Int /\ y \in Int /\ -x \in Int /\ balance \in [Account -> Int]
  BY LedgerAssumption DEF LedgerInv, RowsInv, TypeOK
<1>1. rows[i].type # "transferOut" => rows[i].relAccount = NoAccount
  BY DEF BalanceInv, Amounts, EntriesHaveOneAccount
<1>2. Currency[a] = Currency[b] => x = y
  BY DEF TransferAllowed
<1>3. ASSUME NEW c \in Account
      PROVE  balance'[c] = Edited(i, a, -x, b, y, c)
  <2>1. b \in Account \cup {NoAccount}
    OBVIOUS
  <2> QED
    BY <1>0, <1>1, <2>1, EditAdds
<1>4. ASSUME NEW c \in Account
      PROVE  balance'[c] = balance[c] - Share(rows[i], c) - Share(rows[j], c)
                 + (IF a = c THEN -x ELSE 0) + (IF b = c THEN y ELSE 0)
  <2> DEFINE R == IF rows[i].type = "transferOut" /\ rows[i].relAccount = c THEN rows[i].relAmount ELSE 0
  <2>1. Share(rows[i], c) = IF rows[i].account = c THEN Effect(rows[i]) ELSE 0
    BY DEF Share, Live
  <2>2. Share(rows[j], c) = R
    <3>1. CASE rows[i].type = "transferOut"
      <4>1. j = rows[i].relId
        BY <3>1 DEF EntryType
      <4> QED
        BY <1>0, <3>1, <4>1, HalvesShare
    <3>2. CASE rows[i].type # "transferOut"
      BY <3>2, NoShare
    <3> QED
      BY <3>1, <3>2
  <2>3. balance'[c] = balance[c] - (IF rows[i].account = c THEN Effect(rows[i]) ELSE 0) - R
                          + (IF a = c THEN -x ELSE 0) + (IF b = c THEN y ELSE 0)
    BY <1>3 DEF Edited
  <2> HIDE DEF R
  <2> QED
    BY <2>1, <2>2, <2>3
<1> QED
  BY <1>0, <1>2, <1>4, HalvesBalance

\* An edit of an income or expense into a transfer.
LEMMA ModifyEntryToTransferBalances ==
    ASSUME LedgerInv, rows' \in Table, BalanceInv, NEW i \in RowId, NEW a \in Account, NEW x \in Amount,
           NEW b \in Account, NEW y \in Amount, NEW s \in Second, NEW T \in SUBSET Tag,
           ModifyEntryToTransfer(i, a, x, b, y, s, T)
    PROVE  BalanceInv'
<1>1. /\ Live(i) /\ rows[i].type \in EntryType /\ TransferAllowed(a, x, b, y) /\ UNCHANGED status
      /\ UpdateBalances(OldSource(i, a, -x), NewSource(i, a, -x), OldDestination(i, b, y), NewDestination(i, b, y))
  BY DEF ModifyEntryToTransfer, Modifiable
<1>2. PICK j \in RowId : Fresh(j) /\ \E t, u : rows' = Halves(rows, i, j, a, x, b, y, t, u)
  BY DEF ModifyEntryToTransfer
<1>3. PICK t, u : rows' = Halves(rows, i, j, a, x, b, y, t, u)
  BY <1>2
<1>4. rows[j].state = "unused" /\ i # j
  BY <1>1, <1>2 DEF Fresh, Live
<1> QED
  BY <1>1, <1>3, <1>4, ModifiedHalvesBalance

\* An edit of a transfer that stays one.
LEMMA ModifyTransferBalances ==
    ASSUME LedgerInv, rows' \in Table, BalanceInv, NEW i \in RowId, NEW a \in Account, NEW x \in Amount,
           NEW b \in Account, NEW y \in Amount, NEW s \in Second, NEW T \in SUBSET Tag,
           ModifyTransfer(i, a, x, b, y, s, T)
    PROVE  BalanceInv'
<1> DEFINE j == rows[i].relId
<1>1. /\ Live(i) /\ rows[i].type = "transferOut" /\ TransferAllowed(a, x, b, y) /\ UNCHANGED status
      /\ UpdateBalances(OldSource(i, a, -x), NewSource(i, a, -x), OldDestination(i, b, y), NewDestination(i, b, y))
  BY DEF ModifyTransfer, Modifiable
<1>2. PICK t, u : rows' = Halves(rows, i, j, a, x, b, y, t, u)
  BY DEF ModifyTransfer
<1>3. j \in RowId /\ j # i
  BY <1>1, HalvesShare DEF LedgerInv
<1> QED
  BY <1>1, <1>2, <1>3, ModifiedHalvesBalance

\* A deletion takes back what the row did, both halves of a transfer.
LEMMA DeleteTransactionBalances ==
    ASSUME LedgerInv, rows' \in Table, BalanceInv, NEW i \in RowId, DeleteTransaction(i)
    PROVE  BalanceInv'
<1> DEFINE j == rows[i].relId
           u1 == Update(rows[i].account, -Effect(rows[i]))
           u2 == OldDestination(i, NoAccount, 0)
<1>0. TypeOK /\ RowsInv /\ rows \in Table /\ balance \in [Account -> Int] /\ Effect(rows[i]) \in Int /\ rows[i].relAmount \in Int
  BY ShareIsInteger, LedgerAssumption DEF LedgerInv, RowsInv, TypeOK, Table, Row
<1>1. /\ Live(i) /\ UNCHANGED status
      /\ rows' = [k \in RowId |-> IF k \in (IF rows[i].type = "transferOut" THEN {i, rows[i].relId} ELSE {i})
                                   THEN Deleted(rows[k]) ELSE rows[k]]
      /\ UpdateBalances(u1, u2, NoUpdate, NoUpdate)
  BY DEF DeleteTransaction, Modifiable
<1>2. \A k \in RowId : Deleted(rows[k]).state = "deleted"
  BY <1>0, DeletedIsRow DEF Table
<1>3. Amounts'
  <2>1. \A k \in RowId : rows'[k] = rows[k] \/ rows'[k].state # "live"
    BY <1>1, <1>2
  <2> QED
    BY <2>1, SoundRowsKeepAmounts DEF BalanceInv
<1>4. rows'[i].state = "deleted"
  BY <1>1, <1>2
<1>5. u1.delta \in Int /\ u2.delta \in Int /\ NoUpdate.delta \in Int
  <2>1. u1.delta \in Int
    BY <1>0 DEF Update
  <2>2. u2.delta \in Int /\ NoUpdate.delta \in Int
    BY <1>0 DEF OldDestination, NoUpdate, Update
  <2> QED
    BY <2>1, <2>2
<1>6. \A c \in Account :
         /\ Adds(u1, c) = IF rows[i].account = c THEN -Effect(rows[i]) ELSE 0
         /\ Adds(u2, c) = IF rows[i].type = "transferOut" /\ rows[i].relAccount = c THEN -rows[i].relAmount ELSE 0
         /\ Adds(NoUpdate, c) = 0
  <2>1. \A c : Adds(u1, c) = IF rows[i].account = c THEN -Effect(rows[i]) ELSE 0
    BY DEF Adds, Update
  <2>2. \A c : Adds(NoUpdate, c) = 0
    BY DEF Adds, Update, NoUpdate
  <2>3. ASSUME NEW c \in Account
        PROVE  Adds(u2, c) = IF rows[i].type = "transferOut" /\ rows[i].relAccount = c THEN -rows[i].relAmount ELSE 0
    <3>1. CASE rows[i].type = "transferOut"
      <4>1. u2.account = rows[i].relAccount /\ u2.delta = (IF NoAccount = rows[i].relAccount THEN 0 ELSE 0) - rows[i].relAmount
        BY <3>1 DEF OldDestination, Update
      <4> QED
        BY <1>0, <3>1, <4>1 DEF Adds
    <3>2. CASE rows[i].type # "transferOut"
      BY <2>2, <3>2 DEF OldDestination
    <3> QED
      BY <3>1, <3>2
  <2> QED
    BY <2>1, <2>2, <2>3
<1> HIDE DEF u1, u2
<1>7. ASSUME NEW c \in Account
      PROVE  balance'[c] = balance[c] - Share(rows[i], c)
                 - (IF rows[i].type = "transferOut" /\ rows[i].relAccount = c THEN rows[i].relAmount ELSE 0)
  <2>1. balance'[c] = balance[c] + Adds(u1, c) + Adds(u2, c) + Adds(NoUpdate, c) + Adds(NoUpdate, c)
    BY <1>0, <1>1, <1>5, UpdatesAdd
  <2>2. Share(rows[i], c) = IF rows[i].account = c THEN Effect(rows[i]) ELSE 0
    BY <1>1 DEF Share, Live
  <2>3. balance[c] \in Int
    BY <1>0
  <2> QED
    BY <1>0, <1>6, <2>1, <2>2, <2>3
<1>8. \A c \in Account : Share(rows'[i], c) = 0 /\ Share(rows[i], c) \in Int /\ balance[c] \in Int
  BY <1>0, <1>4, NoShare, ShareIsInteger DEF Table
<1>9. CASE rows[i].type # "transferOut"
  <2>1. \A k \in RowId \ {i} : rows'[k] = rows[k]
    BY <1>1, <1>9
  <2>2. ASSUME NEW c \in Account
        PROVE  balance'[c] = balance[c] - Share(rows[i], c) + Share(rows'[i], c)
    BY <1>7, <1>8, <1>9
  <2>3. UNCHANGED status /\ BalancesAreTotals
    BY <1>1 DEF BalanceInv
  <2>4. BalancesAreTotals'
    BY ONLY <1>0, <2>1, <2>2, <2>3, rows' \in Table, i \in RowId, OneRowBalances
  <2> QED
    BY <1>3, <2>4 DEF BalanceInv
<1>10. CASE rows[i].type = "transferOut"
  <2>1. j \in RowId /\ j # i /\ \A c : Share(rows[j], c) = IF rows[i].relAccount = c THEN rows[i].relAmount ELSE 0
    BY <1>0, <1>1, <1>10, HalvesShare
  <2>2. rows'[j].state = "deleted" /\ \A k \in RowId \ {i, j} : rows'[k] = rows[k]
    BY <1>1, <1>2, <1>10, <2>1
  <2> HIDE DEF j
  <2>3. ASSUME NEW c \in Account
        PROVE  balance'[c] = balance[c] - Share(rows[i], c) + Share(rows'[i], c) - Share(rows[j], c) + Share(rows'[j], c)
    <3>1. Share(rows'[j], c) = 0
      BY <2>2, NoShare
    <3>2. Share(rows[j], c) \in Int
      BY <1>0, <2>1, ShareIsInteger DEF Table
    <3>3. balance'[c] = balance[c] - Share(rows[i], c) - Share(rows[j], c)
      BY <1>7, <1>10, <2>1
    <3> QED
      BY <1>8, <3>1, <3>2, <3>3
  <2>4. UNCHANGED status /\ BalancesAreTotals
    BY <1>1 DEF BalanceInv
  <2>5. BalancesAreTotals'
    BY ONLY <1>0, <2>1, <2>2, <2>3, <2>4, rows' \in Table, i \in RowId, TwoRowBalances
  <2> QED
    BY <1>3, <2>5 DEF BalanceInv
<1> QED
  BY <1>9, <1>10

\* Clearing the user's data leaves no live row and open accounts at 0.
LEMMA DeleteAllTransactionsBalances ==
    ASSUME LedgerInv, rows' \in Table, BalanceInv, NEW alsoAccounts \in BOOLEAN, DeleteAllTransactions(alsoAccounts)
    PROVE  BalanceInv'
<1>0. TypeOK /\ rows \in Table /\ \A k \in RowId : rows[k] \in Row
  BY DEF LedgerInv, RowsInv, Table
<1>1. \A k \in RowId : rows'[k].state # "live"
  BY <1>0, DeletedIsRow DEF DeleteAllTransactions, Live
<1>2. \A c \in Account : Total(rows', c) = 0
  BY <1>1, NoShare, TotalOfNone
<1>3. ASSUME NEW c \in Account, status'[c] = "open"
      PROVE  balance'[c] = 0
  BY <1>0, <1>3 DEF DeleteAllTransactions, TypeOK
<1>4. Amounts'
  BY <1>1, SoundRowsKeepAmounts DEF BalanceInv
<1> QED
  BY <1>2, <1>3, <1>4 DEF BalanceInv, BalancesAreTotals

\* A new account has no row but that of its starting balance.
LEMMA CreateAccountBalances ==
    ASSUME LedgerInv, rows' \in Table, BalanceInv, NEW a \in Account, NEW x \in Amount \cup {0}, NEW s \in Second,
           CreateAccount(a, x, s)
    PROVE  BalanceInv'
<1>0. TypeOK /\ RowsInv /\ rows \in Table /\ x \in Int
  BY LedgerAssumption DEF LedgerInv, RowsInv
<1>1. /\ status[a] = "absent" /\ status' = [status EXCEPT ![a] = "open"]
      /\ balance' = [balance EXCEPT ![a] = x]
  BY DEF CreateAccount
<1>2. \A k \in RowId : Share(rows[k], a) = 0
  BY <1>0, <1>1 DEF Share, RowsInv, RowsNameOpenAccounts, Live
<1>3. Total(rows, a) = 0
  BY <1>0, <1>2, TotalOfNone
<1>4. balance'[a] = x /\ \A c \in Account \ {a} : balance'[c] = balance[c] /\ status'[c] = status[c]
  BY <1>0, <1>1 DEF TypeOK
<1>5. CASE rows' = rows /\ x = 0
  <2>1. Amounts'
    BY <1>5, SoundRowsKeepAmounts DEF BalanceInv
  <2> QED
    BY <1>3, <1>4, <1>5, <2>1 DEF BalanceInv, BalancesAreTotals
<1>6. ASSUME NEW i \in RowId, NEW t, Fresh(i), rows' = [rows EXCEPT ![i] = Posting("modifyBalance", a, x, 0, a, x, t)]
      PROVE  BalanceInv'
  <2>1. /\ rows[i].state = "unused" /\ rows'[i] = Posting("modifyBalance", a, x, 0, a, x, t)
        /\ \A k \in RowId \ {i} : rows'[k] = rows[k]
    BY <1>0, <1>6 DEF Fresh, Table
  <2>2. Sound(rows'[i])
    BY <2>1 DEF Sound, Posting, EntryType, TransferType
  <2>3. Amounts'
    BY <2>1, <2>2, SoundRowsKeepAmounts DEF BalanceInv
  <2>4. ASSUME NEW c \in Account
        PROVE  Total(rows', c) = Total(rows, c) + (IF c = a THEN x ELSE 0)
    <3>1. Total(rows', c) = Total(rows, c) - Share(rows[i], c) + Share(rows'[i], c)
      BY <1>0, <2>1, TotalOfOneRow
    <3>2. Share(rows[i], c) = 0 /\ Share(rows'[i], c) = IF c = a THEN x ELSE 0
      BY <2>1, NoShare, PostingShare
    <3>3. Total(rows, c) \in Int
      BY <1>0, TotalIsInteger
    <3> QED
      BY <1>0, <3>1, <3>2, <3>3
  <2>5. ASSUME NEW c \in Account, status'[c] = "open"
        PROVE  balance'[c] = Total(rows', c)
    <3>1. CASE c = a
      BY <1>0, <1>3, <1>4, <2>4, <3>1
    <3>2. CASE c # a
      <4>1. Total(rows, c) \in Int /\ balance'[c] = Total(rows, c)
        BY <1>0, <1>4, <2>5, <3>2, TotalIsInteger DEF BalanceInv, BalancesAreTotals
      <4> QED
        BY <2>4, <3>2, <4>1
    <3> QED
      BY <3>1, <3>2
  <2> QED
    BY <2>3, <2>5 DEF BalanceInv, BalancesAreTotals
<1> QED
  BY <1>5, <1>6 DEF CreateAccount

\* A closed account takes no row of another account with it.
LEMMA DeleteAccountBalances ==
    ASSUME LedgerInv, rows' \in Table, BalanceInv, NEW a \in Account, DeleteAccount(a)
    PROVE  BalanceInv'
<1>0. TypeOK /\ RowsInv /\ rows \in Table /\ \A k \in RowId : rows[k] \in Row
  BY DEF LedgerInv, RowsInv, Table
<1>1. /\ rows' = [i \in RowId |-> IF i \in LiveOn(a) THEN Deleted(rows[i]) ELSE rows[i]]
      /\ status' = [status EXCEPT ![a] = "deleted"] /\ balance' = [balance EXCEPT ![a] = 0]
  BY DEF DeleteAccount
<1>2. \A k \in RowId : rows'[k] = rows[k] \/ (rows'[k].state # "live" /\ rows[k].account = a)
  BY <1>0, <1>1, DeletedIsRow DEF LiveOn
<1>3. Amounts'
  BY <1>2, SoundRowsKeepAmounts DEF BalanceInv
<1>4. ASSUME NEW c \in Account, status'[c] = "open"
      PROVE  balance'[c] = Total(rows', c)
  <2>1. c # a /\ status[c] = "open" /\ balance'[c] = balance[c]
    BY <1>0, <1>1, <1>4 DEF TypeOK
  <2>2. \A k \in RowId : Share(rows'[k], c) = Share(rows[k], c)
    BY <1>2, <2>1 DEF Share
  <2>3. Total(rows', c) = Total(rows, c)
    BY <1>0, <2>2, TotalStands
  <2> QED
    BY <2>1, <2>3 DEF BalanceInv, BalancesAreTotals
<1> QED
  BY <1>3, <1>4 DEF BalanceInv, BalancesAreTotals

\* What writes neither rows nor balances nor the life of an account.
LEMMA UnpostedBalances ==
    ASSUME BalanceInv, UNCHANGED <<status, balance, rows>>
    PROVE  BalanceInv'
<1>1. Amounts'
  BY SoundRowsKeepAmounts DEF BalanceInv
<1> QED
  BY <1>1 DEF BalanceInv, BalancesAreTotals

-----------------------------------------------------------------------------
(* Moving every row of an account *)

\* What a row adds to either of two accounts.
LEMMA ShareOfEither ==
    ASSUME NEW r \in Row, NEW a, NEW b, a # b, r.state = "live", r.account \in {a, b}
    PROVE  Share(r, a) + Share(r, b) = Effect(r)
<1>1. Effect(r) \in Int
  BY ShareIsInteger
<1>2. Share(r, a) = IF r.account = a THEN Effect(r) ELSE 0
  BY DEF Share
<1>3. Share(r, b) = IF r.account = b THEN Effect(r) ELSE 0
  BY DEF Share
<1> QED
  BY <1>1, <1>2, <1>3

\* Two opening balances become one that adds what both did, and shows it.
LEMMA MergingKeepsTotals ==
    ASSUME RowsInv, OpeningBalanceIsItsAmount, NEW from \in Account, NEW to \in Account, from # to,
           NEW e \in Openings({from, to}), NEW l \in Openings({from, to}), e # l,
           NEW rs \in MergeOpenings(e, l), rs \in Table
    PROVE  /\ Total(rs, from) + Total(rs, to) = Total(rows, from) + Total(rows, to)
           /\ \A k \in RowId : rs[k] = rows[k] \/ rs[k].state # "live" \/ Sound(rs[k])
<1> DEFINE x == rows[e].amount + rows[l].amount
           y == rows[e].relAmount + rows[l].relAmount
<1>0. /\ rows \in Table /\ e \in RowId /\ l \in RowId /\ rows[e] \in Row /\ rows[l] \in Row /\ rs[e] \in Row /\ rs[l] \in Row
      /\ Live(e) /\ rows[e].type = "modifyBalance" /\ rows[e].account \in {from, to}
      /\ Live(l) /\ rows[l].type = "modifyBalance" /\ rows[l].account \in {from, to}
  BY DEF RowsInv, Table, Openings
<1>1. rs = [rows EXCEPT ![e] = Priced(rows[e], x, y), ![l] = Deleted(rows[l])]
  BY DEF MergeOpenings
<1>2. x = y
  BY <1>0 DEF OpeningBalanceIsItsAmount
<1>3. rs[e] = Priced(rows[e], x, y) /\ rs[l] = Deleted(rows[l]) /\ \A k \in RowId \ {e, l} : rs[k] = rows[k]
  BY <1>0, <1>1 DEF Table
<1>4. rs[l].state = "deleted"
  BY <1>0, <1>3, DeletedIsRow
<1>5. /\ rs[e].state = "live" /\ rs[e].type = "modifyBalance" /\ rs[e].account \in {from, to}
      /\ rs[e].amount = x /\ rs[e].relAmount = y
  BY <1>0, <1>3 DEF Priced, Row, Live
<1>6. Sound(rs[e])
  BY <1>2, <1>5 DEF Sound, EntryType, TransferType
<1>7. Total(rs, from) + Total(rs, to) = Total(rows, from) + Total(rows, to)
  <2>1. /\ Total(rs, from) = Total(rows, from) - Share(rows[e], from) + Share(rs[e], from) - Share(rows[l], from) + Share(rs[l], from)
        /\ Total(rs, to) = Total(rows, to) - Share(rows[e], to) + Share(rs[e], to) - Share(rows[l], to) + Share(rs[l], to)
    BY <1>0, <1>3, TotalOfTwoRows
  <2>2. Share(rs[l], from) = 0 /\ Share(rs[l], to) = 0
    BY <1>4, NoShare
  <2>3. /\ Share(rows[e], from) + Share(rows[e], to) = Effect(rows[e])
        /\ Share(rows[l], from) + Share(rows[l], to) = Effect(rows[l])
        /\ Share(rs[e], from) + Share(rs[e], to) = Effect(rs[e])
    BY <1>0, <1>5, ShareOfEither DEF Live
  <2>4. Effect(rows[e]) = rows[e].relAmount /\ Effect(rows[l]) = rows[l].relAmount /\ Effect(rs[e]) = y
    BY <1>0, <1>5 DEF Effect
  <2>5. Effect(rs[e]) = Effect(rows[e]) + Effect(rows[l])
    BY <2>4
  <2>6. ASSUME NEW c
        PROVE  /\ Share(rows[e], c) \in Int /\ Share(rows[l], c) \in Int /\ Share(rs[e], c) \in Int
               /\ Total(rows, c) \in Int /\ Total(rs, c) \in Int
    BY <1>0, ShareIsInteger, TotalIsInteger
  <2>7. Effect(rows[e]) \in Int /\ Effect(rows[l]) \in Int
    BY <1>0, ShareIsInteger
  <2>8. /\ Share(rows[e], to) = Effect(rows[e]) - Share(rows[e], from)
        /\ Share(rows[l], to) = Effect(rows[l]) - Share(rows[l], from)
        /\ Share(rs[e], to) = Effect(rows[e]) + Effect(rows[l]) - Share(rs[e], from)
    BY <2>3, <2>5, <2>6, <2>7
  <2>9. Total(rs, from) = Total(rows, from) - Share(rows[e], from) + Share(rs[e], from) - Share(rows[l], from)
    BY <2>1, <2>2, <2>6
  <2>10. Total(rs, to) = Total(rows, to) + Share(rows[e], from) - Share(rs[e], from) + Share(rows[l], from)
    BY <2>1, <2>2, <2>6, <2>7, <2>8
  <2> QED
    BY <2>6, <2>9, <2>10
<1> QED
  BY <1>3, <1>4, <1>6, <1>7

\* Opening balances are settled by standing, by a date or by a merge.
LEMMA SettledCases ==
    ASSUME NEW from, NEW to, NEW rs \in SettledOpenings(from, to)
    PROVE  \/ rs = rows
           \/ \E e \in Openings({from, to}) : \E other : rs \in MoveOpening(e, other)
           \/ \E e, l \in Openings({from, to}) : e # l /\ rs \in MergeOpenings(e, l)
<1> DEFINE B == Openings({from, to})
<1>1. CASE B = {}
  BY <1>1 DEF SettledOpenings
<1>2. CASE B # {}
  <2> DEFINE Into(e, l) == IF B = {e} THEN MoveOpening(e, IF rows[e].account = from THEN to ELSE from)
                           ELSE IF B = {e, l} /\ rows[e].account = rows[l].account THEN {rows}
                           ELSE IF B = {e, l} /\ Earlier(rows[e].time, rows[l].time) THEN MergeOpenings(e, l)
                           ELSE {}
  <2>0. rs \in UNION {Into(e, l) : e \in B, l \in B}
    BY <1>2 DEF SettledOpenings
  <2> HIDE DEF B, Into
  <2>1. PICK e \in B, l \in B : rs \in Into(e, l)
    BY <2>0
  <2> USE DEF Into
  <2>2. CASE B = {e}
    BY <2>1, <2>2 DEF B
  <2>3. CASE B # {e}
    <3>1. B = {e, l} /\ (rs = rows \/ rs \in MergeOpenings(e, l))
      BY <2>1, <2>3
    <3>2. e # l
      BY <2>3, <3>1
    <3> QED
      BY <3>1, <3>2 DEF B
  <2> QED
    BY <2>2, <2>3
<1> QED
  BY <1>1, <1>2

\* Settling the opening balances of two accounts keeps what the two hold together,
\* leaves every other account alone, and each opening balance its amount.
LEMMA SettlingKeepsTotals ==
    ASSUME RowsInv, OpeningBalanceIsItsAmount, NEW from \in Account, NEW to \in Account, from # to,
           NEW rs \in SettledOpenings(from, to)
    PROVE  /\ Total(rs, from) + Total(rs, to) = Total(rows, from) + Total(rows, to)
           /\ \A k \in RowId : rs[k] = rows[k] \/ rs[k].state # "live" \/ Sound(rs[k])
<1> DEFINE B == Openings({from, to})
           Kept == /\ Total(rs, from) + Total(rs, to) = Total(rows, from) + Total(rows, to)
                   /\ \A k \in RowId : rs[k] = rows[k] \/ rs[k].state # "live" \/ Sound(rs[k])
<1>0. rs \in Table /\ rows \in Table
  BY SettledOpeningsAreSettled DEF Settled, RowsInv
<1>1. rs = rows => Kept
  OBVIOUS
<1>2. ASSUME NEW e \in B, NEW other, rs \in MoveOpening(e, other)
      PROVE  Kept
  <2>1. CASE rs = rows
    BY <1>1, <2>1
  <2>2. CASE rs # rows
    <3>1. PICK t : rs = [rows EXCEPT ![e] = Dated(rows[e], t)]
      BY <1>2, <2>2 DEF MoveOpening
    <3>2. e \in RowId /\ rows[e] \in Row /\ rs[e] = Dated(rows[e], t) /\ \A k \in RowId \ {e} : rs[k] = rows[k]
      BY <1>0, <3>1 DEF Table, Openings
    <3>3. /\ rs[e].state = rows[e].state /\ rs[e].type = rows[e].type /\ rs[e].account = rows[e].account
          /\ rs[e].amount = rows[e].amount /\ rs[e].relAmount = rows[e].relAmount
      BY <3>2 DEF Dated, Row
    <3>4. \A c : Share(rs[e], c) = Share(rows[e], c)
      BY <3>3 DEF Share, Effect
    <3>5. \A k \in RowId : \A c : Share(rs[k], c) = Share(rows[k], c)
      BY <3>2, <3>4
    <3>6. Total(rs, from) = Total(rows, from) /\ Total(rs, to) = Total(rows, to)
      BY <1>0, <3>5, TotalStands
    <3>7. rows[e].type = "modifyBalance" /\ rows[e].relAmount = rows[e].amount
      BY DEF Openings, OpeningBalanceIsItsAmount
    <3>8. Sound(rs[e])
      BY <3>3, <3>7 DEF Sound, EntryType, TransferType
    <3> QED
      BY <3>2, <3>6, <3>8
  <2> QED
    BY <2>1, <2>2
<1>3. ASSUME NEW e \in B, NEW l \in B, e # l, rs \in MergeOpenings(e, l)
      PROVE  Kept
  BY <1>0, <1>3, MergingKeepsTotals
<1> HIDE DEF B, Kept
<1>4. \/ rs = rows
      \/ \E e \in B : \E other : rs \in MoveOpening(e, other)
      \/ \E e, l \in B : e # l /\ rs \in MergeOpenings(e, l)
  BY SettledCases DEF B
<1>5. Kept
  BY <1>1, <1>2, <1>3, <1>4
<1> QED
  BY <1>5 DEF Kept

\* the live rows of rs that are transfers between the two accounts
Between(rs, from, to) == {k \in RowId : rs[k].state = "live" /\ WithinAccount(Renamed(rs[k], from, to), to)}

\* The transfers between two accounts of one currency cancel out, half by half.
LEMMA TransfersBetweenCancel ==
    ASSUME RowsInv, OneAmountPerCurrency, NEW from \in Account, NEW to \in Account, from # to,
           Currency[from] = Currency[to], NEW rs, Settled(rs, from, to)
    PROVE  SumFunctionOnSet([k \in RowId |-> Effect(rs[k])], Between(rs, from, to)) = 0
<1> DEFINE F == [k \in RowId |-> Effect(rs[k])]
           S == Between(rs, from, to)
           m == [k \in RowId |-> rs[k].relId]
<1>0. rs \in Table /\ rows \in Table /\ \A k \in RowId : rs[k] \in Row /\ rows[k] \in Row
  BY DEF RowsInv, Settled, Table
<1>1. S \in SUBSET RowId /\ IsFiniteSet(S)
  <2>1. S \in SUBSET RowId /\ IsFiniteSet(RowId)
    BY LedgerAssumption DEF Between
  <2> HIDE DEF S
  <2> QED
    BY <2>1, FS_Subset
<1>2. \A k \in RowId : k \in S <=> /\ rs[k].state = "live" /\ rs[k].type \in TransferType
                                   /\ rs[k].account \in {from, to} /\ rs[k].relAccount \in {from, to}
  <2>1. TAKE k \in RowId
  <2>2. /\ Renamed(rs[k], from, to).type = rs[k].type
        /\ Renamed(rs[k], from, to).account = IF rs[k].account = from THEN to ELSE rs[k].account
        /\ Renamed(rs[k], from, to).relAccount = IF rs[k].relAccount = from THEN to ELSE rs[k].relAccount
    BY <1>0, RenamedIsRow
  <2> QED
    BY <2>2 DEF Between, WithinAccount
<1>3. ASSUME NEW k \in S
      PROVE  m[k] \in S /\ m[k] # k /\ m[m[k]] = k /\ F[m[k]] = -F[k]
  <2> DEFINE j == rows[k].relId
  <2>1. /\ k \in RowId /\ rs[k].state = "live" /\ rs[k].type \in TransferType
        /\ rs[k].account \in {from, to} /\ rs[k].relAccount \in {from, to}
    BY <1>1, <1>2, <1>3
  <2>2. rs[k] = rows[k]
    BY <2>1 DEF Settled
  <2>3. OtherHalf(k, j)
    BY <2>1, <2>2 DEF RowsInv, TransferHalvesMirror, Live
  <2>4. rs[j] = rows[j] /\ j \in RowId
    BY <2>3 DEF OtherHalf, Settled
  <2>5. Currency[rows[k].account] = Currency[rows[k].relAccount]
    BY <2>1, <2>2
  <2>6. rows[k].relAmount = rows[k].amount
    BY <2>1, <2>2, <2>5 DEF OneAmountPerCurrency, Live
  <2>7. m[k] = j /\ m[j] = rows[j].relId /\ F[k] = Effect(rows[k]) /\ F[j] = Effect(rows[j])
    BY <2>1, <2>2, <2>4
  <2> HIDE DEF m, F, j
  <2>8. j \in S
    BY <1>2, <2>1, <2>2, <2>3, <2>4 DEF OtherHalf, Live
  <2>9. j # k /\ rows[j].relId = k
    BY <2>3 DEF OtherHalf
  <2>10. Effect(rows[j]) = -Effect(rows[k])
    <3>1. rows[j].amount = rows[k].amount /\ rows[k].amount \in Int
      BY <1>0, <2>1, <2>3, <2>6 DEF OtherHalf, Row
    <3>2. \/ rows[k].type = "transferOut" /\ rows[j].type = "transferIn"
          \/ rows[k].type = "transferIn" /\ rows[j].type = "transferOut"
      BY <2>1, <2>2, <2>3 DEF OtherHalf, TransferType
    <3> QED
      BY <3>1, <3>2 DEF Effect, Signed
  <2> QED
    BY <2>7, <2>8, <2>9, <2>10
<1>4. \A k \in S : F[k] \in Int
  BY <1>0, <1>1, ShareIsInteger
<1> HIDE DEF S, F, m
<1>5. SumFunctionOnSet(F, S) = 0
  BY <1>1, <1>3, <1>4, SumOfPairs
<1> QED
  BY <1>5 DEF F, S

\* What a renamed row adds: nothing to the old account, to the new one what it added to
\* either, unless it was a transfer between the two, and as before to any other.
LEMMA ReassignedShares ==
    ASSUME NEW from \in Account, NEW to \in Account, from # to, NEW rs \in Table, NEW k \in RowId
    PROVE  /\ Share(Reassigned(rs, from, to)[k], from) = 0
           /\ Share(rs[k], from) + Share(rs[k], to) =
                  Share(Reassigned(rs, from, to)[k], to) + (IF k \in Between(rs, from, to) THEN Effect(rs[k]) ELSE 0)
           /\ \A c : c \notin {from, to} => Share(Reassigned(rs, from, to)[k], c) = Share(rs[k], c)
<1> DEFINE r == rs[k]
           q == Renamed(r, from, to)
           p == Reassigned(rs, from, to)[k]
<1>0. r \in Row /\ Effect(r) \in Int
  BY ShareIsInteger DEF Table
<1>1. /\ q \in Row /\ q.state = r.state /\ q.type = r.type /\ q.amount = r.amount /\ q.relAmount = r.relAmount
      /\ q.account = IF r.account = from THEN to ELSE r.account
      /\ q.relAccount = IF r.relAccount = from THEN to ELSE r.relAccount
  BY <1>0, RenamedIsRow
<1>2. k \in Between(rs, from, to) <=> r.state = "live" /\ WithinAccount(q, to)
  BY DEF Between
<1>3. p = IF r.state # "live" THEN r ELSE IF WithinAccount(q, to) THEN Deleted(q) ELSE q
  BY DEF Reassigned
<1> HIDE DEF r, q, p
<1>4. CASE r.state # "live"
  <2>1. p = r /\ k \notin Between(rs, from, to)
    BY <1>2, <1>3, <1>4
  <2>2. \A c : Share(r, c) = 0
    BY <1>4, NoShare
  <2> QED
    BY <2>1, <2>2 DEF r, p
<1>5. CASE r.state = "live" /\ WithinAccount(q, to)
  <2>1. k \in Between(rs, from, to)
    BY <1>2, <1>5
  <2>2. r.account \in {from, to}
    BY <1>1, <1>5 DEF WithinAccount
  <2>3. Share(r, from) + Share(r, to) = Effect(r)
    BY <1>0, <1>5, <2>2, ShareOfEither
  <2>4. p.state = "deleted"
    BY <1>1, <1>3, <1>5, DeletedIsRow
  <2>5. \A c : Share(p, c) = 0
    BY <2>4, NoShare
  <2>6. \A c : c \notin {from, to} => Share(r, c) = 0
    BY <2>2 DEF Share
  <2> QED
    BY <1>0, <2>1, <2>3, <2>5, <2>6 DEF r, p
<1>6. CASE r.state = "live" /\ ~WithinAccount(q, to)
  <2>1. p = q /\ k \notin Between(rs, from, to)
    BY <1>2, <1>3, <1>6
  <2>2. Effect(q) = Effect(r)
    BY <1>1 DEF Effect
  <2>3. \A c : Share(q, c) = IF q.account = c THEN Effect(r) ELSE 0
    BY <1>1, <1>6, <2>2 DEF Share
  <2>4. \A c : Share(r, c) = IF r.account = c THEN Effect(r) ELSE 0
    BY <1>6 DEF Share
  <2>5. Share(q, from) = 0 /\ \A c : c \notin {from, to} => Share(q, c) = Share(r, c)
    BY <1>1, <2>3, <2>4
  <2>6. Share(r, from) + Share(r, to) = Share(q, to) + 0
    BY <1>0, <1>1, <2>3, <2>4
  <2> QED
    BY <2>1, <2>5, <2>6 DEF r, p
<1> QED
  BY <1>4, <1>5, <1>6

\* The new account ends with what the two held together, the old one with nothing.
LEMMA ReassignedTotals ==
    ASSUME RowsInv, OneAmountPerCurrency, NEW from \in Account, NEW to \in Account, from # to,
           Currency[from] = Currency[to], NEW rs, Settled(rs, from, to),
           NEW rs2 \in Table, rs2 = Reassigned(rs, from, to)
    PROVE  /\ Total(rs2, from) = 0
           /\ Total(rs2, to) = Total(rs, from) + Total(rs, to)
           /\ \A c : c \notin {from, to} => Total(rs2, c) = Total(rs, c)
<1> DEFINE S == Between(rs, from, to)
           E == [k \in RowId |-> Effect(rs[k])]
           W == [k \in RowId |-> IF k \in S THEN Effect(rs[k]) ELSE 0]
           H == [k \in RowId |-> Share(rs[k], from) + Share(rs[k], to)]
<1>0. rs \in Table /\ IsFiniteSet(RowId) /\ S \in SUBSET RowId
  BY LedgerAssumption DEF Settled, Between
<1>1. \A k \in RowId : Effect(rs[k]) \in Int
  BY <1>0, ShareIsInteger DEF Table
<1>2. \A k \in RowId : /\ Share(rs2[k], from) = 0
                       /\ Share(rs[k], from) + Share(rs[k], to) =
                              Share(rs2[k], to) + (IF k \in S THEN Effect(rs[k]) ELSE 0)
                       /\ \A c : c \notin {from, to} => Share(rs2[k], c) = Share(rs[k], c)
  BY <1>0, ReassignedShares
<1>3. Total(rs2, from) = 0
  BY <1>2, TotalOfNone
<1>4. ASSUME NEW c, c \notin {from, to}
      PROVE  Total(rs2, c) = Total(rs, c)
  BY <1>0, <1>2, <1>4, TotalStands
<1> HIDE DEF S
<1>5. SumFunctionOnSet(W, RowId) = 0
  <2>1. IsFiniteSet(S)
    BY <1>0, FS_Subset
  <2>2. SumFunctionOnSet(E, S) = 0
    BY TransfersBetweenCancel DEF S
  <2>3. \A k \in S : E[k] \in Int /\ W[k] = E[k]
    BY <1>0, <1>1
  <2>4. \A k \in RowId : W[k] \in Int /\ (k \notin S => W[k] = 0)
    BY <1>1
  <2> HIDE DEF E, W
  <2>5. SumFunctionOnSet(W, S) = SumFunctionOnSet(E, S)
    BY <2>1, <2>3, SumOfEqual
  <2>6. SumFunctionOnSet(W, S) = SumFunctionOnSet(W, RowId)
    BY <1>0, <2>4, SumOfSubset
  <2> QED
    BY <2>2, <2>5, <2>6
<1>6. \A k \in RowId : /\ Shares(rs, from)[k] \in Int /\ Shares(rs, to)[k] \in Int /\ Shares(rs2, to)[k] \in Int
                       /\ Shares(rs, from)[k] = Share(rs[k], from) /\ Shares(rs, to)[k] = Share(rs[k], to)
                       /\ Shares(rs2, to)[k] = Share(rs2[k], to)
  BY <1>0, SharesAreIntegers
<1>7. \A k \in RowId : W[k] \in Int /\ H[k] = Shares(rs, from)[k] + Shares(rs, to)[k]
                       /\ H[k] = Shares(rs2, to)[k] + W[k]
  BY <1>1, <1>2, <1>6
<1> HIDE DEF W, H
<1>8. SumFunctionOnSet(H, RowId) = Total(rs, from) + Total(rs, to)
  BY <1>0, <1>6, <1>7, SumOfSums DEF Total
<1>9. SumFunctionOnSet(H, RowId) = Total(rs2, to) + SumFunctionOnSet(W, RowId)
  BY <1>0, <1>6, <1>7, SumOfSums DEF Total
<1>10. Total(rs2, to) \in Int /\ Total(rs, from) \in Int /\ Total(rs, to) \in Int
  BY <1>0, TotalIsInteger
<1>11. Total(rs2, to) = Total(rs, from) + Total(rs, to)
  BY <1>5, <1>8, <1>9, <1>10
<1> QED
  BY <1>3, <1>4, <1>11

\* Moving every row of an account moves its balance with them.
LEMMA MoveAllTransactionsBalances ==
    ASSUME LedgerInv, rows' \in Table, BalanceInv, NEW from \in Account, NEW to \in Account,
           MoveAllTransactionsBetweenAccounts(from, to)
    PROVE  BalanceInv'
<1>0. TypeOK /\ RowsInv /\ rows \in Table /\ balance \in [Account -> Int]
      /\ Amounts /\ OneAmountPerCurrency /\ OpeningBalanceIsItsAmount
  BY LedgerAssumption DEF LedgerInv, RowsInv, TypeOK, BalanceInv, Amounts
<1>1. /\ from # to /\ status[from] = "open" /\ status[to] = "open" /\ Currency[from] = Currency[to] /\ UNCHANGED status
      /\ balance' = [balance EXCEPT ![to] = balance[to] + balance[from], ![from] = 0]
  BY DEF MoveAllTransactionsBetweenAccounts, Usable
<1>2. PICK rs \in SettledOpenings(from, to) : rows' = Reassigned(rs, from, to)
  BY DEF MoveAllTransactionsBetweenAccounts
<1>3. Settled(rs, from, to)
  BY <1>0, <1>1, <1>2, SettledOpeningsAreSettled
<1>4. /\ Total(rs, from) + Total(rs, to) = Total(rows, from) + Total(rows, to)
      /\ \A k \in RowId : rs[k] = rows[k] \/ rs[k].state # "live" \/ Sound(rs[k])
  BY <1>0, <1>1, <1>2, SettlingKeepsTotals
<1>5. /\ Total(rows', from) = 0
      /\ Total(rows', to) = Total(rs, from) + Total(rs, to)
      /\ \A c : c \notin {from, to} => Total(rows', c) = Total(rs, c)
  BY <1>0, <1>1, <1>2, <1>3, ReassignedTotals
<1>6. rs \in Table /\ \A k \in RowId : rs[k] \in Row /\ rows[k] \in Row
  BY <1>0, <1>3 DEF Settled, Table
<1>7. \A k \in RowId : rs[k].state = "live" => Sound(rs[k])
  BY <1>0, <1>4 DEF Sound, Amounts, OneAmountPerCurrency, EntriesHaveOneAccount, OpeningBalanceIsItsAmount, Live
<1>8. Amounts'
  <2>1. ASSUME NEW k \in RowId, rows'[k].state = "live"
        PROVE  Sound(rows'[k])
    <3> DEFINE q == Renamed(rs[k], from, to)
    <3>1. /\ q \in Row /\ q.type = rs[k].type /\ q.amount = rs[k].amount /\ q.relAmount = rs[k].relAmount
          /\ q.account = IF rs[k].account = from THEN to ELSE rs[k].account
          /\ q.relAccount = IF rs[k].relAccount = from THEN to ELSE rs[k].relAccount
      BY <1>6, RenamedIsRow
    <3>2. Deleted(q).state = "deleted"
      BY <3>1, DeletedIsRow
    <3>3. rows'[k] = q /\ rs[k].state = "live"
      BY <1>2, <2>1, <3>2 DEF Reassigned
    <3> HIDE DEF q
    <3>4. Sound(rs[k])
      BY <1>7, <3>3
    <3>5. from # NoAccount
      BY LedgerAssumption
    <3>6. Sound(q)
      BY <1>1, <3>1, <3>4, <3>5 DEF Sound
    <3> QED
      BY <3>3, <3>6
  <2> QED
    BY <1>0, <2>1, SoundRowsKeepAmounts
<1>9. ASSUME NEW c \in Account, status[c] = "open"
      PROVE  balance'[c] = Total(rows', c)
  <2>1. balance[from] = Total(rows, from) /\ balance[to] = Total(rows, to) /\ balance[c] = Total(rows, c)
    BY <1>1, <1>9 DEF BalanceInv, BalancesAreTotals
  <2>2. balance'[from] = 0 /\ balance'[to] = balance[to] + balance[from] /\ (c \notin {from, to} => balance'[c] = balance[c])
    BY <1>0, <1>1
  <2>3. balance[from] \in Int /\ balance[to] \in Int
    BY <1>0
  <2>4. CASE c = from
    BY <1>5, <2>2, <2>4
  <2>5. CASE c = to
    BY <1>4, <1>5, <2>1, <2>2, <2>3, <2>5
  <2>6. CASE c \notin {from, to}
    <3>1. \A k \in RowId : k \notin Openings({from, to}) => rs[k] = rows[k]
      BY <1>0, <1>1, <1>2, SettledChangesOpenings
    <3>2. \A k \in RowId : Share(rs[k], c) = Share(rows[k], c)
      <4>1. TAKE k \in RowId
      <4>2. rs[k].account = rows[k].account
        BY <1>3 DEF Settled
      <4> QED
        BY <2>6, <3>1, <4>2 DEF Share, Openings
    <3>3. Total(rs, c) = Total(rows, c)
      BY <1>0, <1>6, <3>2, TotalStands
    <3> QED
      BY <1>5, <2>1, <2>2, <2>6, <3>3
  <2> QED
    BY <2>4, <2>5, <2>6
<1> QED
  BY <1>1, <1>8, <1>9 DEF BalanceInv, BalancesAreTotals

-----------------------------------------------------------------------------
(* Theorems *)

\* No account is open and no row is there at first.
LEMMA InitBalances == Init => BalanceInv
<1> SUFFICES ASSUME Init PROVE BalanceInv
  OBVIOUS
<1>1. \A a \in Account : status[a] # "open"
  BY DEF Init
<1>2. \A i \in RowId : rows[i].state # "live"
  BY DEF Init, Unused
<1> QED
  BY <1>1, <1>2 DEF BalanceInv, BalancesAreTotals, Amounts, OneAmountPerCurrency, EntriesHaveOneAccount,
                    OpeningBalanceIsItsAmount, Live

\* Every step keeps the balances and the amounts.
LEMMA NextBalances == LedgerInv /\ BalanceInv /\ [Next]_vars => BalanceInv'
<1> SUFFICES ASSUME LedgerInv, BalanceInv, [Next]_vars PROVE BalanceInv'
  OBVIOUS
<1>0. rows' \in Table
  BY NextKeeps DEF LedgerInv, RowsInv
<1>1. ASSUME NEW a \in Account, NEW x \in Amount \cup {0}, NEW s \in Second, CreateAccount(a, x, s)
      PROVE  BalanceInv'
  BY <1>0, <1>1, CreateAccountBalances
<1>2. ASSUME NEW a \in Account, NEW h \in BOOLEAN, HideAccount(a, h)
      PROVE  BalanceInv'
  BY <1>2, UnpostedBalances DEF HideAccount
<1>3. ASSUME NEW a \in Account, DeleteAccount(a)
      PROVE  BalanceInv'
  BY <1>0, <1>3, DeleteAccountBalances
<1>4. ASSUME NEW a \in Account, NEW x \in Amount, NEW s \in Second, NEW T \in SUBSET Tag,
             CreateBalanceModification(a, x, s, T)
      PROVE  BalanceInv'
  BY <1>0, <1>4, CreateBalanceModificationBalances
<1>5. ASSUME NEW a \in Account, NEW type \in EntryType, NEW x \in Amount, NEW s \in Second,
             NEW T \in SUBSET Tag, CreateEntry(type, a, x, s, T)
      PROVE  BalanceInv'
  BY <1>0, <1>5, CreateEntryBalances
<1>6. ASSUME NEW a \in Account, NEW b \in Account, MoveAllTransactionsBetweenAccounts(a, b)
      PROVE  BalanceInv'
  BY <1>0, <1>6, MoveAllTransactionsBalances
<1>7. ASSUME NEW a \in Account, NEW b \in Account, NEW x \in Amount, NEW y \in Amount, NEW s \in Second,
             NEW T \in SUBSET Tag, CreateTransfer(a, x, b, y, s, T)
      PROVE  BalanceInv'
  BY <1>0, <1>7, CreateTransferBalances
<1>8. ASSUME NEW i \in RowId, DeleteTransaction(i)
      PROVE  BalanceInv'
  BY <1>0, <1>8, DeleteTransactionBalances
<1>9. ASSUME NEW i \in RowId, NEW T \in SUBSET Tag, BatchAddTags(i, T) \/ BatchRemoveTags(i, T)
      PROVE  BalanceInv'
  BY <1>9, UnpostedBalances DEF BatchAddTags, BatchRemoveTags
<1>10. ASSUME NEW i \in RowId, NEW T \in SUBSET Tag, NEW x \in Amount, ModifyBalanceModification(i, x, T)
       PROVE  BalanceInv'
  BY <1>0, <1>10, ModifyBalanceModificationBalances
<1>11. ASSUME NEW i \in RowId, NEW T \in SUBSET Tag, NEW a \in Account, NEW x \in Amount, NEW s \in Second,
              NEW type \in EntryType, ModifyToEntry(i, type, a, x, s, T)
       PROVE  BalanceInv'
  BY <1>0, <1>11, ModifyToEntryBalances
<1>12. ASSUME NEW i \in RowId, NEW T \in SUBSET Tag, NEW a \in Account, NEW x \in Amount, NEW s \in Second,
              NEW b \in Account, NEW y \in Amount, ModifyEntryToTransfer(i, a, x, b, y, s, T)
       PROVE  BalanceInv'
  BY <1>0, <1>12, ModifyEntryToTransferBalances
<1>13. ASSUME NEW i \in RowId, NEW T \in SUBSET Tag, NEW a \in Account, NEW x \in Amount, NEW s \in Second,
              NEW b \in Account, NEW y \in Amount, ModifyTransfer(i, a, x, b, y, s, T)
       PROVE  BalanceInv'
  BY <1>0, <1>13, ModifyTransferBalances
<1>14. ASSUME NEW alsoAccounts \in BOOLEAN, DeleteAllTransactions(alsoAccounts)
       PROVE  BalanceInv'
  BY <1>0, <1>14, DeleteAllTransactionsBalances
<1>15. CASE UNCHANGED vars
  BY <1>15, UnpostedBalances DEF vars
<1> QED
  BY <1>1, <1>2, <1>3, <1>4, <1>5, <1>6, <1>7, <1>8, <1>9, <1>10, <1>11, <1>12, <1>13, <1>14, <1>15 DEF Next

\* In every reachable state an open account's balance is the total of its shares, and the
\* amounts agree: transfers within a currency, and opening balances.
LEMMA BalancesAreInvariant == Spec => []BalanceInv
<1>1. Init => BalanceInv
  BY InitBalances
<1>2. LedgerInv /\ BalanceInv /\ [Next]_vars => BalanceInv'
  BY NextBalances
<1> QED
  BY <1>1, <1>2, LedgerIsInductive, PTL DEF Spec

\* The balance stored with an account is the sum of its live rows, however many there
\* are and whatever sequence of operations of pkg/services led there.
THEOREM LedgerBalancesAreSums == Spec => []BalanceIsSumOfRows
<1>1. LedgerInv /\ BalanceInv => BalanceIsSumOfRows
  <2> SUFFICES ASSUME LedgerInv, BalanceInv PROVE BalanceIsSumOfRows
    OBVIOUS
  <2>1. rows \in Table /\ BalancesAreTotals
    BY DEF LedgerInv, RowsInv, BalanceInv
  <2>2. \A a \in Account : Total(rows, a) = SumFunctionOnSet(Effects, LiveOn(a))
    BY <2>1, TotalIsSumOfRows
  <2> QED
    BY <2>1, <2>2 DEF BalancesAreTotals, BalanceIsSumOfRows
<1> QED
  BY <1>1, LedgerIsInductive, BalancesAreInvariant, PTL

\* An opening balance added to its account the amount it shows, edits, merges and moves included.
THEOREM LedgerOpeningsAreAmounts == Spec => []OpeningBalanceIsItsAmount
<1>1. BalanceInv => OpeningBalanceIsItsAmount
  BY DEF BalanceInv, Amounts
<1> QED
  BY <1>1, BalancesAreInvariant, PTL
=============================================================================
