---------------------------- MODULE ServerProofs ----------------------------
(***************************************************************************)
(* The server creates a form's row once, a scheduled row once for each     *)
(* window, and misses no window whose run was on time and did not fail,    *)
(* for any forms, templates, interval and number of requests, through      *)
(* failures, late timers and crashes.                                      *)
(*                                                                         *)
(* A balance is the sum of its account's rows, unless a session that wrote *)
(* the account was overtaken.                                              *)
(*                                                                         *)
(* The argument for forms: while a form is neither forgotten nor under way *)
(* twice, a row of it is remembered or a request is about to remember it.  *)
(* For the job: a run leaves the scheduler planning a second in a later    *)
(* window, and running info that ends before that second unless the run    *)
(* started late.                                                           *)
(***************************************************************************)
EXTENDS Server, SumProofs, SequenceTheorems

Remembering(c, s) == calls[c].pc = "remember" /\ calls[c].of = s

RetryInv ==
    \A s \in Submission \ (forgotten \cup together) :
        /\ \A c, d \in Client : Creating(c, s) /\ Creating(d, s) => c = d
        /\ \A c \in Client : Creating(c, s) => ~Found(s)
        /\ \A c \in Client : Remembering(c, s) => rows[calls[c].row].of = s
        /\ \A u \in Ids : rows[u].of = s => Found(s) \/ \E c \in Client : Remembering(c, s)
        /\ \A u, v \in Ids : rows[u].of = s /\ rows[v].of = s => u = v
        /\ Found(s) => rows[remarks[s]].of = s

\* row u is the one of template t for window w
Is(u, t, w) == rows[u].of = <<t, w>>

PlanInv ==
    /\ \E k \in Nat : next = Boundary(k)
    /\ next <= PlanNext(now)
    /\ ~Resting => Boundary(job.window + 1) <= next

OnceInv ==
    \A u \in Ids, t \in Template, w \in Nat \ byHand :
        Is(u, t, w) =>
          /\ Boundary(w + 1) <= next
          /\ w = job.window => t \notin job.todo
          /\ \A v \in Ids : Is(v, t, w) => u = v

Handled(t, w) ==
    \/ \E u \in Ids : Is(u, t, w)
    \/ <<t, w>> \in failed
    \/ job.window = w /\ t \in job.todo

OnTimeInv ==
    /\ \A w \in Nat : w <= Window(now) =>
         \/ w \in delayed
         \/ w = Window(now) /\ Overdue
         \/ \A t \in Scheduled(w) : Handled(t, w)
    /\ Overdue /\ Window(now) \notin delayed => Resting /\ runningUntil < now
    /\ Overdue /\ now # Boundary(Window(now)) => Window(now) + 1 \in delayed
    /\ runningUntil < Boundary(Window(now) + 1) \/ Window(now) + 1 \in delayed
    /\ runningUntil < now + Interval

-----------------------------------------------------------------------------
(* Rows *)

BooksTyped == rows \in Seq(Row) /\ balance \in [Account -> Int] /\ mixed \subseteq Account

\* a row keeps the form or the template that it was created for
OriginsKept == Ids \subseteq Ids' /\ \A t \in Ids : rows'[t].of = rows[t].of

LEMMA RowsAreRows ==
    ASSUME rows \in Seq(Row)
    PROVE  /\ Len(rows) \in Nat /\ Ids = 1 .. Len(rows)
           /\ \A t \in Ids : rows[t] \in Row
           /\ \A t \in Ids : /\ rows[t].account \in Account /\ rows[t].amount \in Amount
                             /\ rows[t].live \in BOOLEAN /\ rows[t].of \in Origin
<1>1. /\ Len(rows) \in Nat /\ Ids = 1 .. Len(rows)
      /\ \A t \in Ids : rows[t] \in Row
  BY LenProperties, ElementOfSeq DEF Ids
<1> QED BY <1>1 DEF Row

LEMMA InsertAdds ==
    ASSUME BooksTyped, NEW a \in Account, NEW v \in Amount, NEW of \in Origin, Insert(a, v, of)
    PROVE  /\ BooksTyped' /\ OriginsKept
           /\ Ids' = Ids \cup {NextRow} /\ NextRow \notin Ids
           /\ rows'[NextRow].of = of
<1> DEFINE row == [account |-> a, amount |-> v, live |-> TRUE, of |-> of]
<1>1. row \in Row
  BY DEF Row
<1>2. Len(rows) \in Nat /\ Ids = 1 .. Len(rows)
  BY RowsAreRows DEF BooksTyped
<1>3. rows' = Append(rows, row) /\ rows \in Seq(Row)
  BY DEF Insert, BooksTyped
<1>4. /\ rows' \in Seq(Row) /\ Len(rows') = Len(rows) + 1
      /\ \A t \in 1 .. Len(rows) : rows'[t] = rows[t]
      /\ rows'[Len(rows) + 1] = row
  BY <1>1, <1>3, AppendProperties
<1>5. Ids' = 1 .. Len(rows) + 1
  BY <1>4, LenProperties DEF Ids
<1>6. balance' \in [Account -> Int]
  BY ServerAssumption DEF Insert, BooksTyped
<1> QED BY <1>2, <1>4, <1>5, <1>6 DEF Insert, BooksTyped, OriginsKept, NextRow

LEMMA RowsReplaced ==
    ASSUME rows \in Seq(Row), rows' = [t \in Ids |-> rows'[t]], \A t \in Ids : rows'[t] \in Row
    PROVE  rows' \in Seq(Row) /\ Ids' = Ids
<1>1. Len(rows) \in Nat /\ Ids = 1 .. Len(rows)
  BY RowsAreRows
<1>2. rows' = [t \in 1 .. Len(rows) |-> rows'[t]] /\ \A t \in 1 .. Len(rows) : rows'[t] \in Row
  BY <1>1
<1>3. rows' \in Seq(Row)
  BY <1>1, <1>2, IsASeq
<1>4. DOMAIN rows' = 1 .. Len(rows)
  BY <1>2
<1> QED BY <1>1, <1>3, <1>4 DEF Ids

LEMMA RowRewritten ==
    ASSUME NEW r \in Row, NEW x, NEW y
    PROVE  [[r EXCEPT !.account = x] EXCEPT !.amount = y]
             = [account |-> x, amount |-> y, live |-> r.live, of |-> r.of]
<1>1. r = [account |-> r.account, amount |-> r.amount, live |-> r.live, of |-> r.of]
  BY DEF Row
<1> DEFINE one == [r EXCEPT !.account = x]
           two == [one EXCEPT !.amount = y]
<1>2. DOMAIN r = {"account", "amount", "live", "of"}
  BY <1>1
<1>3. one = [f \in DOMAIN r |-> IF f = "account" THEN x ELSE r[f]]
  OBVIOUS
<1>4. two = [f \in DOMAIN r |-> IF f = "amount" THEN y ELSE IF f = "account" THEN x ELSE r[f]]
  BY <1>3
<1>5. two = [account |-> x, amount |-> y, live |-> r.live, of |-> r.of]
  BY <1>2, <1>4
<1> QED BY <1>5

LEMMA UpdateKeeps ==
    ASSUME BooksTyped, NEW t \in Ids, NEW read \in Row, NEW a \in Account, NEW v \in Amount,
           Update(t, read, a, v)
    PROVE  BooksTyped' /\ OriginsKept /\ Ids' = Ids
<1>1. rows \in Seq(Row) /\ Ids = 1 .. Len(rows) /\ \A u \in Ids : rows[u] \in Row
  BY RowsAreRows DEF BooksTyped
<1>2. rows' = [rows EXCEPT ![t].account = IF a # read.account THEN a ELSE @,
                           ![t].amount = IF v # read.amount THEN v ELSE @]
  BY DEF Update
<1>3. PICK x \in Account, y \in Amount :
        rows' = [rows EXCEPT ![t] = [account |-> x, amount |-> y, live |-> rows[t].live, of |-> rows[t].of]]
  <2>1. rows[t] = [account |-> rows[t].account, amount |-> rows[t].amount,
                   live |-> rows[t].live, of |-> rows[t].of]
    BY <1>1 DEF Row
  <2>2. rows[t].account \in Account /\ rows[t].amount \in Amount
    BY <1>1 DEF Row
  <2> DEFINE x == IF a # read.account THEN a ELSE rows[t].account
             y == IF v # read.amount THEN v ELSE rows[t].amount
             row == [account |-> x, amount |-> y, live |-> rows[t].live, of |-> rows[t].of]
  <2>3. x \in Account /\ y \in Amount
    BY <2>2
  <2>4. [[rows[t] EXCEPT !.account = x] EXCEPT !.amount = y] = row
    BY <1>1, RowRewritten
  <2>5. t \in DOMAIN rows
    BY DEF Ids
  <2>6. rows' = [rows EXCEPT ![t] = row]
    BY <1>2, <2>4, <2>5
  <2> QED BY <2>3, <2>6
<1> DEFINE row == [account |-> x, amount |-> y, live |-> rows[t].live, of |-> rows[t].of]
<1>4. row \in Row /\ row.of = rows[t].of
  BY <1>1 DEF Row
<1>5. rows' = [u \in Ids |-> rows'[u]] /\ \A u \in Ids : rows'[u] = IF u = t THEN row ELSE rows[u]
  BY <1>3 DEF Ids
<1>6. rows' \in Seq(Row) /\ Ids' = Ids
  BY <1>1, <1>4, <1>5, RowsReplaced
<1>7. OriginsKept
  BY <1>4, <1>5, <1>6 DEF OriginsKept
<1>8. balance' \in [Account -> Int] /\ mixed' \subseteq Account
  <2>1. read.account \in Account /\ read.amount \in Int /\ v \in Int /\ rows[t].account \in Account
    BY <1>1, ServerAssumption DEF Row
  <2>2. \A z \in Account :
          balance[z] - (IF z = read.account THEN read.amount ELSE 0) + (IF z = a THEN v ELSE 0) \in Int
    BY <2>1 DEF BooksTyped
  <2>3. balance' \in [Account -> Int]
    BY <2>2 DEF Update, Rebooked
  <2>4. mixed' = mixed \/ mixed' = mixed \cup {read.account, a, rows[t].account}
    BY DEF Update, Mixes
  <2>5. mixed' \subseteq Account
    BY <2>1, <2>4 DEF BooksTyped
  <2> QED BY <2>3, <2>5
<1> QED BY <1>6, <1>7, <1>8 DEF BooksTyped

LEMMA RemoveKeeps ==
    ASSUME BooksTyped, NEW t \in Ids, NEW read \in Row, Remove(t, read)
    PROVE  BooksTyped' /\ OriginsKept /\ Ids' = Ids
<1>1. rows \in Seq(Row) /\ Ids = 1 .. Len(rows) /\ \A u \in Ids : rows[u] \in Row
  BY RowsAreRows DEF BooksTyped
<1> DEFINE row == [rows[t] EXCEPT !.live = FALSE]
<1>2. row \in Row /\ row.of = rows[t].of
  BY <1>1 DEF Row
<1>3. rows' = [rows EXCEPT ![t] = row]
  BY DEF Remove
<1>4. rows' = [u \in Ids |-> rows'[u]] /\ \A u \in Ids : rows'[u] = IF u = t THEN row ELSE rows[u]
  BY <1>3 DEF Ids
<1>5. rows' \in Seq(Row) /\ Ids' = Ids
  BY <1>1, <1>2, <1>4, RowsReplaced
<1>6. OriginsKept
  BY <1>2, <1>4, <1>5 DEF OriginsKept
<1>7. balance' \in [Account -> Int] /\ mixed' \subseteq Account
  <2>1. read.account \in Account /\ read.amount \in Int /\ rows[t].account \in Account
    BY <1>1, ServerAssumption DEF Row
  <2> QED BY <2>1 DEF Remove, Mixes, BooksTyped
<1> QED BY <1>5, <1>6, <1>7 DEF BooksTyped

LEMMA MoveKeeps ==
    ASSUME BooksTyped, NEW from \in Account, NEW to \in Account, NEW read \in Int,
           MoveAll(from, to, read)
    PROVE  BooksTyped' /\ OriginsKept /\ Ids' = Ids
<1>1. rows \in Seq(Row) /\ Ids = 1 .. Len(rows) /\ \A u \in Ids : rows[u] \in Row
  BY RowsAreRows DEF BooksTyped
<1>2. \A u \in Ids : [rows[u] EXCEPT !.account = to] \in Row
                     /\ [rows[u] EXCEPT !.account = to].of = rows[u].of
  BY <1>1 DEF Row
<1>3. rows' = [u \in Ids |-> IF u \in Booked(from) THEN [rows[u] EXCEPT !.account = to] ELSE rows[u]]
  BY DEF MoveAll
<1>4. rows' = [u \in Ids |-> rows'[u]]
  BY <1>3
<1>5. \A u \in Ids : rows'[u] \in Row /\ rows'[u].of = rows[u].of
  BY <1>1, <1>2, <1>3
<1>6. rows' \in Seq(Row) /\ Ids' = Ids
  BY <1>1, <1>4, <1>5, RowsReplaced
<1>7. OriginsKept
  BY <1>5, <1>6 DEF OriginsKept
<1>8. balance' \in [Account -> Int] /\ mixed' \subseteq Account
  BY DEF MoveAll, Mixes, BooksTyped
<1> QED BY <1>6, <1>7, <1>8 DEF BooksTyped

-----------------------------------------------------------------------------
(* Types *)

CallsTyped == calls \in [Client -> Call]
CheckerTyped ==
    /\ DOMAIN remarks \subseteq Submission /\ \A s \in DOMAIN remarks : remarks[s] \in Ids
    /\ runningUntil \in Int
SchedulerTyped ==
    /\ {now, next, events} \subseteq Nat
    /\ job \in [window : Nat, todo : SUBSET Template]
    /\ {delayed, byHand} \subseteq SUBSET Nat
    /\ failed \subseteq Template \X Nat
FormsTyped == {forgotten, together} \subseteq SUBSET Submission

LEMMA TypeOKParts == TypeOK <=> BooksTyped /\ CallsTyped /\ CheckerTyped /\ SchedulerTyped /\ FormsTyped
BY DEF TypeOK, BooksTyped, CallsTyped, CheckerTyped, SchedulerTyped, FormsTyped

LEMMA TypeOKPartsNext ==
    ASSUME BooksTyped', CallsTyped', CheckerTyped', SchedulerTyped', FormsTyped'
    PROVE  TypeOK'
BY DEF TypeOK, BooksTyped, CallsTyped, CheckerTyped, SchedulerTyped, FormsTyped

LEMMA CallParts ==
    ASSUME NEW r \in Call
    PROVE  /\ r.pc \in {"create", "remember"} => r.of \in Submission
           /\ r.pc = "remember" => r.row \in Ids
           /\ r.pc \in {"modify", "delete"} => r.row \in Ids /\ r.read \in Row
           /\ r.pc = "modify" => r.account \in Account /\ r.amount \in Amount
           /\ r.pc = "move" => r.from \in Account /\ r.to \in Account /\ r.read \in Int
BY DEF Call, Idle

LEMMA CallsStay ==
    ASSUME CallsTyped, Ids \subseteq Ids', UNCHANGED calls
    PROVE  CallsTyped'
<1>1. Call \subseteq Call'
  BY DEF Call
<1> QED BY <1>1 DEF CallsTyped

LEMMA CallGoes ==
    ASSUME CallsTyped, Ids \subseteq Ids', NEW c \in Client, NEW r \in Call', Goto(c, r)
    PROVE  CallsTyped' /\ \A d \in Client : calls'[d] = IF d = c THEN r ELSE calls[d]
<1>1. Call \subseteq Call'
  BY DEF Call
<1> QED BY <1>1 DEF CallsTyped, Goto

LEMMA CheckerStays ==
    ASSUME CheckerTyped, Ids \subseteq Ids', UNCHANGED checker
    PROVE  CheckerTyped'
BY DEF CheckerTyped, checker

LEMMA CallAt ==
    ASSUME CallsTyped, NEW c \in Client
    PROVE  calls[c] \in Call
BY DEF CallsTyped

LEMMA BooksStay ==
    ASSUME BooksTyped, UNCHANGED books
    PROVE  BooksTyped' /\ OriginsKept /\ Ids' = Ids
BY DEF BooksTyped, books, OriginsKept, Ids

LEMMA WriteKeeps ==
    ASSUME BooksTyped, CallsTyped, NEW c \in Client, Write(c)
    PROVE  BooksTyped' /\ OriginsKept /\ Ids' = Ids
<1>1. CASE At(c, "modify") /\ Update(calls[c].row, calls[c].read, calls[c].account, calls[c].amount)
  BY <1>1, CallAt, CallParts, UpdateKeeps DEF At
<1>2. CASE At(c, "delete") /\ Remove(calls[c].row, calls[c].read)
  BY <1>2, CallAt, CallParts, RemoveKeeps DEF At
<1>3. CASE At(c, "move") /\ MoveAll(calls[c].from, calls[c].to, calls[c].read)
  BY <1>3, CallAt, CallParts, MoveKeeps DEF At
<1> QED BY <1>1, <1>2, <1>3 DEF Write

LEMMA WindowIsNat ==
    ASSUME NEW n \in Nat
    PROVE  Window(n) \in Nat /\ PlanNext(n) \in Nat
<1>1. Interval \in Nat /\ Interval > 0
  BY ServerAssumption
<1>2. Window(n) \in Nat
  BY <1>1 DEF Window
<1> QED BY <1>1, <1>2 DEF PlanNext, Boundary

LEMMA FormIsRow ==
    ASSUME NEW s \in Submission
    PROVE  Form[s].account \in Account /\ Form[s].amount \in Amount /\ s \in Origin
BY ServerAssumption DEF Origin

LEMMA PlanIsRow ==
    ASSUME NEW t \in Template, NEW w \in Nat
    PROVE  Plan[t].account \in Account /\ Plan[t].amount \in Amount /\ <<t, w>> \in Origin
BY ServerAssumption DEF Origin

\* what every step keeps: the types, and what each row was created for
Kept == TypeOK' /\ OriginsKept

LEMMA RequestKeeps ==
    ASSUME TypeOK, NEW c \in Client,
           \/ \E s \in Submission : Submit(c, s)
           \/ Create(c) \/ Remember(c)
           \/ \E t \in Ids : ReadRow(c, t)
           \/ \E from, to \in Account : ReadBalance(c, from, to)
           \/ Write(c) \/ Fail(c)
    PROVE  Kept
<1> USE TypeOKParts, TypeOKPartsNext
<1>0. calls[c] \in Call
  BY CallAt
<1>a. Idle \in Call
  BY DEF Call
<1>1. ASSUME NEW s \in Submission, Submit(c, s) PROVE Kept
  <2>1. BooksTyped' /\ OriginsKept /\ Ids' = Ids /\ CheckerTyped' /\ SchedulerTyped'
    BY <1>1, BooksStay, CheckerStays DEF Submit, scheduler, SchedulerTyped
  <2>2. CallsTyped'
    <3>1. [pc |-> "create", of |-> s] \in Call'
      BY DEF Call
    <3> QED BY <1>1, <2>1, <3>1, CallGoes DEF Submit
  <2>3. FormsTyped'
    BY <1>1 DEF Submit, FormsTyped
  <2> QED BY <2>1, <2>2, <2>3 DEF Kept
<1>2. CASE Create(c)
  <2>1. calls[c].of \in Submission
    BY <1>0, <1>2, CallParts DEF Create, At
  <2>2. BooksTyped' /\ OriginsKept /\ Ids' = Ids \cup {NextRow}
    BY <1>2, <2>1, FormIsRow, InsertAdds DEF Create
  <2>3. CheckerTyped' /\ SchedulerTyped' /\ FormsTyped'
    BY <1>2, <2>2, CheckerStays DEF Create, scheduler, SchedulerTyped, FormsTyped
  <2>4. CallsTyped'
    <3>1. [pc |-> "remember", of |-> calls[c].of, row |-> NextRow] \in Call'
      BY <2>1, <2>2 DEF Call
    <3> QED BY <1>2, <2>2, <3>1, CallGoes DEF Create
  <2> QED BY <2>2, <2>3, <2>4 DEF Kept
<1>3. CASE Remember(c)
  <2>1. calls[c].of \in Submission /\ calls[c].row \in Ids
    BY <1>0, <1>3, CallParts DEF Remember, At
  <2>2. BooksTyped' /\ OriginsKept /\ Ids' = Ids /\ SchedulerTyped' /\ FormsTyped'
    BY <1>3, BooksStay DEF Remember, scheduler, SchedulerTyped, FormsTyped
  <2>3. CheckerTyped'
    BY <1>3, <2>1, <2>2 DEF Remember, SetSubmissionRemark, CheckerTyped
  <2>4. CallsTyped'
    <3>1. Idle \in Call'
      BY DEF Call
    <3> QED BY <1>3, <2>2, <3>1, CallGoes DEF Remember
  <2> QED BY <2>2, <2>3, <2>4 DEF Kept
<1>4. ASSUME NEW t \in Ids, ReadRow(c, t) PROVE Kept
  <2>1. BooksTyped' /\ OriginsKept /\ Ids' = Ids /\ CheckerTyped' /\ SchedulerTyped' /\ FormsTyped'
    BY <1>4, BooksStay, CheckerStays DEF ReadRow, Event, scheduler, SchedulerTyped, FormsTyped
  <2>2. rows[t] \in Row
    BY RowsAreRows DEF BooksTyped
  <2>3. PICK r \in Call' : Goto(c, r)
    <3>1. ASSUME NEW a \in Account, NEW v \in Amount
          PROVE  [pc |-> "modify", row |-> t, read |-> rows[t], account |-> a, amount |-> v] \in Call'
      BY <2>1, <2>2 DEF Call
    <3>2. [pc |-> "delete", row |-> t, read |-> rows[t]] \in Call'
      BY <2>1, <2>2 DEF Call
    <3> QED BY <1>4, <3>1, <3>2 DEF ReadRow
  <2>4. CallsTyped'
    BY <2>1, <2>3, CallGoes
  <2> QED BY <2>1, <2>4 DEF Kept
<1>5. ASSUME NEW from \in Account, NEW to \in Account, ReadBalance(c, from, to) PROVE Kept
  <2>1. BooksTyped' /\ OriginsKept /\ Ids' = Ids /\ CheckerTyped' /\ SchedulerTyped' /\ FormsTyped'
    BY <1>5, BooksStay, CheckerStays DEF ReadBalance, Event, scheduler, SchedulerTyped, FormsTyped
  <2>2. [pc |-> "move", from |-> from, to |-> to, read |-> balance[from]] \in Call'
    BY DEF Call, BooksTyped
  <2>3. CallsTyped'
    BY <1>5, <2>1, <2>2, CallGoes DEF ReadBalance
  <2> QED BY <2>1, <2>3 DEF Kept
<1>6. CASE Write(c) \/ Fail(c)
  <2>1. BooksTyped' /\ OriginsKept /\ Ids' = Ids
    BY <1>6, WriteKeeps, BooksStay DEF Fail
  <2>2. CheckerTyped' /\ SchedulerTyped' /\ FormsTyped'
    BY <1>6, <2>1, CheckerStays DEF Write, Fail, scheduler, SchedulerTyped, FormsTyped
  <2>3. CallsTyped'
    <3>1. Idle \in Call'
      BY DEF Call
    <3> QED BY <1>6, <2>1, <3>1, CallGoes DEF Write, Fail
  <2> QED BY <2>1, <2>2, <2>3 DEF Kept
<1> QED BY <1>1, <1>2, <1>3, <1>4, <1>5, <1>6

LEMMA JobKeeps ==
    ASSUME TypeOK,
           \/ NoAddress \/ Start \/ QueryFails
           \/ \E t \in Template : CreateScheduled(t) \/ ScheduledFails(t) \/ RunByHand(t)
    PROVE  Kept
<1> USE TypeOKParts, TypeOKPartsNext
<1>0. /\ now \in Nat /\ Window(now) \in Nat /\ PlanNext(now) \in Nat
      /\ job.window \in Nat /\ job.todo \in SUBSET Template
  BY WindowIsNat DEF SchedulerTyped
<1>1. CASE Start
  <2>1. BooksTyped' /\ OriginsKept /\ Ids' = Ids
    BY <1>1, BooksStay DEF Start
  <2>2. CallsTyped' /\ FormsTyped'
    BY <1>1, <2>1, CallsStay DEF Start, FormsTyped
  <2>3. CheckerTyped'
    <3>1. LastsUntil(now) \in Int
      BY <1>0, ServerAssumption DEF LastsUntil
    <3> QED BY <1>1, <2>1, <3>1 DEF Start, SetCronJobRunning, CheckerTyped, checker
  <2>4. SchedulerTyped'
    <3>1. [window |-> Window(now), todo |-> Scheduled(Window(now))] \in [window : Nat, todo : SUBSET Template]
      BY <1>0 DEF Scheduled
    <3> QED BY <1>0, <1>1, <3>1 DEF Start, SchedulerTyped
  <2> QED BY <2>1, <2>2, <2>3, <2>4 DEF Kept
<1>2. ASSUME NEW t \in Template, CreateScheduled(t) PROVE Kept
  <2>1. BooksTyped' /\ OriginsKept
    BY <1>0, <1>2, PlanIsRow, InsertAdds DEF CreateScheduled
  <2>2. CallsTyped' /\ FormsTyped' /\ CheckerTyped'
    BY <1>2, <2>1, CallsStay, CheckerStays DEF CreateScheduled, FormsTyped, OriginsKept
  <2>3. SchedulerTyped'
    BY <1>0, <1>2 DEF CreateScheduled, SchedulerTyped
  <2> QED BY <2>1, <2>2, <2>3 DEF Kept
<1>3. ASSUME NoAddress \/ QueryFails \/ \E t \in Template : ScheduledFails(t) PROVE Kept
  <2>1. BooksTyped' /\ OriginsKept /\ Ids' = Ids
    BY <1>3, BooksStay DEF NoAddress, QueryFails, ScheduledFails
  <2>2. CallsTyped' /\ FormsTyped' /\ CheckerTyped'
    BY <1>3, <2>1, CallsStay, CheckerStays DEF NoAddress, QueryFails, ScheduledFails, FormsTyped
  <2>3. SchedulerTyped'
    <3>1. CASE NoAddress
      <4>1. {<<t, Window(now)>> : t \in Scheduled(Window(now))} \subseteq Template \X Nat
        <5>1. Scheduled(Window(now)) \subseteq Template
          BY DEF Scheduled
        <5> QED BY <1>0, <5>1
      <4>2. failed' \subseteq Template \X Nat
        BY <3>1, <4>1 DEF NoAddress, SchedulerTyped
      <4> QED BY <1>0, <3>1, <4>2 DEF NoAddress, Event, SchedulerTyped
    <3>2. CASE QueryFails
      BY <1>0, <3>2 DEF QueryFails, Event, SchedulerTyped
    <3>3. CASE \E t \in Template : ScheduledFails(t)
      BY <1>0, <3>3 DEF ScheduledFails, Event, SchedulerTyped
    <3> QED BY <1>3, <3>1, <3>2, <3>3
  <2> QED BY <2>1, <2>2, <2>3 DEF Kept
<1>4. ASSUME NEW t \in Template, RunByHand(t) PROVE Kept
  <2>1. BooksTyped' /\ OriginsKept
    BY <1>0, <1>4, PlanIsRow, InsertAdds DEF RunByHand
  <2>2. CallsTyped' /\ FormsTyped' /\ CheckerTyped'
    BY <1>4, <2>1, CallsStay, CheckerStays DEF RunByHand, FormsTyped, OriginsKept
  <2>3. SchedulerTyped'
    BY <1>0, <1>4 DEF RunByHand, Event, SchedulerTyped
  <2> QED BY <2>1, <2>2, <2>3 DEF Kept
<1> QED BY <1>1, <1>2, <1>3, <1>4

LEMMA TimeKeeps ==
    ASSUME TypeOK, Tick \/ Crash \/ UNCHANGED vars
    PROVE  Kept
<1> USE TypeOKParts, TypeOKPartsNext
<1>0. now \in Nat /\ Window(now) \in Nat /\ LastSecond \in Nat
  BY WindowIsNat, ServerAssumption DEF SchedulerTyped
<1>1. CASE Tick
  <2>1. BooksTyped' /\ OriginsKept /\ Ids' = Ids
    BY <1>1, BooksStay DEF Tick
  <2>2. CallsTyped' /\ FormsTyped' /\ CheckerTyped'
    BY <1>1, <2>1, CallsStay, CheckerStays DEF Tick, FormsTyped
  <2>3. SchedulerTyped'
    <3>1. Crossed(now + 1) \subseteq Nat
      BY <1>0, WindowIsNat DEF Crossed
    <3>2. delayed' \in SUBSET Nat
      BY <1>0, <1>1, <3>1 DEF Tick, SchedulerTyped
    <3> QED BY <1>0, <1>1, <3>2 DEF Tick, Event, SchedulerTyped
  <2> QED BY <2>1, <2>2, <2>3 DEF Kept
<1>2. CASE Crash
  <2>1. BooksTyped' /\ OriginsKept /\ Ids' = Ids
    BY <1>2, BooksStay DEF Crash
  <2>2. CheckerTyped' /\ FormsTyped'
    BY <1>2, ServerAssumption DEF Crash, ForgetAll, CheckerTyped, FormsTyped
  <2>3. CallsTyped'
    BY <1>2 DEF Crash, CallsTyped, Call
  <2>4. SchedulerTyped'
    <3>1. PICK later \in now .. LastSecond :
            /\ now' = later /\ next' = PlanNext(later)
            /\ delayed' = delayed \cup Crossed(later) \cup {w \in {Window(now)} : Overdue}
      BY <1>2 DEF Crash
    <3>2. later \in Nat /\ PlanNext(later) \in Nat /\ Window(later) \in Nat
      BY <1>0, WindowIsNat
    <3>3. Crossed(later) \subseteq Nat
      BY <1>0, <3>2 DEF Crossed
    <3>4. job' \in [window : Nat, todo : SUBSET Template] /\ failed' \subseteq Template \X Nat
      BY <1>2 DEF Crash, NoJob, SchedulerTyped
    <3> QED BY <1>0, <1>2, <3>1, <3>2, <3>3, <3>4 DEF Crash, Event, SchedulerTyped
  <2> QED BY <2>1, <2>2, <2>3, <2>4 DEF Kept
<1>3. CASE UNCHANGED vars
  <2>1. BooksTyped' /\ OriginsKept /\ Ids' = Ids
    BY <1>3, BooksStay DEF vars, books
  <2>2. CallsTyped' /\ FormsTyped' /\ CheckerTyped' /\ SchedulerTyped'
    BY <1>3, <2>1, CallsStay, CheckerStays DEF vars, checker, FormsTyped, SchedulerTyped
  <2> QED BY <2>1, <2>2 DEF Kept
<1> QED BY <1>1, <1>2, <1>3

LEMMA ForgetKeeps ==
    ASSUME TypeOK, NEW s \in Submission, Forget(s)
    PROVE  Kept
<1> USE TypeOKParts, TypeOKPartsNext
<1>1. BooksTyped' /\ OriginsKept /\ Ids' = Ids
  BY BooksStay DEF Forget
<1>2. remarks' = [x \in DOMAIN remarks \ {s} |-> remarks[x]]
  BY DEF Forget, Expire, Restrict
<1>3. CheckerTyped'
  BY <1>1, <1>2 DEF Forget, Expire, CheckerTyped
<1>4. CallsTyped' /\ FormsTyped' /\ SchedulerTyped'
  BY <1>1, CallsStay DEF Forget, FormsTyped, scheduler, SchedulerTyped
<1> QED BY <1>1, <1>3, <1>4 DEF Kept

LEMMA StepKeeps ==
    ASSUME TypeOK, [Next]_vars
    PROVE  Kept
BY RequestKeeps, JobKeeps, TimeKeeps, ForgetKeeps DEF Next

LEMMA InitTyped == Init => TypeOK
<1> SUFFICES ASSUME Init PROVE TypeOK
  OBVIOUS
<1>1. BooksTyped
  BY EmptySeq DEF Init, BooksTyped
<1>2. CallsTyped /\ CheckerTyped /\ FormsTyped
  BY ServerAssumption DEF Init, CallsTyped, Call, CheckerTyped, FormsTyped
<1>3. SchedulerTyped
  BY DEF Init, SchedulerTyped, NoJob
<1> QED BY <1>1, <1>2, <1>3, TypeOKParts

\* Type correctness.
THEOREM ServerIsTyped == Spec => []TypeOK
<1>1. TypeOK /\ [Next]_vars => TypeOK'
  BY StepKeeps DEF Kept
<1> QED BY <1>1, InitTyped, PTL DEF Spec

-----------------------------------------------------------------------------
(* Forms *)

NoNewForm == \A u \in Ids' : u \in Ids \/ rows'[u].of \notin Submission

LEMMA OtherStepsRetry ==
    ASSUME TypeOK, RetryInv, Kept, NoNewForm, UNCHANGED remarks,
           forgotten \subseteq forgotten', together \subseteq together',
           \A d \in Client : \A s \in Submission :
              /\ Creating(d, s)' => Creating(d, s)
              /\ Remembering(d, s)' <=> Remembering(d, s)
              /\ Remembering(d, s) => calls'[d].row = calls[d].row
    PROVE  RetryInv'
<1> SUFFICES ASSUME NEW s \in Submission, s \notin forgotten \cup together
             PROVE  /\ \A c, d \in Client : Creating(c, s)' /\ Creating(d, s)' => c = d
                    /\ \A c \in Client : Creating(c, s)' => ~Found(s)'
                    /\ \A c \in Client : Remembering(c, s)' => rows'[calls'[c].row].of = s
                    /\ \A u \in Ids' : rows'[u].of = s => Found(s)' \/ \E c \in Client : Remembering(c, s)'
                    /\ \A u, v \in Ids' : rows'[u].of = s /\ rows'[v].of = s => u = v
                    /\ Found(s)' => rows'[remarks'[s]].of = s
  BY DEF RetryInv
<1>1. /\ \A c, d \in Client : Creating(c, s) /\ Creating(d, s) => c = d
      /\ \A c \in Client : Creating(c, s) => ~Found(s)
      /\ \A c \in Client : Remembering(c, s) => rows[calls[c].row].of = s
      /\ \A u \in Ids : rows[u].of = s => Found(s) \/ \E c \in Client : Remembering(c, s)
      /\ \A u, v \in Ids : rows[u].of = s /\ rows[v].of = s => u = v
      /\ Found(s) => rows[remarks[s]].of = s
  BY DEF RetryInv
<1>2. Ids \subseteq Ids' /\ \A u \in Ids : rows'[u].of = rows[u].of
  BY DEF Kept, OriginsKept
<1>3. \A u \in Ids' : rows'[u].of = s => u \in Ids /\ rows[u].of = s
  BY <1>2 DEF NoNewForm
<1>4. Found(s)' <=> Found(s)
  BY DEF Found
<1>5. Found(s) => remarks[s] \in Ids
  BY TypeOKParts DEF CheckerTyped, Found
<1>6. \A c \in Client : Remembering(c, s) => calls[c].row \in Ids
  BY TypeOKParts, CallAt, CallParts DEF Remembering
<1> QED BY <1>1, <1>2, <1>3, <1>4, <1>5, <1>6

LEMMA SubmitRetries ==
    ASSUME TypeOK, RetryInv, Kept, NEW c \in Client, NEW f \in Submission, Submit(c, f)
    PROVE  RetryInv'
<1>1. /\ calls[c].pc = "idle" /\ ~Found(f)
      /\ UNCHANGED <<rows, remarks, forgotten>>
      /\ together' = together \cup {x \in {f} : \E d \in Client : Creating(d, f)}
  BY DEF Submit, books, checker, At
<1>2. \A d \in Client : calls'[d] = IF d = c THEN [pc |-> "create", of |-> f] ELSE calls[d]
  BY TypeOKParts DEF Submit, Goto, CallsTyped
<1>3. /\ \A d \in Client, s \in Submission : Creating(d, s)' <=> Creating(d, s) \/ (d = c /\ s = f)
      /\ \A d \in Client, s \in Submission : Remembering(d, s)' <=> Remembering(d, s)
      /\ \A d \in Client, s \in Submission : Remembering(d, s) => calls'[d].row = calls[d].row
  BY <1>1, <1>2 DEF Creating, Remembering
<1>4. Ids' = Ids /\ \A s : Found(s)' <=> Found(s)
  BY <1>1 DEF Ids, Found
<1>5. f \notin together' => \A d \in Client : ~Creating(d, f)
  BY <1>1
<1> QED BY <1>1, <1>3, <1>4, <1>5 DEF RetryInv

LEMMA CreateRetries ==
    ASSUME TypeOK, RetryInv, Kept, NEW c \in Client, Create(c)
    PROVE  RetryInv'
<1> DEFINE f == calls[c].of
<1>1. calls[c].pc = "create" /\ f \in Submission
  BY TypeOKParts, CallAt, CallParts DEF Create, At
<1>2. UNCHANGED <<remarks, forgotten, together>>
  BY DEF Create, checker
<1>3. \A d \in Client : calls'[d] = IF d = c THEN [pc |-> "remember", of |-> f, row |-> NextRow] ELSE calls[d]
  BY TypeOKParts DEF Create, Goto, CallsTyped
<1>4. /\ \A d \in Client, s \in Submission : Creating(d, s)' <=> Creating(d, s)
      /\ \A d \in Client, s \in Submission : Remembering(d, s)' <=> Remembering(d, s) \/ (d = c /\ s = f)
      /\ \A d \in Client, s \in Submission : Remembering(d, s) => calls'[d].row = calls[d].row
      /\ calls'[c].row = NextRow
  BY <1>1, <1>3 DEF Creating, Remembering
<1>5. /\ Ids' = Ids \cup {NextRow} /\ NextRow \notin Ids /\ rows'[NextRow].of = f
      /\ \A u \in Ids : rows'[u].of = rows[u].of
  BY <1>1, TypeOKParts, FormIsRow, InsertAdds DEF Create, OriginsKept
<1>6. \A s : Found(s)' <=> Found(s)
  BY <1>2 DEF Found
<1>7. f \notin forgotten \cup together => \A u \in Ids : rows[u].of # f
  BY <1>1 DEF RetryInv, Creating, Remembering
<1>8. \A s \in Submission : Found(s) => remarks[s] \in Ids
  BY TypeOKParts DEF CheckerTyped, Found
<1>9. \A d \in Client, s \in Submission : Remembering(d, s) => calls[d].row \in Ids
  BY TypeOKParts, CallAt, CallParts DEF Remembering
<1>10. ASSUME NEW s \in Submission, s \notin forgotten \cup together
       PROVE  /\ \A a, d \in Client : Creating(a, s)' /\ Creating(d, s)' => a = d
              /\ \A d \in Client : Creating(d, s)' => ~Found(s)'
              /\ \A d \in Client : Remembering(d, s)' => rows'[calls'[d].row].of = s
              /\ \A u \in Ids' : rows'[u].of = s => Found(s)' \/ \E d \in Client : Remembering(d, s)'
              /\ \A u, v \in Ids' : rows'[u].of = s /\ rows'[v].of = s => u = v
              /\ Found(s)' => rows'[remarks'[s]].of = s
  <2>1. /\ \A a, d \in Client : Creating(a, s) /\ Creating(d, s) => a = d
        /\ \A d \in Client : Creating(d, s) => ~Found(s)
        /\ \A d \in Client : Remembering(d, s) => rows[calls[d].row].of = s
        /\ \A u \in Ids : rows[u].of = s => Found(s) \/ \E d \in Client : Remembering(d, s)
        /\ \A u, v \in Ids : rows[u].of = s /\ rows[v].of = s => u = v
        /\ Found(s) => rows[remarks[s]].of = s
    BY <1>10 DEF RetryInv
  <2>2. \A d \in Client : Remembering(d, s)' => rows'[calls'[d].row].of = s
    BY <1>4, <1>5, <1>9, <2>1
  <2>3. \A u, v \in Ids' : rows'[u].of = s /\ rows'[v].of = s => u = v
    BY <1>5, <1>7, <1>10, <2>1
  <2>4. Found(s)' => rows'[remarks'[s]].of = s
    BY <1>2, <1>5, <1>6, <1>8, <2>1
  <2>5. \A u \in Ids' : rows'[u].of = s => Found(s)' \/ \E d \in Client : Remembering(d, s)'
    BY <1>4, <1>5, <1>6, <2>1
  <2> QED BY <1>4, <1>6, <2>1, <2>2, <2>3, <2>4, <2>5
<1> QED BY <1>2, <1>10 DEF RetryInv

LEMMA RememberRetries ==
    ASSUME TypeOK, RetryInv, Kept, NEW c \in Client, Remember(c)
    PROVE  RetryInv'
<1> DEFINE f == calls[c].of
<1>1. calls[c].pc = "remember" /\ f \in Submission
  BY TypeOKParts, CallAt, CallParts DEF Remember, At
<1>2. UNCHANGED <<rows, forgotten, together>>
  BY DEF Remember, books
<1>3. \A d \in Client : calls'[d] = IF d = c THEN Idle ELSE calls[d]
  BY TypeOKParts DEF Remember, Goto, CallsTyped
<1>4. /\ \A d \in Client, s \in Submission : Creating(d, s)' <=> Creating(d, s) /\ d # c
      /\ \A d \in Client, s \in Submission : Remembering(d, s)' <=> Remembering(d, s) /\ d # c
      /\ \A d \in Client, s \in Submission : Remembering(d, s)' => calls'[d].row = calls[d].row
      /\ \A s \in Submission : Remembering(c, s) <=> s = f
      /\ Creating(c, f)
  BY <1>1, <1>3 DEF Creating, Remembering, Idle
<1>5. remarks' = [x \in DOMAIN remarks \cup {f} |-> IF x = f THEN calls[c].row ELSE remarks[x]]
  BY DEF Remember, SetSubmissionRemark
<1>6. Ids' = Ids /\ \A s : Found(s)' <=> Found(s) \/ s = f
  BY <1>2, <1>5 DEF Ids, Found
<1>7. \A s \in Submission : Found(s)' => remarks'[s] = IF s = f THEN calls[c].row ELSE remarks[s]
  BY <1>5 DEF Found
<1> QED BY <1>1, <1>2, <1>4, <1>6, <1>7 DEF RetryInv

LEMMA ForgetRetries ==
    ASSUME TypeOK, RetryInv, NEW f \in Submission, Forget(f)
    PROVE  RetryInv'
<1>1. UNCHANGED <<rows, calls, together>> /\ forgotten' = forgotten \cup {f}
  BY DEF Forget, books
<1>2. remarks' = [x \in DOMAIN remarks \ {f} |-> remarks[x]]
  BY DEF Forget, Expire, Restrict
<1>3. /\ Ids' = Ids /\ \A s : Found(s)' <=> Found(s) /\ s # f
      /\ \A s : Found(s)' => remarks'[s] = remarks[s]
  BY <1>1, <1>2 DEF Ids, Found
<1>4. \A d \in Client, s \in Submission :
        (Creating(d, s)' <=> Creating(d, s)) /\ (Remembering(d, s)' <=> Remembering(d, s))
  BY <1>1 DEF Creating, Remembering
<1> QED BY <1>1, <1>3, <1>4 DEF RetryInv

LEMMA CrashRetries ==
    ASSUME TypeOK, RetryInv, Crash
    PROVE  RetryInv'
<1>1. /\ rows' = rows /\ Ids' = Ids /\ together' = together
      /\ forgotten' = forgotten \cup {s \in Submission : Found(s) \/ \E c \in Client : Creating(c, s)}
  BY DEF Crash, books, Ids
<1>2. \A s : ~Found(s)'
  BY DEF Crash, ForgetAll, Found
<1>3. \A c \in Client, s \in Submission : ~Creating(c, s)' /\ ~Remembering(c, s)'
  BY DEF Crash, Idle, Creating, Remembering
<1>4. ASSUME NEW s \in Submission, s \notin forgotten' \cup together'
      PROVE  \A u \in Ids' : rows'[u].of # s
  <2>1. s \notin forgotten \cup together /\ ~Found(s) /\ \A c \in Client : ~Creating(c, s)
    BY <1>1, <1>4
  <2> QED BY <1>1, <2>1 DEF RetryInv, Creating, Remembering
<1> QED BY <1>2, <1>3, <1>4 DEF RetryInv

LEMMA QuietStepsRetry ==
    ASSUME TypeOK, RetryInv, Kept, NoNewForm, UNCHANGED <<remarks, calls, forgotten, together>>
    PROVE  RetryInv'
<1>1. \A d \in Client : \A s \in Submission :
         /\ Creating(d, s)' => Creating(d, s)
         /\ Remembering(d, s)' <=> Remembering(d, s)
         /\ Remembering(d, s) => calls'[d].row = calls[d].row
  BY DEF Creating, Remembering
<1> QED BY <1>1, OtherStepsRetry

LEMMA ScheduledIsNoForm ==
    ASSUME BooksTyped, NEW t \in Template, NEW w \in Nat,
           Insert(Plan[t].account, Plan[t].amount, <<t, w>>)
    PROVE  /\ NoNewForm /\ Ids' = Ids \cup {NextRow} /\ rows'[NextRow].of = <<t, w>>
           /\ NextRow \notin Ids
<1>1. <<t, w>> \notin Submission
  BY ServerAssumption
<1> QED BY <1>1, PlanIsRow, InsertAdds DEF NoNewForm

LEMMA EditStepsRetry ==
    ASSUME TypeOK, RetryInv, Kept, NEW c \in Client, Ids' = Ids,
           UNCHANGED <<remarks, forgotten, together>>,
           calls[c].pc # "remember",
           \A d \in Client \ {c} : calls'[d] = calls[d],
           calls'[c].pc \notin {"create", "remember"}
    PROVE  RetryInv'
<1>1. \A d \in Client : \A s \in Submission :
         /\ Creating(d, s)' => Creating(d, s)
         /\ Remembering(d, s)' <=> Remembering(d, s)
         /\ Remembering(d, s) => calls'[d].row = calls[d].row
  BY DEF Creating, Remembering
<1> QED BY <1>1, OtherStepsRetry DEF NoNewForm

LEMMA StepRetries ==
    ASSUME TypeOK, RetryInv, [Next]_vars
    PROVE  RetryInv'
<1> USE TypeOKParts
<1>0. Kept
  BY StepKeeps
<1>1. ASSUME NEW c \in Client,
             \/ \E s \in Submission : Submit(c, s)
             \/ Create(c) \/ Remember(c)
      PROVE  RetryInv'
  BY <1>0, <1>1, SubmitRetries, CreateRetries, RememberRetries
<1>2. ASSUME NEW c \in Client,
             (\E t \in Ids : ReadRow(c, t)) \/ (\E from, to \in Account : ReadBalance(c, from, to))
      PROVE  RetryInv'
  <2>1. Ids' = Ids /\ UNCHANGED <<remarks, forgotten, together>> /\ calls[c].pc = "idle"
    BY <1>2 DEF ReadRow, ReadBalance, books, checker, Ids, At
  <2>2. PICK r : Goto(c, r) /\ r.pc \in {"modify", "delete", "move"}
    <3>1. ASSUME NEW t \in Ids, ReadRow(c, t)
          PROVE  \E r : Goto(c, r) /\ r.pc \in {"modify", "delete", "move"}
      <4>1. CASE \E a \in Account, v \in Amount :
                   Goto(c, [pc |-> "modify", row |-> t, read |-> rows[t], account |-> a, amount |-> v])
        <5>1. PICK a \in Account, v \in Amount :
                Goto(c, [pc |-> "modify", row |-> t, read |-> rows[t], account |-> a, amount |-> v])
          BY <4>1
        <5> DEFINE r == [pc |-> "modify", row |-> t, read |-> rows[t], account |-> a, amount |-> v]
        <5>2. Goto(c, r) /\ r.pc = "modify"
          BY <5>1
        <5> HIDE DEF r
        <5> QED BY <5>2
      <4>2. CASE Goto(c, [pc |-> "delete", row |-> t, read |-> rows[t]])
        <5> DEFINE r == [pc |-> "delete", row |-> t, read |-> rows[t]]
        <5>1. Goto(c, r) /\ r.pc = "delete"
          BY <4>2
        <5> HIDE DEF r
        <5> QED BY <5>1
      <4> QED BY <3>1, <4>1, <4>2 DEF ReadRow
    <3>2. ASSUME NEW from \in Account, NEW to \in Account, ReadBalance(c, from, to)
          PROVE  \E r : Goto(c, r) /\ r.pc \in {"modify", "delete", "move"}
      <4> DEFINE r == [pc |-> "move", from |-> from, to |-> to, read |-> balance[from]]
      <4>1. Goto(c, r) /\ r.pc = "move"
        BY <3>2 DEF ReadBalance
      <4> HIDE DEF r
      <4> QED BY <4>1
    <3> QED BY <1>2, <3>1, <3>2
  <2> QED BY <1>0, <2>1, <2>2, EditStepsRetry DEF Goto, CallsTyped
<1>3. ASSUME NEW c \in Client, Write(c) \/ Fail(c) PROVE RetryInv'
  <2>1. Ids' = Ids
    BY <1>3, WriteKeeps, BooksStay DEF Fail
  <2>2. /\ UNCHANGED <<remarks, forgotten, together>> /\ calls[c].pc # "remember" /\ Goto(c, Idle)
    BY <1>3 DEF Write, Fail, checker, At
  <2> QED BY <1>0, <2>1, <2>2, EditStepsRetry DEF Goto, CallsTyped, Idle
<1>4. CASE Start
  <2>1. Ids' = Ids /\ UNCHANGED <<remarks, calls, forgotten, together>>
    BY <1>4 DEF Start, SetCronJobRunning, books, checker, Ids
  <2> QED BY <1>0, <2>1, QuietStepsRetry DEF NoNewForm
<1>5. ASSUME NEW t \in Template, CreateScheduled(t) \/ RunByHand(t) PROVE RetryInv'
  <2>1. job.window \in Nat /\ Window(now) \in Nat
    BY WindowIsNat DEF SchedulerTyped
  <2>2. NoNewForm
    BY <1>5, <2>1, ScheduledIsNoForm DEF CreateScheduled, RunByHand
  <2>3. UNCHANGED <<remarks, calls, forgotten, together>>
    BY <1>5 DEF CreateScheduled, RunByHand, checker
  <2> QED BY <1>0, <2>2, <2>3, QuietStepsRetry
<1>6. ASSUME NoAddress \/ QueryFails \/ (\E t \in Template : ScheduledFails(t)) \/ Tick \/ UNCHANGED vars
      PROVE  RetryInv'
  <2>1. Ids' = Ids /\ UNCHANGED <<remarks, calls, forgotten, together>>
    BY <1>6 DEF NoAddress, QueryFails, ScheduledFails, Tick, vars, books, checker, Ids
  <2> QED BY <1>0, <2>1, QuietStepsRetry DEF NoNewForm
<1> QED BY <1>1, <1>2, <1>3, <1>4, <1>5, <1>6, ForgetRetries, CrashRetries DEF Next

\* A form that is submitted again creates nothing and is answered with its row, unless its
\* remark was lost or two of its requests were under way together
\* (TransactionCreateHandler).
THEOREM ServerRetriesSafely == Spec => []RetryCreatesNothing
<1>1. Init => RetryInv
  BY EmptySeq DEF Init, RetryInv, Idle, Creating, Remembering, Ids, Found
<1>2. TypeOK /\ RetryInv /\ [Next]_vars => RetryInv'
  BY StepRetries
<1>3. RetryInv => RetryCreatesNothing
  BY DEF RetryInv, RetryCreatesNothing
<1> QED BY <1>1, <1>2, <1>3, ServerIsTyped, PTL DEF Spec

-----------------------------------------------------------------------------
(* Windows of time *)

LEMMA Products ==
    ASSUME NEW i \in Nat, NEW x \in Nat, NEW y \in Nat
    PROVE  /\ x * i \in Nat /\ (x + 1) * i = x * i + i
           /\ x <= y => x * i <= y * i
<1>1. x * i \in Nat /\ (x + 1) * i = x * i + i
  OBVIOUS
<1>2. ASSUME x <= y PROVE x * i <= y * i
  <2>1. PICK d \in Nat : y = x + d
    <3>1. y - x \in Nat /\ y = x + (y - x)
      BY <1>2
    <3> QED BY <3>1
  <2>2. y * i = x * i + d * i /\ d * i \in Nat
    BY <2>1
  <2> QED BY <1>1, <2>2
<1> QED BY <1>1, <1>2

LEMMA Boundaries ==
    ASSUME NEW x \in Nat, NEW y \in Nat
    PROVE  /\ Boundary(x) \in Nat /\ Boundary(x + 1) = Boundary(x) + Interval
           /\ x <= y => Boundary(x) <= Boundary(y)
<1>1. Interval \in Nat
  BY ServerAssumption
<1> QED BY <1>1, Products DEF Boundary

LEMMA WindowHolds ==
    ASSUME NEW n \in Nat
    PROVE  /\ Window(n) \in Nat
           /\ Boundary(Window(n)) <= n /\ n < Boundary(Window(n) + 1)
<1>1. Interval \in Nat /\ Interval > 0
  BY ServerAssumption
<1> DEFINE q == n \div Interval
<1>2. q \in Nat /\ Interval * q <= n /\ n < Interval * q + Interval
  BY <1>1
<1>3. q * Interval = Interval * q /\ (q + 1) * Interval = q * Interval + Interval
  BY <1>1, <1>2, Products
<1>4. q \in Nat /\ q * Interval <= n /\ n < (q + 1) * Interval
  BY <1>2, <1>3
<1> QED BY <1>4 DEF Window, Boundary

LEMMA WindowReached ==
    ASSUME NEW n \in Nat, NEW w \in Nat, Boundary(w) <= n
    PROVE  w <= Window(n)
<1>1. ASSUME w > Window(n) PROVE FALSE
  <2>1. Boundary(Window(n) + 1) <= Boundary(w)
    BY <1>1, WindowHolds, Boundaries
  <2> QED BY <2>1, WindowHolds, Boundaries
<1> QED BY <1>1, WindowHolds

LEMMA WindowMonotone ==
    ASSUME NEW n \in Nat, NEW m \in Nat, n <= m
    PROVE  Window(n) <= Window(m)
<1>1. Boundary(Window(n)) <= m
  BY WindowHolds, Boundaries
<1> QED BY <1>1, WindowHolds, WindowReached

LEMMA WindowSteps ==
    ASSUME NEW n \in Nat
    PROVE  \/ Window(n + 1) = Window(n)
           \/ Window(n + 1) = Window(n) + 1 /\ n + 1 = Boundary(Window(n) + 1)
<1>1. Window(n) \in Nat /\ Window(n + 1) \in Nat /\ Window(n) <= Window(n + 1)
  BY WindowHolds, WindowMonotone
<1>2. CASE Window(n) + 1 <= Window(n + 1)
  <2>1. Boundary(Window(n) + 1) <= Boundary(Window(n + 1)) /\ Boundary(Window(n + 1)) <= n + 1
    BY <1>1, <1>2, Boundaries, WindowHolds
  <2>2. n + 1 = Boundary(Window(n) + 1)
    BY <1>1, <2>1, WindowHolds, Boundaries
  <2>3. Boundary((Window(n) + 1) + 1) = Boundary(Window(n) + 1) + Interval /\ Interval > 0 /\ Interval \in Nat
    BY <1>1, Boundaries, ServerAssumption
  <2>4. ASSUME Window(n + 1) >= (Window(n) + 1) + 1 PROVE FALSE
    <3>1. Boundary((Window(n) + 1) + 1) <= Boundary(Window(n + 1))
      BY <1>1, <2>4, Boundaries
    <3> QED BY <1>1, <2>1, <2>2, <2>3, <3>1, Boundaries
  <2> QED BY <1>1, <1>2, <2>2, <2>4
<1> QED BY <1>1, <1>2

LEMMA PlansAhead ==
    ASSUME NEW n \in Nat
    PROVE  /\ PlanNext(n) \in Nat /\ PlanNext(n) > n
           /\ PlanNext(n) = Boundary(Window(n) + 1)
           /\ \A m \in Nat : n <= m => PlanNext(n) <= PlanNext(m)
<1>1. PlanNext(n) = Boundary(Window(n) + 1) /\ Window(n) + 1 \in Nat
  BY WindowHolds DEF PlanNext
<1>2. ASSUME NEW m \in Nat, n <= m PROVE PlanNext(n) <= PlanNext(m)
  <2>1. Window(n) + 1 <= Window(m) + 1 /\ Window(m) + 1 \in Nat
    BY <1>2, WindowHolds, WindowMonotone
  <2> QED BY <1>1, <2>1, Boundaries DEF PlanNext
<1> QED BY <1>1, <1>2, WindowHolds, Boundaries

-----------------------------------------------------------------------------
(* Scheduled rows *)

LEMMA TimeTyped ==
    ASSUME TypeOK
    PROVE  /\ now \in Nat /\ next \in Nat /\ runningUntil \in Int
           /\ job.window \in Nat /\ job.todo \in SUBSET Template
           /\ delayed \in SUBSET Nat /\ byHand \in SUBSET Nat
           /\ Window(now) \in Nat /\ PlanNext(now) \in Nat
           /\ Interval \in Nat /\ Interval > 1
BY TypeOKParts, WindowHolds, PlansAhead, ServerAssumption DEF SchedulerTyped, CheckerTyped

LEMMA TimeTypedNext ==
    ASSUME TypeOK'
    PROVE  /\ now' \in Nat /\ next' \in Nat /\ runningUntil' \in Int
           /\ job'.window \in Nat /\ job'.todo \in SUBSET Template
           /\ delayed' \in SUBSET Nat /\ byHand' \in SUBSET Nat
           /\ Window(now') \in Nat /\ PlanNext(now') \in Nat
BY WindowHolds, PlansAhead DEF TypeOK

LEMMA PlanInvNext ==
    ASSUME \E k \in Nat : next' = Boundary(k), next' <= PlanNext(now'),
           job'.todo # {} => Boundary(job'.window + 1) <= next'
    PROVE  PlanInv'
BY DEF PlanInv, Resting, Boundary, PlanNext, Window

\* the steps that only work off the job, or do not touch the scheduler
LEMMA RestPlans ==
    ASSUME TypeOK, PlanInv, UNCHANGED <<now, next>>,
           job'.window = job.window, job'.todo \subseteq job.todo
    PROVE  PlanInv'
BY PlanInvNext DEF PlanInv, Resting

LEMMA StartPlans ==
    ASSUME TypeOK, PlanInv, Start
    PROVE  PlanInv'
<1>1. now' = now /\ next' = PlanNext(now) /\ next <= next'
  BY TimeTyped, PlansAhead DEF Start, PlanInv
<1>2. \E k \in Nat : next' = Boundary(k)
  BY <1>1, TimeTyped, PlansAhead
<1>3. job'.todo # {} => Boundary(job'.window + 1) <= next'
  <2>1. CASE job' = [window |-> Window(now), todo |-> Scheduled(Window(now))]
    <3>1. job'.window = Window(now)
      BY <2>1
    <3> QED BY <1>1, <3>1, TimeTyped, PlansAhead
  <2>2. CASE job' = job
    <3>1. Boundary(job.window + 1) \in Nat /\ next' \in Nat
      BY <1>1, TimeTyped, Boundaries
    <3>2. job.todo # {} => Boundary(job.window + 1) <= next
      BY DEF PlanInv, Resting
    <3> QED BY <1>1, <2>2, <3>1, <3>2, TimeTyped
  <2> QED BY <2>1, <2>2 DEF Start
<1>4. next' <= PlanNext(now')
  BY <1>1, TimeTyped
<1> QED BY <1>2, <1>3, <1>4, PlanInvNext

LEMMA NoAddressPlans ==
    ASSUME TypeOK, PlanInv, NoAddress
    PROVE  PlanInv'
<1>1. now' = now /\ next' = PlanNext(now) /\ job'.todo = {}
  BY DEF NoAddress, Resting
<1> QED BY <1>1, TimeTyped, PlansAhead, PlanInvNext

LEMMA TickPlans ==
    ASSUME TypeOK, PlanInv, Tick
    PROVE  PlanInv'
<1>1. now' = now + 1 /\ next' = next /\ job' = job
  BY DEF Tick
<1>2. PlanNext(now) <= PlanNext(now') /\ PlanNext(now') \in Nat
  BY <1>1, TimeTyped, PlansAhead
<1> QED BY <1>1, <1>2, TimeTyped, PlanInvNext DEF PlanInv, Resting

LEMMA CrashPlans ==
    ASSUME TypeOK, PlanInv, Crash
    PROVE  PlanInv'
<1>1. PICK later \in now .. LastSecond : now' = later /\ next' = PlanNext(later)
  BY DEF Crash
<1>2. later \in Nat
  BY TimeTyped, ServerAssumption
<1>3. (\E k \in Nat : next' = Boundary(k)) /\ next' <= PlanNext(now')
  BY <1>1, <1>2, WindowHolds, PlansAhead
<1>4. job'.todo = {}
  BY DEF Crash, NoJob
<1> QED BY <1>3, <1>4, PlanInvNext

\* the steps that leave the time, the plan and the job alone
Unscheduled == UNCHANGED <<now, next, job, delayed, failed, byHand, runningUntil>>

LEMMA RequestsAreUnscheduled ==
    ASSUME NEW c \in Client,
           \/ \E s \in Submission : Submit(c, s)
           \/ Create(c) \/ Remember(c)
           \/ \E t \in Ids : ReadRow(c, t)
           \/ \E from, to \in Account : ReadBalance(c, from, to)
           \/ Write(c) \/ Fail(c)
    PROVE  Unscheduled
BY DEF Unscheduled, Submit, Create, Remember, SetSubmissionRemark, ReadRow, ReadBalance,
       Write, Fail, scheduler, checker

LEMMA OtherUnscheduled ==
    ASSUME (\E s \in Submission : Forget(s)) \/ UNCHANGED vars
    PROVE  Unscheduled
BY DEF Unscheduled, Forget, Expire, scheduler, vars

LEMMA StepPlans ==
    ASSUME TypeOK, PlanInv, [Next]_vars
    PROVE  PlanInv'
<1>1. ASSUME Unscheduled PROVE PlanInv'
  BY <1>1, RestPlans DEF Unscheduled
<1>2. ASSUME NEW t \in Template, CreateScheduled(t) \/ ScheduledFails(t) \/ RunByHand(t) PROVE PlanInv'
  BY <1>2, RestPlans, TypeOKParts DEF CreateScheduled, ScheduledFails, RunByHand, SchedulerTyped
<1>3. CASE QueryFails
  BY <1>3, RestPlans, TypeOKParts DEF QueryFails, SchedulerTyped
<1> QED BY <1>1, <1>2, <1>3, NoAddressPlans, StartPlans, TickPlans, CrashPlans, RequestsAreUnscheduled, OtherUnscheduled DEF Next

JobMovesOn ==
    \/ job'.window = job.window /\ job'.todo \subseteq job.todo
    \/ job'.todo = {}
    \/ \A w \in Nat : Boundary(w + 1) <= next => w # job'.window

NoNewScheduled == \A u \in Ids' : u \in Ids \/ rows'[u].of \notin Template \X Nat

LEMMA OthersOnce ==
    ASSUME TypeOK, TypeOK', OnceInv, Kept, NoNewScheduled, JobMovesOn,
           next <= next', byHand \subseteq byHand'
    PROVE  OnceInv'
<1> SUFFICES ASSUME NEW u \in Ids', NEW t \in Template, NEW w \in Nat \ byHand', rows'[u].of = <<t, w>>
             PROVE  /\ Boundary(w + 1) <= next'
                    /\ w = job'.window => t \notin job'.todo
                    /\ \A v \in Ids' : rows'[v].of = <<t, w>> => u = v
  BY DEF OnceInv, Is, Boundary
<1>0. <<t, w>> \in Template \X Nat /\ w \in Nat \ byHand
  OBVIOUS
<1>1. u \in Ids /\ rows[u].of = <<t, w>>
  <2>1. u \in Ids
    BY <1>0, Zenon DEF NoNewScheduled
  <2> QED BY <2>1 DEF Kept, OriginsKept
<1>2. /\ Boundary(w + 1) <= next
      /\ w = job.window => t \notin job.todo
      /\ \A v \in Ids : rows[v].of = <<t, w>> => u = v
  BY <1>0, <1>1 DEF OnceInv, Is
<1>3. Boundary(w + 1) \in Nat /\ next \in Nat /\ next' \in Nat
  BY Boundaries, TimeTyped, TimeTypedNext
<1>4. Boundary(w + 1) <= next'
  BY <1>2, <1>3
<1>5. w = job'.window => t \notin job'.todo
  BY <1>2 DEF JobMovesOn
<1>6. \A v \in Ids' : rows'[v].of = <<t, w>> => v \in Ids /\ rows[v].of = <<t, w>>
  <2> SUFFICES ASSUME NEW v \in Ids', rows'[v].of = <<t, w>>
               PROVE  v \in Ids /\ rows[v].of = <<t, w>>
    OBVIOUS
  <2>1. v \in Ids
    BY <1>0, Zenon DEF NoNewScheduled
  <2> QED BY <2>1 DEF Kept, OriginsKept
<1> QED BY <1>2, <1>4, <1>5, <1>6

LEMMA CreateScheduledOnce ==
    ASSUME TypeOK, TypeOK', PlanInv, OnceInv, Kept, NEW p \in Template, CreateScheduled(p)
    PROVE  OnceInv'
<1>1. /\ p \in job.todo /\ next' = next /\ byHand' = byHand
      /\ job'.window = job.window /\ job'.todo = job.todo \ {p}
  BY TypeOKParts DEF CreateScheduled, SchedulerTyped
<1>2. /\ Ids' = Ids \cup {NextRow} /\ NextRow \notin Ids /\ rows'[NextRow].of = <<p, job.window>>
      /\ \A u \in Ids : rows'[u].of = rows[u].of
  BY TimeTyped, TypeOKParts, ScheduledIsNoForm DEF CreateScheduled, Kept, OriginsKept
<1>3. Boundary(job.window + 1) <= next
  BY <1>1 DEF PlanInv, Resting
<1>4. job.window \notin byHand => \A u \in Ids : rows[u].of # <<p, job.window>>
  BY <1>1, TimeTyped DEF OnceInv, Is
<1> SUFFICES ASSUME NEW u \in Ids', NEW t \in Template, NEW w \in Nat \ byHand', rows'[u].of = <<t, w>>
             PROVE  /\ Boundary(w + 1) <= next'
                    /\ w = job'.window => t \notin job'.todo
                    /\ \A v \in Ids' : rows'[v].of = <<t, w>> => u = v
  BY DEF OnceInv, Is, Boundary
<1>5. CASE u \in Ids
  <2>1. /\ Boundary(w + 1) <= next
        /\ w = job.window => t \notin job.todo
        /\ \A v \in Ids : rows[v].of = <<t, w>> => u = v
    BY <1>1, <1>2, <1>5 DEF OnceInv, Is
  <2>2. <<t, w>> # <<p, job.window>>
    BY <1>1, <2>1
  <2> QED BY <1>1, <1>2, <2>1, <2>2
<1>6. CASE u = NextRow
  <2>1. t = p /\ w = job.window
    BY <1>2, <1>6
  <2> QED BY <1>1, <1>2, <1>3, <1>4, <1>6, <2>1
<1> QED BY <1>2, <1>5, <1>6

LEMMA RunByHandOnce ==
    ASSUME TypeOK, TypeOK', OnceInv, Kept, NEW p \in Template, RunByHand(p)
    PROVE  OnceInv'
<1>1. next' = next /\ byHand' = byHand \cup {Window(now)} /\ job' = job
  BY DEF RunByHand
<1>2. /\ Ids' = Ids \cup {NextRow} /\ rows'[NextRow].of = <<p, Window(now)>>
      /\ \A u \in Ids : rows'[u].of = rows[u].of
  BY TimeTyped, TypeOKParts, ScheduledIsNoForm DEF RunByHand, Kept, OriginsKept
<1> SUFFICES ASSUME NEW u \in Ids', NEW t \in Template, NEW w \in Nat \ byHand', rows'[u].of = <<t, w>>
             PROVE  /\ Boundary(w + 1) <= next'
                    /\ w = job'.window => t \notin job'.todo
                    /\ \A v \in Ids' : rows'[v].of = <<t, w>> => u = v
  BY DEF OnceInv, Is, Boundary
<1>3. w \in Nat \ byHand /\ w # Window(now)
  BY <1>1
<1>4. \A v \in Ids' : rows'[v].of = <<t, w>> => v \in Ids /\ rows[v].of = <<t, w>>
  BY <1>2, <1>3
<1> QED BY <1>1, <1>3, <1>4 DEF OnceInv, Is

LEMMA StartOnce ==
    ASSUME TypeOK, TypeOK', PlanInv, OnceInv, Kept, Start
    PROVE  OnceInv'
<1>1. next <= now /\ next' = PlanNext(now) /\ byHand' = byHand /\ Ids' = Ids
  BY DEF Start, Overdue, books, Ids
<1>2. next <= next'
  BY <1>1, TimeTyped, PlansAhead
<1>3. JobMovesOn
  <2>1. CASE job' = [window |-> Window(now), todo |-> Scheduled(Window(now))]
    <3>1. ASSUME NEW w \in Nat, Boundary(w + 1) <= next PROVE w # Window(now)
      <4>1. Boundary(w + 1) <= now /\ w + 1 \in Nat
        BY <1>1, <3>1, TimeTyped, Boundaries
      <4>2. w + 1 <= Window(now)
        BY <4>1, TimeTyped, WindowReached
      <4> QED BY <4>2, TimeTyped
    <3>2. job'.window = Window(now)
      BY <2>1
    <3> QED BY <3>1, <3>2 DEF JobMovesOn
  <2>2. CASE job' = job
    BY <2>2 DEF JobMovesOn
  <2> QED BY <2>1, <2>2 DEF Start
<1> QED BY <1>1, <1>2, <1>3, OthersOnce DEF NoNewScheduled

LEMMA StepOnce ==
    ASSUME TypeOK, PlanInv, OnceInv, [Next]_vars
    PROVE  OnceInv'
<1>0. Kept /\ TypeOK'
  BY StepKeeps DEF Kept
<1>1. ASSUME Unscheduled, NoNewScheduled PROVE OnceInv'
  BY <1>0, <1>1, OthersOnce, TimeTyped DEF Unscheduled, JobMovesOn
<1>2. ASSUME NEW c \in Client, Create(c) PROVE NoNewScheduled
  <2>1. calls[c].of \in Submission
    BY <1>2, TypeOKParts, CallAt, CallParts DEF Create, At
  <2>2. Ids' = Ids \cup {NextRow} /\ rows'[NextRow].of = calls[c].of
    BY <1>2, <2>1, TypeOKParts, FormIsRow, InsertAdds DEF Create
  <2> QED BY <2>1, <2>2, ServerAssumption DEF NoNewScheduled
<1>3. ASSUME NEW c \in Client,
             \/ \E s \in Submission : Submit(c, s)
             \/ Remember(c)
             \/ \E t \in Ids : ReadRow(c, t)
             \/ \E from, to \in Account : ReadBalance(c, from, to)
             \/ Write(c) \/ Fail(c)
      PROVE  NoNewScheduled
  <2>1. Ids' = Ids
    BY <1>3, TypeOKParts, WriteKeeps, BooksStay DEF Submit, Remember, ReadRow, ReadBalance, Fail
  <2> QED BY <2>1 DEF NoNewScheduled
<1>4. ASSUME (\E s \in Submission : Forget(s)) \/ UNCHANGED vars PROVE NoNewScheduled
  BY <1>4 DEF NoNewScheduled, Forget, vars, books, Ids
<1>5. ASSUME NoAddress \/ QueryFails \/ (\E t \in Template : ScheduledFails(t)) \/ Tick \/ Crash
      PROVE  OnceInv'
  <2>1. Ids' = Ids /\ byHand' = byHand
    BY <1>5 DEF NoAddress, QueryFails, ScheduledFails, Tick, Crash, books, Ids
  <2>2. next <= next'
    <3>1. CASE Crash
      <4>1. PICK later \in now .. LastSecond : next' = PlanNext(later)
        BY <3>1 DEF Crash
      <4>2. later \in Nat /\ now <= later
        BY TimeTyped, ServerAssumption
      <4>3. PlanNext(now) <= PlanNext(later) /\ PlanNext(later) \in Nat
        BY <4>2, TimeTyped, PlansAhead
      <4> QED BY <4>1, <4>3, TimeTyped DEF PlanInv
    <3>2. CASE QueryFails \/ (\E t \in Template : ScheduledFails(t)) \/ Tick
      BY <3>2, TimeTyped DEF QueryFails, ScheduledFails, Tick
    <3>3. CASE NoAddress
      BY <3>3, TimeTyped DEF NoAddress, PlanInv
    <3> QED BY <1>5, <3>1, <3>2, <3>3
  <2>3. JobMovesOn
    BY <1>5, TypeOKParts DEF NoAddress, Resting, QueryFails, ScheduledFails, Tick, Crash, NoJob, JobMovesOn, SchedulerTyped
  <2> QED BY <1>0, <2>1, <2>2, <2>3, OthersOnce DEF NoNewScheduled
<1> QED BY <1>0, <1>1, <1>2, <1>3, <1>4, <1>5, RequestsAreUnscheduled, OtherUnscheduled,
           CreateScheduledOnce, RunByHandOnce, StartOnce DEF Next

LEMMA InitPlanned == Init => PlanInv /\ OnceInv
<1> SUFFICES ASSUME Init PROVE PlanInv /\ OnceInv
  OBVIOUS
<1>1. now = 0 /\ next = 0 /\ job.todo = {} /\ Ids = {}
  BY DEF Init, NoJob, Ids
<1>2. Boundary(0) = 0
  BY ServerAssumption DEF Boundary
<1>3. PlanNext(0) \in Nat
  BY PlansAhead
<1> QED BY <1>1, <1>2, <1>3 DEF PlanInv, OnceInv, Resting

\* A scheduled row is created once for a window, through crashes, restarts and late timers,
\* unless the job was run from the command line in that window
\* (CreateScheduledTransactions, doRun).
THEOREM ServerSchedulesOnce == Spec => []ScheduledOnce
<1>1. TypeOK /\ PlanInv /\ OnceInv /\ [Next]_vars => PlanInv' /\ OnceInv'
  BY StepPlans, StepOnce
<1>2. TypeOK /\ OnceInv => ScheduledOnce
  <2> SUFFICES ASSUME OnceInv, NEW u \in Ids, NEW v \in Ids, rows[u].of = rows[v].of,
                      rows[u].of \in Template \X (Nat \ byHand)
               PROVE  u = v
    BY DEF ScheduledOnce
  <2>1. PICK t \in Template, w \in Nat \ byHand : rows[u].of = <<t, w>>
    OBVIOUS
  <2> QED BY <2>1 DEF OnceInv, Is
<1> QED BY <1>1, <1>2, InitPlanned, ServerIsTyped, PTL DEF Spec

-----------------------------------------------------------------------------
(* Runs on time *)

LEMMA OnTimeInvNext ==
    ASSUME \A w \in Nat : w <= Window(now') =>
              \/ w \in delayed'
              \/ w = Window(now') /\ next' <= now'
              \/ \A t \in Scheduled(w) : Handled(t, w)',
           next' <= now' /\ Window(now') \notin delayed' => job'.todo = {} /\ runningUntil' < now',
           next' <= now' /\ now' # Boundary(Window(now')) => Window(now') + 1 \in delayed',
           runningUntil' < Boundary(Window(now') + 1) \/ Window(now') + 1 \in delayed',
           runningUntil' < now' + Interval
    PROVE  OnTimeInv'
BY DEF OnTimeInv, Overdue, Resting, Scheduled, Window, Boundary

LEMMA HandledStays ==
    ASSUME Kept, failed \subseteq failed', NEW t \in Template, NEW w \in Nat, Handled(t, w),
           job.window = w /\ t \in job.todo => Handled(t, w)'
    PROVE  Handled(t, w)'
<1>1. CASE \E u \in Ids : Is(u, t, w)
  BY <1>1 DEF Kept, OriginsKept, Handled, Is
<1>2. CASE <<t, w>> \in failed
  BY <1>2 DEF Handled
<1> QED BY <1>1, <1>2 DEF Handled

LEMMA OthersOnTime ==
    ASSUME TypeOK, OnTimeInv, UNCHANGED <<now, next, delayed, runningUntil>>, job'.todo \subseteq job.todo,
           \A t \in Template, w \in Nat : Handled(t, w) => Handled(t, w)'
    PROVE  OnTimeInv'
<1>1. \A w : Scheduled(w) \subseteq Template
  BY DEF Scheduled
<1>2. \A w \in Nat : w <= Window(now') =>
              \/ w \in delayed'
              \/ w = Window(now') /\ next' <= now'
              \/ \A t \in Scheduled(w) : Handled(t, w)'
  BY <1>1 DEF OnTimeInv, Overdue
<1> QED BY <1>2, OnTimeInvNext DEF OnTimeInv, Overdue, Resting

LEMMA UnscheduledOnTime ==
    ASSUME TypeOK, OnTimeInv, Kept, Unscheduled
    PROVE  OnTimeInv'
<1>1. ASSUME NEW t \in Template, NEW w \in Nat, Handled(t, w) PROVE Handled(t, w)'
  BY <1>1, HandledStays DEF Unscheduled, Handled
<1> QED BY <1>1, OthersOnTime DEF Unscheduled

LEMMA JobStepsOnTime ==
    ASSUME TypeOK, OnTimeInv, Kept, NEW p \in Template,
           CreateScheduled(p) \/ ScheduledFails(p) \/ RunByHand(p)
    PROVE  OnTimeInv'
<1>1. /\ UNCHANGED <<now, next, delayed, runningUntil>> /\ failed \subseteq failed'
      /\ job'.window = job.window /\ job'.todo \subseteq job.todo
      /\ \A t \in job.todo : t \in job'.todo \/ (t = p /\ (CreateScheduled(p) \/ ScheduledFails(p)))
  BY TypeOKParts DEF CreateScheduled, ScheduledFails, RunByHand, checker, SchedulerTyped
<1>2. CreateScheduled(p) => \E u \in Ids' : rows'[u].of = <<p, job.window>>
  BY TimeTyped, TypeOKParts, ScheduledIsNoForm DEF CreateScheduled
<1>3. ScheduledFails(p) => <<p, job.window>> \in failed'
  BY DEF ScheduledFails
<1>4. ASSUME NEW t \in Template, NEW w \in Nat, Handled(t, w) PROVE Handled(t, w)'
  <2>1. job.window = w /\ t \in job.todo => Handled(t, w)'
    BY <1>1, <1>2, <1>3 DEF Handled, Is
  <2> QED BY <1>1, <1>4, <2>1, HandledStays
<1> QED BY <1>1, <1>4, OthersOnTime

LEMMA QueryFailsOnTime ==
    ASSUME TypeOK, OnTimeInv, Kept, QueryFails
    PROVE  OnTimeInv'
<1>1. /\ UNCHANGED <<now, next, delayed, runningUntil>> /\ job'.todo = {}
      /\ failed' = failed \cup {<<t, job.window>> : t \in job.todo}
  BY TypeOKParts DEF QueryFails, checker, SchedulerTyped
<1>2. ASSUME NEW t \in Template, NEW w \in Nat, Handled(t, w) PROVE Handled(t, w)'
  <2>1. job.window = w /\ t \in job.todo => Handled(t, w)'
    BY <1>1 DEF Handled
  <2> QED BY <1>1, <1>2, <2>1, HandledStays
<1> QED BY <1>1, <1>2, OthersOnTime

\* a run without an address is over when it starts, and its rows count as failed
LEMMA NoAddressOnTime ==
    ASSUME TypeOK, OnTimeInv, Kept, NoAddress
    PROVE  OnTimeInv'
<1> DEFINE W == Window(now)
<1>1. /\ W \in Nat /\ ~(next' <= now')
      /\ UNCHANGED <<now, job, delayed, runningUntil>>
      /\ failed' = failed \cup {<<t, W>> : t \in Scheduled(W)}
  BY TimeTyped, PlansAhead DEF NoAddress, checker
<1>2. ASSUME NEW w \in Nat, w <= W
      PROVE  w \in delayed' \/ \A t \in Scheduled(w) : Handled(t, w)'
  <2>1. CASE w = W
    BY <1>1, <2>1 DEF Handled
  <2>2. CASE w # W /\ w \notin delayed
    <3>1. ASSUME NEW t \in Scheduled(w) PROVE Handled(t, w)'
      <4>1. Handled(t, w) /\ t \in Template
        BY <1>2, <2>2, <3>1 DEF OnTimeInv, Scheduled
      <4> QED BY <1>1, <4>1, HandledStays DEF Handled
    <3> QED BY <3>1
  <2> QED BY <1>1, <2>1, <2>2
<1>3. /\ runningUntil < Boundary(W + 1) \/ W + 1 \in delayed
      /\ runningUntil < now + Interval
  BY DEF OnTimeInv
<1> QED BY <1>1, <1>2, <1>3, OnTimeInvNext

LEMMA StartOnTime ==
    ASSUME TypeOK, PlanInv, OnTimeInv, Kept, Start
    PROVE  OnTimeInv'
<1> DEFINE W == Window(now)
<1>0. /\ now \in Nat /\ W \in Nat /\ runningUntil \in Int /\ Interval \in Nat /\ Interval > 1
      /\ Boundary(W) \in Nat /\ Boundary(W + 1) = Boundary(W) + Interval
  BY TimeTyped, Boundaries
<1>1. /\ next <= now /\ next' = PlanNext(now) /\ ~(next' <= now')
      /\ UNCHANGED <<now, delayed, failed>>
  BY TimeTyped, PlansAhead DEF Start, Overdue
<1>2. \A w : Scheduled(w) \subseteq Template
  BY DEF Scheduled
<1>3. W \notin delayed => Resting /\ ~CronJobRunning(now)
  BY <1>0, <1>1 DEF OnTimeInv, Overdue, CronJobRunning
<1>4. now # Boundary(W) => W + 1 \in delayed
  BY <1>1 DEF OnTimeInv, Overdue
<1>5. CASE Resting /\ ~CronJobRunning(now)
  <2>1. /\ runningUntil' = now + Interval - 1
        /\ job' = [window |-> W, todo |-> Scheduled(W)]
    BY <1>0, <1>5 DEF Start, SetCronJobRunning, LastsUntil
  <2>2. job'.window = W /\ job'.todo = Scheduled(W)
    BY <2>1
  <2>3. ASSUME NEW w \in Nat, w <= W
        PROVE  w \in delayed' \/ \A t \in Scheduled(w) : Handled(t, w)'
    <3>1. CASE w = W
      BY <2>2, <3>1 DEF Handled
    <3>2. CASE w # W /\ w \notin delayed
      <4>1. ASSUME NEW t \in Scheduled(w) PROVE Handled(t, w)'
        <5>1. Handled(t, w) /\ t \in Template
          BY <1>2, <2>3, <3>2, <4>1 DEF OnTimeInv
        <5> QED BY <1>1, <1>5, <5>1, HandledStays DEF Resting
      <4> QED BY <4>1
    <3> QED BY <1>1, <3>1, <3>2
  <2>4. runningUntil' < Boundary(W + 1) \/ W + 1 \in delayed
    BY <1>0, <1>4, <2>1
  <2>5. runningUntil' < now + Interval
    BY <1>0, <2>1
  <2> QED BY <1>1, <2>3, <2>4, <2>5, OnTimeInvNext
<1>6. CASE ~(Resting /\ ~CronJobRunning(now))
  <2>1. job' = job /\ runningUntil' = runningUntil /\ W \in delayed
    BY <1>3, <1>6 DEF Start, checker
  <2>2. ASSUME NEW w \in Nat, w <= W
        PROVE  w \in delayed' \/ \A t \in Scheduled(w) : Handled(t, w)'
    <3>1. CASE w \notin delayed
      <4>1. ASSUME NEW t \in Scheduled(w) PROVE Handled(t, w)'
        <5>1. Handled(t, w) /\ t \in Template
          BY <1>2, <2>1, <2>2, <3>1, <4>1 DEF OnTimeInv
        <5> QED BY <1>1, <2>1, <5>1, HandledStays DEF Handled
      <4> QED BY <4>1
    <3> QED BY <1>1, <3>1
  <2>3. /\ runningUntil < Boundary(W + 1) \/ W + 1 \in delayed
        /\ runningUntil < now + Interval
    BY DEF OnTimeInv
  <2> QED BY <1>1, <2>1, <2>2, <2>3, OnTimeInvNext
<1> QED BY <1>5, <1>6

LEMMA PlannedAtBoundary ==
    ASSUME TypeOK, PlanInv, ~Overdue
    PROVE  next = Boundary(Window(now) + 1)
<1>1. PICK k \in Nat : next = Boundary(k)
  BY DEF PlanInv
<1>2. next > now /\ next <= Boundary(Window(now) + 1) /\ Boundary(Window(now)) <= now
  BY TimeTyped, PlansAhead, WindowHolds DEF PlanInv, Overdue
<1>3. ASSUME k <= Window(now) PROVE FALSE
  <2>1. Boundary(k) <= Boundary(Window(now)) /\ Boundary(Window(now)) \in Nat
    BY <1>3, TimeTyped, Boundaries
  <2> QED BY <1>1, <1>2, <2>1, TimeTyped
<1>4. Window(now) + 1 <= k /\ Window(now) + 1 \in Nat
  BY <1>3, TimeTyped
<1>5. Boundary(Window(now) + 1) <= Boundary(k) /\ Boundary(Window(now) + 1) \in Nat
  BY <1>4, Boundaries
<1> QED BY <1>1, <1>2, <1>5, TimeTyped

LEMMA TickOnTime ==
    ASSUME TypeOK, PlanInv, OnTimeInv, Kept, Tick
    PROVE  OnTimeInv'
<1> DEFINE W == Window(now)
           V == Window(now + 1)
<1>0. /\ now \in Nat /\ next \in Nat /\ W \in Nat /\ V \in Nat
      /\ runningUntil \in Int /\ Interval \in Nat /\ Interval > 1
      /\ Boundary(W + 1) \in Nat /\ Boundary(V + 1) \in Nat
      /\ Boundary((W + 1) + 1) = Boundary(W + 1) + Interval
  <2>1. /\ now \in Nat /\ next \in Nat /\ W \in Nat /\ V \in Nat
        /\ runningUntil \in Int /\ Interval \in Nat /\ Interval > 1
    BY TimeTyped, WindowHolds
  <2>2. W + 1 \in Nat /\ V + 1 \in Nat
    BY <2>1
  <2>3. Boundary(W + 1) \in Nat /\ Boundary(V + 1) \in Nat
    BY <2>2, Boundaries
  <2>4. Boundary((W + 1) + 1) = Boundary(W + 1) + Interval
    BY <2>2, Boundaries
  <2> QED BY <2>1, <2>3, <2>4
<1>1. /\ now' = now + 1 /\ next' = next /\ job' = job /\ failed' = failed
      /\ runningUntil' = runningUntil
      /\ delayed' = delayed
           \cup (IF Overdue THEN {W + 1} \cup {w \in {W} : V # w} ELSE {})
           \cup (IF Resting THEN {} ELSE W + 1 .. V)
  BY DEF Tick, checker, Crossed
<1>2. /\ delayed \subseteq delayed'
      /\ Overdue => W + 1 \in delayed'
      /\ Overdue /\ V # W => W \in delayed'
      /\ ~Resting /\ V = W + 1 => V \in delayed'
  BY <1>0, <1>1
<1>3. V = W \/ (V = W + 1 /\ now + 1 = Boundary(V))
  BY <1>0, WindowSteps
<1>4. ~Overdue => next = Boundary(W + 1)
  BY PlannedAtBoundary
<1>5. now + 1 < Boundary(V + 1)
  BY <1>0, WindowHolds
<1>6. V = W /\ next' <= now' => Overdue
  BY <1>0, <1>1, <1>4, <1>5
<1>7. ASSUME NEW w \in Nat, w <= V
      PROVE  \/ w \in delayed'
             \/ w = V /\ next' <= now'
             \/ \A t \in Scheduled(w) : Handled(t, w)'
  <2>1. CASE w <= W /\ w \notin delayed' /\ ~(w = W /\ Overdue)
    <3>1. ASSUME NEW t \in Scheduled(w) PROVE Handled(t, w)'
      <4>1. Handled(t, w) /\ t \in Template
        BY <1>2, <1>7, <2>1, <3>1 DEF OnTimeInv, Scheduled
      <4> QED BY <1>1, <1>7, <4>1, HandledStays DEF Handled
    <3> QED BY <3>1
  <2>2. CASE w = W /\ Overdue
    BY <1>0, <1>1, <1>2, <2>2 DEF Overdue
  <2>3. CASE w = V /\ V = W + 1
    BY <1>0, <1>1, <1>2, <1>3, <1>4, <2>3
  <2> QED BY <1>0, <1>3, <1>7, <2>1, <2>2, <2>3
<1>8. next' <= now' /\ V \notin delayed' => job'.todo = {} /\ runningUntil' < now'
  <2> SUFFICES ASSUME next' <= now', V \notin delayed' PROVE job.todo = {} /\ runningUntil < now + 1
    BY <1>1
  <2>1. CASE V = W
    BY <1>0, <1>2, <1>6, <2>1 DEF OnTimeInv, Resting
  <2>2. CASE V = W + 1
    <3>1. ~Overdue /\ Resting /\ V \notin delayed
      BY <1>2, <2>2
    <3>2. runningUntil < Boundary(W + 1)
      BY <2>2, <3>1 DEF OnTimeInv
    <3> QED BY <1>0, <1>3, <2>2, <3>1, <3>2 DEF Resting
  <2> QED BY <1>3, <2>1, <2>2
<1>9. next' <= now' /\ now' # Boundary(V) => V + 1 \in delayed'
  BY <1>0, <1>1, <1>2, <1>3, <1>6
<1>10. runningUntil' < Boundary(V + 1) \/ V + 1 \in delayed'
  <2>1. CASE V = W
    BY <1>1, <1>2, <2>1 DEF OnTimeInv
  <2>2. CASE V = W + 1 /\ now + 1 = Boundary(V)
    <3>1. runningUntil < now + Interval
      BY DEF OnTimeInv
    <3>2. Boundary(V + 1) = now + 1 + Interval
      BY <1>0, <2>2
    <3> QED BY <1>0, <1>1, <3>1, <3>2
  <2> QED BY <1>3, <2>1, <2>2
<1>11. runningUntil' < now' + Interval
  BY <1>0, <1>1 DEF OnTimeInv
<1>12. Window(now') = V
  BY <1>1
<1> QED BY <1>7, <1>8, <1>9, <1>10, <1>11, <1>12, OnTimeInvNext

LEMMA CrashOnTime ==
    ASSUME TypeOK, OnTimeInv, Kept, Crash
    PROVE  OnTimeInv'
<1> DEFINE W == Window(now)
<1>1. PICK later \in now .. LastSecond :
        /\ now' = later /\ next' = PlanNext(later)
        /\ delayed' = delayed \cup Crossed(later) \cup {w \in {W} : Overdue}
  BY DEF Crash
<1>2. /\ now \in Nat /\ later \in Nat /\ now <= later /\ W \in Nat
      /\ Interval \in Nat /\ Interval > 1 /\ PlanNext(later) \in Nat
  BY TimeTyped, PlansAhead, ServerAssumption
<1> DEFINE V == Window(later)
<1>3. V \in Nat /\ W <= V /\ Boundary(V + 1) \in Nat /\ next' > later
  BY <1>1, <1>2, WindowHolds, WindowMonotone, Boundaries, PlansAhead
<1>4. /\ runningUntil' = -1
      /\ failed' = failed \cup {<<t, job.window>> : t \in job.todo}
  BY ServerAssumption DEF Crash, ForgetAll
<1>5. ASSUME NEW w \in Nat, w <= V
      PROVE  w \in delayed' \/ \A t \in Scheduled(w) : Handled(t, w)'
  <2>1. CASE w > W
    BY <1>1, <1>2, <1>3, <1>5, <2>1 DEF Crossed
  <2>2. CASE w <= W /\ w \notin delayed'
    <3>1. ASSUME NEW t \in Scheduled(w) PROVE Handled(t, w)'
      <4>1. Handled(t, w) /\ t \in Template
        BY <1>1, <1>5, <2>2, <3>1 DEF OnTimeInv, Scheduled
      <4>2. job.window = w /\ t \in job.todo => Handled(t, w)'
        BY <1>4 DEF Handled
      <4> QED BY <1>4, <1>5, <4>1, <4>2, HandledStays
    <3> QED BY <3>1
  <2> QED BY <1>2, <1>5, <2>1, <2>2
<1>6. ~(next' <= now')
  BY <1>1, <1>2, <1>3
<1>7. runningUntil' < Boundary(V + 1) /\ runningUntil' < now' + Interval
  BY <1>1, <1>2, <1>3, <1>4
<1> QED BY <1>1, <1>5, <1>6, <1>7, OnTimeInvNext

LEMMA StepOnTime ==
    ASSUME TypeOK, PlanInv, OnTimeInv, [Next]_vars
    PROVE  OnTimeInv'
<1>0. Kept
  BY StepKeeps
<1> QED BY <1>0, UnscheduledOnTime, JobStepsOnTime, QueryFailsOnTime, NoAddressOnTime, StartOnTime, TickOnTime, CrashOnTime,
           RequestsAreUnscheduled, OtherUnscheduled DEF Next

LEMMA InitOnTime == Init => OnTimeInv
<1> SUFFICES ASSUME Init PROVE OnTimeInv
  OBVIOUS
<1>1. now = 0 /\ next = 0 /\ job.todo = {} /\ runningUntil = -1
  BY ServerAssumption DEF Init, NoJob
<1>2. Boundary(0) = 0 /\ Interval \in Nat /\ Interval > 1
  BY ServerAssumption DEF Boundary
<1>3. Window(0) \in Nat /\ Boundary(Window(0)) <= 0 /\ Boundary(Window(0)) \in Nat
      /\ Boundary(Window(0) + 1) \in Nat
  BY WindowHolds, Boundaries
<1>4. Window(0) = 0
  BY <1>2 DEF Window
<1> QED BY <1>1, <1>2, <1>3, <1>4 DEF OnTimeInv, Overdue, Resting

\* Every scheduled row of a window that has passed was created, unless its create or the
\* query for the templates failed, the host had no local address when the run was due, the
\* row is still to come in the run that goes on, or a run was late (doRun,
\* CreateScheduledTransactions, GetOrSetCronJobRunningInfo).
THEOREM ServerMissesNothingOnTime == Spec => []PunctualRunsMissNothing
<1>1. TypeOK /\ PlanInv /\ OnTimeInv /\ [Next]_vars => PlanInv' /\ OnTimeInv'
  BY StepPlans, StepOnTime
<1>2. TypeOK /\ OnTimeInv => PunctualRunsMissNothing
  <2> SUFFICES ASSUME TypeOK, OnTimeInv, NEW w \in 0 .. Window(now) - 1, NEW t \in Scheduled(w),
                      w \notin delayed
               PROVE  Handled(t, w)
    BY DEF PunctualRunsMissNothing, Handled, Is
  <2>1. w \in Nat /\ w <= Window(now) /\ w # Window(now)
    BY TimeTyped
  <2> QED BY <2>1 DEF OnTimeInv
<1>3. Init => PlanInv /\ OnTimeInv
  BY InitPlanned, InitOnTime
<1> QED BY <1>1, <1>2, <1>3, ServerIsTyped, PTL DEF Spec

-----------------------------------------------------------------------------
(* Balances: an insert and a session that was not overtaken change a       *)
(* balance and the sum of the rows alike.  A session that was overtaken    *)
(* leaves the accounts it writes, and the one its row had moved to, in     *)
(* mixed, so the argument is that it changes no row of any other account.  *)

\* what a row holds for account a, and what the rows rs hold together
Held(r, a) == IF r.live /\ r.account = a THEN r.amount ELSE 0
HeldBy(rs, a) == [t \in DOMAIN rs |-> Held(rs[t], a)]
Money(rs, a) == SumFunctionOnSet(HeldBy(rs, a), DOMAIN rs)

BooksAddUp == \A a \in Account \ mixed : balance[a] = Money(rows, a)

\* no request moves an account into itself
MovesLeave == \A c \in Client : calls[c].pc = "move" => calls[c].from # calls[c].to

-----------------------------------------------------------------------------
(* Money *)

\* What rows hold are integers, and there are finitely many of them.
LEMMA HeldIsInteger ==
    ASSUME NEW rs \in Seq(Row), NEW a
    PROVE  /\ IsFiniteSet(DOMAIN rs) /\ DOMAIN rs = 1 .. Len(rs) /\ Len(rs) \in Nat
           /\ \A t \in DOMAIN rs : rs[t] \in Row /\ Held(rs[t], a) \in Int
           /\ \A t \in DOMAIN rs : HeldBy(rs, a)[t] = Held(rs[t], a)
<1>1. DOMAIN rs = 1 .. Len(rs) /\ Len(rs) \in Nat /\ \A t \in DOMAIN rs : rs[t] \in Row
  BY LenProperties, ElementOfSeq
<1>2. IsFiniteSet(1 .. Len(rs))
  BY <1>1, FS_Interval
<1>3. ASSUME NEW t \in DOMAIN rs PROVE Held(rs[t], a) \in Int
  <2>1. rs[t].amount \in Int
    BY <1>1, ServerAssumption DEF Row
  <2> QED
    BY <2>1 DEF Held
<1> QED
  BY <1>1, <1>2, <1>3 DEF HeldBy

\* The money of an account is an integer, and the sum of what is booked on it.
LEMMA MoneyIsSumOfBooked ==
    ASSUME rows \in Seq(Row), NEW a
    PROVE  Money(rows, a) = SumFunctionOnSet([t \in Ids |-> rows[t].amount], Booked(a))
<1> DEFINE F == HeldBy(rows, a)
           G == [t \in Ids |-> rows[t].amount]
           B == Booked(a)
<1>1. IsFiniteSet(Ids) /\ B \in SUBSET Ids
  BY HeldIsInteger DEF Booked, Ids
<1>2. \A t \in Ids : F[t] \in Int /\ (t \notin B => F[t] = 0) /\ (t \in B => G[t] = F[t])
  BY HeldIsInteger DEF Ids, Booked, Held
<1> HIDE DEF F, G, B
<1>3. IsFiniteSet(B)
  BY <1>1, FS_Subset
<1>4. SumFunctionOnSet(F, B) = SumFunctionOnSet(F, Ids)
  BY <1>1, <1>2, SumOfSubset
<1>5. \A t \in B : F[t] \in Int /\ G[t] = F[t]
  BY <1>1, <1>2
<1>6. SumFunctionOnSet(G, B) = SumFunctionOnSet(F, B)
  BY <1>3, <1>5, SumOfEqual
<1> QED
  BY <1>4, <1>6 DEF F, G, B, Money, Ids

\* The money of an account is an integer.
LEMMA MoneyIsInteger ==
    ASSUME NEW rs \in Seq(Row), NEW a
    PROVE  Money(rs, a) \in Int
<1>1. IsFiniteSet(DOMAIN rs) /\ \A t \in DOMAIN rs : HeldBy(rs, a)[t] \in Int
  BY HeldIsInteger
<1> QED
  BY <1>1, SumIsInteger DEF Money

\* Rows that hold the same hold the same together.
LEMMA MoneyStands ==
    ASSUME NEW rs \in Seq(Row), NEW rs2 \in Seq(Row), DOMAIN rs2 = DOMAIN rs, NEW a,
           \A t \in DOMAIN rs : Held(rs2[t], a) = Held(rs[t], a)
    PROVE  Money(rs2, a) = Money(rs, a)
<1>1. IsFiniteSet(DOMAIN rs) /\ \A t \in DOMAIN rs : HeldBy(rs, a)[t] \in Int /\ HeldBy(rs2, a)[t] = HeldBy(rs, a)[t]
  BY HeldIsInteger
<1> QED
  BY <1>1, SumOfEqual DEF Money

\* One row written.
LEMMA MoneyChanges ==
    ASSUME NEW rs \in Seq(Row), NEW rs2 \in Seq(Row), DOMAIN rs2 = DOMAIN rs, NEW a, NEW t, t \in DOMAIN rs,
           \A u \in DOMAIN rs \ {t} : rs2[u] = rs[u]
    PROVE  Money(rs2, a) = Money(rs, a) - Held(rs[t], a) + Held(rs2[t], a)
<1> DEFINE F == HeldBy(rs, a)
           G == HeldBy(rs2, a)
           D == DOMAIN rs
<1>1. /\ IsFiniteSet(D) /\ \A u \in D : F[u] \in Int /\ G[u] \in Int
      /\ F[t] = Held(rs[t], a) /\ G[t] = Held(rs2[t], a)
  BY HeldIsInteger
<1>2. \A u \in D \ {t} : G[u] = F[u]
  BY HeldIsInteger
<1>3. t \in D /\ Money(rs2, a) = SumFunctionOnSet(G, D) /\ Money(rs, a) = SumFunctionOnSet(F, D)
  BY DEF Money
<1> HIDE DEF F, G, D
<1>4. SumFunctionOnSet(G, D) = SumFunctionOnSet(F, D) - F[t] + G[t]
  <2>1. IsFiniteSet(D) /\ t \in D /\ \A u \in D : F[u] \in Int /\ G[u] \in Int
    BY <1>1, <1>3
  <2> QED
    BY ONLY <2>1, <1>2, SumOfChange
<1> QED
  BY <1>1, <1>3, <1>4

\* One row added.
LEMMA MoneyGrows ==
    ASSUME NEW rs \in Seq(Row), NEW rs2 \in Seq(Row), NEW n, n \notin DOMAIN rs, DOMAIN rs2 = DOMAIN rs \cup {n}, NEW a,
           \A u \in DOMAIN rs : rs2[u] = rs[u]
    PROVE  Money(rs2, a) = Money(rs, a) + Held(rs2[n], a)
<1> DEFINE F == HeldBy(rs, a)
           G == HeldBy(rs2, a)
           D == DOMAIN rs
<1>1. IsFiniteSet(D) /\ (\A u \in D : F[u] \in Int /\ G[u] = F[u]) /\ n \notin D
      /\ G[n] = Held(rs2[n], a) /\ \A u \in D \cup {n} : G[u] \in Int
  <2>1. IsFiniteSet(D) /\ \A u \in D : F[u] = Held(rs[u], a) /\ F[u] \in Int
    BY HeldIsInteger
  <2>2. \A u \in D \cup {n} : G[u] = Held(rs2[u], a) /\ G[u] \in Int
    BY HeldIsInteger
  <2> QED
    BY <2>1, <2>2
<1>2. Money(rs2, a) = SumFunctionOnSet(G, D \cup {n}) /\ Money(rs, a) = SumFunctionOnSet(F, D)
  BY DEF Money
<1> HIDE DEF F, G, D
<1>3. SumFunctionOnSet(G, D \cup {n}) = G[n] + SumFunctionOnSet(G, D)
  BY <1>1, SumWith
<1>4. SumFunctionOnSet(G, D) = SumFunctionOnSet(F, D)
  BY <1>1, SumOfEqual
<1>5. SumFunctionOnSet(F, D) \in Int /\ n \in D \cup {n}
  BY <1>1, SumIsInteger
<1> QED
  BY <1>1, <1>2, <1>3, <1>4, <1>5

\* Every row of one account renamed to another.
LEMMA MoneyMoves ==
    ASSUME NEW rs \in Seq(Row), NEW rs2 \in Seq(Row), DOMAIN rs2 = DOMAIN rs,
           NEW from, NEW to, from # to,
           \A t \in DOMAIN rs : /\ rs2[t].live = rs[t].live /\ rs2[t].amount = rs[t].amount
                                /\ rs[t].live => rs2[t].account = IF rs[t].account = from THEN to ELSE rs[t].account
    PROVE  Money(rs2, from) = 0 /\ Money(rs2, to) = Money(rs, to) + Money(rs, from)
<1> DEFINE D == DOMAIN rs
           F == HeldBy(rs, to)
           G == HeldBy(rs, from)
           H == HeldBy(rs2, to)
           Z == HeldBy(rs2, from)
<1>1. /\ IsFiniteSet(D)
      /\ \A t \in D : /\ F[t] = Held(rs[t], to) /\ G[t] = Held(rs[t], from)
                      /\ H[t] = Held(rs2[t], to) /\ Z[t] = Held(rs2[t], from)
                      /\ Held(rs[t], to) \in Int /\ Held(rs[t], from) \in Int /\ rs[t] \in Row
  BY HeldIsInteger
<1>2. \A t \in D : Z[t] = 0
  BY <1>1 DEF Held
<1>3. ASSUME NEW t \in D
      PROVE  F[t] \in Int /\ G[t] \in Int /\ H[t] = F[t] + G[t]
  <2>1. Held(rs2[t], to) = Held(rs[t], to) + Held(rs[t], from)
    <3>1. rs[t].amount \in Int
      BY <1>1, ServerAssumption DEF Row
    <3>2. CASE ~rs[t].live
      BY <3>2 DEF Held
    <3>3. CASE rs[t].live
      BY <3>1, <3>3 DEF Held
    <3> QED
      BY <3>2, <3>3
  <2> QED
    BY <1>1, <2>1
<1>4. /\ Money(rs2, from) = SumFunctionOnSet(Z, D) /\ Money(rs2, to) = SumFunctionOnSet(H, D)
      /\ Money(rs, to) = SumFunctionOnSet(F, D) /\ Money(rs, from) = SumFunctionOnSet(G, D)
  BY DEF Money
<1> HIDE DEF D, F, G, H, Z
<1>5. SumFunctionOnSet(Z, D) = 0
  BY <1>1, <1>2, SumOfZeros
<1>6. SumFunctionOnSet(H, D) = SumFunctionOnSet(F, D) + SumFunctionOnSet(G, D)
  BY <1>1, <1>3, SumOfSums
<1> QED
  BY <1>4, <1>5, <1>6

-----------------------------------------------------------------------------
(* The sessions *)

\* What is booked twice is counted twice: a row inserted adds its amount.
LEMMA InsertAddsUp ==
    ASSUME BooksTyped, BooksAddUp, NEW a \in Account, NEW v \in Amount, NEW of \in Origin, Insert(a, v, of)
    PROVE  BooksAddUp'
<1> DEFINE row == [account |-> a, amount |-> v, live |-> TRUE, of |-> of]
           n == NextRow
<1>1. rows \in Seq(Row) /\ rows' \in Seq(Row) /\ balance \in [Account -> Int] /\ row \in Row /\ v \in Int
  BY InsertAdds, ServerAssumption DEF BooksTyped, Row
<1>2. rows' = Append(rows, row) /\ balance' = [balance EXCEPT ![a] = balance[a] + v] /\ mixed' = mixed
  BY DEF Insert
<1>3. DOMAIN rows' = DOMAIN rows \cup {n} /\ n \notin DOMAIN rows
  BY InsertAdds DEF Ids
<1>4. rows'[n] = row /\ \A u \in DOMAIN rows : rows'[u] = rows[u]
  BY <1>1, <1>2, AppendProperties, HeldIsInteger DEF NextRow
<1>5. balance'[a] = balance[a] + v /\ \A c \in Account \ {a} : balance'[c] = balance[c]
  BY <1>1, <1>2
<1>6. rows \in Seq(Row) /\ rows' \in Seq(Row)
  BY <1>1
<1>7. \A u \in DOMAIN rows : rows'[u] = rows[u]
  BY <1>4
<1>8. \A c : Held(rows'[n], c) = IF c = a THEN v ELSE 0
  BY <1>4 DEF Held
<1> HIDE DEF row, n
<1>9. ASSUME NEW c \in Account, c \notin mixed
      PROVE  balance'[c] = Money(rows', c)
  <2>1. Money(rows', c) = Money(rows, c) + Held(rows'[n], c)
    BY ONLY <1>3, <1>6, <1>7, MoneyGrows
  <2>2. balance[c] = Money(rows, c) /\ Money(rows, c) \in Int
    BY <1>6, <1>9, MoneyIsInteger DEF BooksAddUp
  <2>3. CASE c = a
    BY <1>5, <1>8, <2>1, <2>2, <2>3
  <2>4. CASE c # a
    BY <1>5, <1>8, <2>1, <2>2, <2>4
  <2> QED
    BY <2>3, <2>4
<1> QED
  BY <1>2, <1>9 DEF BooksAddUp

\* A row that is read and modified: in every account outside mixed the balance changes as
\* the row does.
LEMMA UpdateAddsUp ==
    ASSUME BooksTyped, BooksAddUp, NEW t \in Ids, NEW read \in Row, NEW a \in Account, NEW v \in Amount,
           Update(t, read, a, v)
    PROVE  BooksAddUp'
<1> DEFINE r == rows[t]
           x == IF a # read.account THEN a ELSE r.account
           y == IF v # read.amount THEN v ELSE r.amount
           row == [account |-> x, amount |-> y, live |-> rows[t].live, of |-> rows[t].of]
<1>1. /\ rows \in Seq(Row) /\ rows' \in Seq(Row) /\ DOMAIN rows' = DOMAIN rows /\ t \in DOMAIN rows
      /\ balance \in [Account -> Int] /\ r \in Row /\ v \in Int /\ read.amount \in Int /\ r.amount \in Int
  BY UpdateKeeps, RowsAreRows, ServerAssumption DEF BooksTyped, Ids, Row
<1>2. /\ r.live
      /\ rows' = [rows EXCEPT ![t].account = IF a # read.account THEN a ELSE @,
                              ![t].amount = IF v # read.amount THEN v ELSE @]
      /\ balance' = Rebooked(read, a, v)
      /\ mixed' = IF r # read THEN mixed \cup {read.account, a, r.account} ELSE mixed
  BY DEF Update, Mixes, Overtaken
<1>3. rows' = [rows EXCEPT ![t] = row]
  <2>0. rows[t] \in Row
    BY <1>1
  <2>1. [[rows[t] EXCEPT !.account = x] EXCEPT !.amount = y] = row
    <3> HIDE DEF x, y
    <3> QED
      BY ONLY <2>0, RowRewritten, Zenon
  <2>2. t \in DOMAIN rows
    BY DEF Ids
  <2> QED
    BY <1>2, <2>1, <2>2
<1>4. /\ rows'[t] = row
      /\ \A u \in DOMAIN rows \ {t} : rows'[u] = rows[u]
  BY <1>1, <1>3
<1>5. ASSUME NEW c \in Account, c \notin mixed'
      PROVE  balance'[c] = Money(rows', c)
  <2>1. Money(rows', c) = Money(rows, c) - Held(r, c) + Held(rows'[t], c)
    BY <1>1, <1>4, MoneyChanges
  <2>2. c \notin mixed /\ balance[c] = Money(rows, c) /\ Money(rows, c) \in Int
    BY <1>1, <1>2, <1>5, MoneyIsInteger DEF BooksAddUp
  <2>3. balance'[c] = balance[c] - (IF c = read.account THEN read.amount ELSE 0) + (IF c = a THEN v ELSE 0)
    BY <1>2 DEF Rebooked
  <2>4. Held(r, c) = (IF r.account = c THEN r.amount ELSE 0) /\ Held(rows'[t], c) = IF x = c THEN y ELSE 0
    BY <1>2, <1>4 DEF Held
  <2>5. CASE r = read
    <3>1. x = a /\ y = v
      BY <2>5
    <3> QED
      BY <1>1, <2>1, <2>2, <2>3, <2>4, <2>5, <3>1
  <2>6. CASE r # read
    <3>1. c # read.account /\ c # a /\ c # r.account
      BY <1>2, <1>5, <2>6
    <3>2. Held(r, c) = 0 /\ Held(rows'[t], c) = 0 /\ balance'[c] = balance[c] - 0 + 0
      BY <2>3, <2>4, <3>1
    <3> QED
      BY <2>1, <2>2, <3>2
  <2> QED
    BY <2>5, <2>6
<1> QED
  BY <1>5 DEF BooksAddUp

\* A row that is read and deleted.
LEMMA RemoveAddsUp ==
    ASSUME BooksTyped, BooksAddUp, NEW t \in Ids, NEW read \in Row, Remove(t, read)
    PROVE  BooksAddUp'
<1> DEFINE r == rows[t]
<1>1. /\ rows \in Seq(Row) /\ rows' \in Seq(Row) /\ DOMAIN rows' = DOMAIN rows /\ t \in DOMAIN rows
      /\ balance \in [Account -> Int] /\ r \in Row /\ read.amount \in Int /\ r.amount \in Int /\ read.account \in Account
  BY RemoveKeeps, RowsAreRows, ServerAssumption DEF BooksTyped, Ids, Row
<1>2. /\ r.live
      /\ rows' = [rows EXCEPT ![t] = [r EXCEPT !.live = FALSE]]
      /\ balance' = [balance EXCEPT ![read.account] = balance[read.account] - read.amount]
      /\ mixed' = IF r # read THEN mixed \cup {read.account, r.account} ELSE mixed
  BY DEF Remove, Mixes, Overtaken
<1>3. rows'[t] = [r EXCEPT !.live = FALSE] /\ \A u \in DOMAIN rows \ {t} : rows'[u] = rows[u]
  BY <1>1, <1>2
<1>4. ~rows'[t].live
  BY <1>1, <1>3 DEF Row
<1>5. ASSUME NEW c \in Account, c \notin mixed'
      PROVE  balance'[c] = Money(rows', c)
  <2>1. Money(rows', c) = Money(rows, c) - Held(r, c) + Held(rows'[t], c)
    <3>1. rows \in Seq(Row) /\ rows' \in Seq(Row) /\ DOMAIN rows' = DOMAIN rows /\ t \in DOMAIN rows
      BY <1>1
    <3>2. \A u \in DOMAIN rows \ {t} : rows'[u] = rows[u]
      BY <1>3
    <3> QED
      BY ONLY <3>1, <3>2, MoneyChanges
  <2>2. c \notin mixed /\ balance[c] = Money(rows, c) /\ Money(rows, c) \in Int
    BY <1>1, <1>2, <1>5, MoneyIsInteger DEF BooksAddUp
  <2>3. balance'[c] = balance[c] - (IF c = read.account THEN read.amount ELSE 0)
    BY <1>1, <1>2
  <2>4. Held(r, c) = (IF r.account = c THEN r.amount ELSE 0) /\ Held(rows'[t], c) = 0
    BY <1>2, <1>4 DEF Held
  <2>5. CASE r = read
    BY <1>1, <2>1, <2>2, <2>3, <2>4, <2>5
  <2>6. CASE r # read
    <3>1. c # read.account /\ c # r.account
      BY <1>2, <1>5, <2>6
    <3> QED
      BY <2>1, <2>2, <2>3, <2>4, <3>1
  <2> QED
    BY <2>5, <2>6
<1> QED
  BY <1>5 DEF BooksAddUp

\* Every row of an account moved with the balance that was read.
LEMMA MoveAddsUp ==
    ASSUME BooksTyped, BooksAddUp, NEW from \in Account, NEW to \in Account, from # to, NEW read \in Int,
           MoveAll(from, to, read)
    PROVE  BooksAddUp'
<1>1. /\ rows \in Seq(Row) /\ rows' \in Seq(Row) /\ DOMAIN rows' = DOMAIN rows /\ balance \in [Account -> Int]
      /\ \A t \in DOMAIN rows : rows[t] \in Row
  BY MoveKeeps, RowsAreRows DEF BooksTyped, Ids
<1>2. /\ rows' = [t \in Ids |-> IF t \in Booked(from) THEN [rows[t] EXCEPT !.account = to] ELSE rows[t]]
      /\ balance' = IF read # 0 THEN [balance EXCEPT ![to] = balance[to] + read, ![from] = 0] ELSE balance
      /\ mixed' = IF balance[from] # read \/ from \in mixed THEN mixed \cup {from, to} ELSE mixed
  BY DEF MoveAll, Mixes
<1>3. \A t \in DOMAIN rows : /\ rows'[t].live = rows[t].live /\ rows'[t].amount = rows[t].amount
                             /\ rows[t].live => rows'[t].account = IF rows[t].account = from THEN to ELSE rows[t].account
                             /\ ~rows[t].live => rows'[t] = rows[t]
  <2>1. TAKE t \in DOMAIN rows
  <2>2. t \in Booked(from) <=> rows[t].live /\ rows[t].account = from
    BY DEF Booked, Ids
  <2>3. rows'[t] = IF t \in Booked(from) THEN [rows[t] EXCEPT !.account = to] ELSE rows[t]
    BY <1>2 DEF Ids
  <2>4. rows[t] \in Row
    BY <1>1
  <2> QED
    BY <2>2, <2>3, <2>4 DEF Row
<1>4. Money(rows', from) = 0 /\ Money(rows', to) = Money(rows, to) + Money(rows, from)
  <2>1. rows \in Seq(Row) /\ rows' \in Seq(Row) /\ DOMAIN rows' = DOMAIN rows
    BY <1>1
  <2>2. \A t \in DOMAIN rows : /\ rows'[t].live = rows[t].live /\ rows'[t].amount = rows[t].amount
                               /\ rows[t].live => rows'[t].account = IF rows[t].account = from THEN to ELSE rows[t].account
    BY <1>3
  <2> QED
    BY ONLY <2>1, <2>2, from # to, MoneyMoves
<1>5. ASSUME NEW c \in Account, c \notin mixed'
      PROVE  balance'[c] = Money(rows', c)
  <2>1. c \notin mixed /\ balance[c] = Money(rows, c)
    BY <1>2, <1>5 DEF BooksAddUp
  <2>2. CASE c \notin {from, to}
    <3>1. \A t \in DOMAIN rows : Held(rows'[t], c) = Held(rows[t], c)
      BY <1>3, <2>2 DEF Held
    <3>2. Money(rows', c) = Money(rows, c)
      BY <1>1, <3>1, MoneyStands
    <3>3. balance'[c] = balance[c]
      BY <1>1, <1>2, <2>2
    <3> QED
      BY <2>1, <3>2, <3>3
  <2>3. CASE c \in {from, to}
    <3>1. balance[from] = read /\ from \notin mixed
      BY <1>2, <1>5, <2>3
    <3>2. Money(rows, from) = read
      BY <3>1 DEF BooksAddUp
    <3>3. balance'[from] = 0 /\ balance'[to] = balance[to] + read
      BY <1>1, <1>2, <3>1
    <3>4. balance[to] \in Int
      BY <1>1
    <3> QED
      BY <1>4, <2>1, <2>3, <3>2, <3>3, <3>4
  <2> QED
    BY <2>2, <2>3
<1> QED
  BY <1>5 DEF BooksAddUp

-----------------------------------------------------------------------------
(* The server *)

\* A request that goes on to something else than a move, or to one between two accounts.
LEMMA OneGoes ==
    ASSUME CallsTyped, MovesLeave, NEW c \in Client, NEW r, Goto(c, r), r.pc = "move" => r.from # r.to
    PROVE  MovesLeave'
<1>1. \A d \in Client : calls'[d] = IF d = c THEN r ELSE calls[d]
  BY DEF Goto, CallsTyped
<1> QED
  BY <1>1 DEF MovesLeave

\* No step makes a request move an account into itself.
LEMMA NextLeaves ==
    ASSUME TypeOK, MovesLeave, [Next]_vars
    PROVE  MovesLeave'
<1>0. CallsTyped
  BY TypeOKParts
<1>1. ASSUME NEW c \in Client, NEW s \in Submission, Submit(c, s)
      PROVE  MovesLeave'
  BY <1>0, <1>1, OneGoes DEF Submit
<1>2. ASSUME NEW c \in Client, Create(c)
      PROVE  MovesLeave'
  BY <1>0, <1>2, OneGoes DEF Create
<1>3. ASSUME NEW c \in Client, Remember(c) \/ Write(c) \/ Fail(c)
      PROVE  MovesLeave'
  BY <1>0, <1>3, OneGoes DEF Remember, Write, Fail, Idle
<1>4. ASSUME NEW c \in Client, NEW t \in Ids, ReadRow(c, t)
      PROVE  MovesLeave'
  <2>1. ASSUME NEW a \in Account, NEW v \in Amount,
               Goto(c, [pc |-> "modify", row |-> t, read |-> rows[t], account |-> a, amount |-> v])
        PROVE  MovesLeave'
    BY <1>0, <2>1, OneGoes
  <2>2. CASE Goto(c, [pc |-> "delete", row |-> t, read |-> rows[t]])
    BY <1>0, <2>2, OneGoes
  <2> QED
    BY <1>4, <2>1, <2>2 DEF ReadRow
<1>5. ASSUME NEW c \in Client, NEW from \in Account, NEW to \in Account, ReadBalance(c, from, to)
      PROVE  MovesLeave'
  BY <1>0, <1>5, OneGoes DEF ReadBalance
<1>6. CASE Crash
  BY <1>6 DEF Crash, MovesLeave, Idle
<1>7. CASE UNCHANGED calls
  BY <1>7 DEF MovesLeave
<1> QED
  BY <1>1, <1>2, <1>3, <1>4, <1>5, <1>6, <1>7
  DEF Next, Forget, NoAddress, Start, QueryFails, CreateScheduled, ScheduledFails, RunByHand, Tick, vars

\* Every step keeps the balances outside mixed.
LEMMA NextAddsUp ==
    ASSUME TypeOK, MovesLeave, BooksAddUp, [Next]_vars
    PROVE  BooksAddUp'
<1>0. BooksTyped /\ CallsTyped
  BY TypeOKParts
<1>1. ASSUME NEW c \in Client, Create(c)
      PROVE  BooksAddUp'
  BY <1>0, <1>1, CallAt, CallParts, FormIsRow, InsertAddsUp DEF Create, At
<1>2. ASSUME NEW t \in Template, CreateScheduled(t) \/ RunByHand(t)
      PROVE  BooksAddUp'
  <2>1. job.window \in Nat /\ Window(now) \in Nat
    BY TypeOKParts, WindowIsNat DEF SchedulerTyped
  <2> QED
    BY <1>0, <1>2, <2>1, PlanIsRow, InsertAddsUp DEF CreateScheduled, RunByHand
<1>3. ASSUME NEW c \in Client, Write(c)
      PROVE  BooksAddUp'
  <2>0. calls[c] \in Call
    BY <1>0, CallAt
  <2>1. CASE At(c, "modify") /\ Update(calls[c].row, calls[c].read, calls[c].account, calls[c].amount)
    BY <1>0, <2>0, <2>1, CallParts, UpdateAddsUp DEF At
  <2>2. CASE At(c, "delete") /\ Remove(calls[c].row, calls[c].read)
    BY <1>0, <2>0, <2>2, CallParts, RemoveAddsUp DEF At
  <2>3. CASE At(c, "move") /\ MoveAll(calls[c].from, calls[c].to, calls[c].read)
    BY <1>0, <2>0, <2>3, CallParts, MoveAddsUp DEF At, MovesLeave
  <2> QED
    BY <1>3, <2>1, <2>2, <2>3 DEF Write
<1>4. CASE UNCHANGED books
  BY <1>4 DEF books, BooksAddUp
<1> QED
  BY <1>1, <1>2, <1>3, <1>4
  DEF Next, Submit, Remember, ReadRow, ReadBalance, Fail, Forget, NoAddress, Start, QueryFails,
      ScheduledFails, Tick, Crash, vars, books

\* No row and no request is there at first.
LEMMA InitAddsUp == Init => MovesLeave /\ BooksAddUp
<1> SUFFICES ASSUME Init PROVE MovesLeave /\ BooksAddUp
  OBVIOUS
<1>1. MovesLeave
  BY DEF Init, MovesLeave, Idle
<1>2. rows \in Seq(Row) /\ DOMAIN rows = {}
  BY InitTyped DEF Init, TypeOK
<1>3. \A a \in Account : Money(rows, a) = 0 /\ balance[a] = 0
  BY <1>2, SumOfNothing DEF Init, Money
<1> QED
  BY <1>1, <1>3 DEF BooksAddUp

\* However requests, runs of the job, failures and crashes interleave, a balance that is
\* not the sum of the account's rows was left by a session that another overtook on its own
\* row, or by a move whose account was booked after it read the balance
\* (ModifyTransaction, DeleteTransaction, MoveAllTransactionsBetweenAccounts).
THEOREM ServerLosesMoneyOnlyWhenOvertaken == Spec => []OnlyOvertakenSessionsLoseMoney
<1>1. TypeOK /\ MovesLeave /\ BooksAddUp /\ [Next]_vars => MovesLeave' /\ BooksAddUp'
  BY NextLeaves, NextAddsUp
<1>2. TypeOK /\ BooksAddUp => OnlyOvertakenSessionsLoseMoney
  <2> SUFFICES ASSUME TypeOK, BooksAddUp PROVE OnlyOvertakenSessionsLoseMoney
    OBVIOUS
  <2>1. \A a : Money(rows, a) = SumFunctionOnSet([t \in Ids |-> rows[t].amount], Booked(a))
    BY MoneyIsSumOfBooked DEF TypeOK
  <2> QED
    BY <2>1 DEF BooksAddUp, OnlyOvertakenSessionsLoseMoney
<1> QED
  BY <1>1, <1>2, InitAddsUp, ServerIsTyped, PTL DEF Spec
=============================================================================
