---------------------------- MODULE IngestProofs ----------------------------
(***************************************************************************)
(* The ingest pipeline implements ImportRegister, gives a line one row    *)
(* and leaves nothing behind when it undoes a run, for any statements and  *)
(* any number of calls, through failures, crashes and work in the browser. *)
(*                                                                         *)
(* The argument: a line's prior transaction is known to a plan, and later  *)
(* to the journal, only for lines that were asked for again; a record that *)
(* is written for a line without one is refused when the line is taken;    *)
(* and an undo that has come to the records has deleted every row.  A row  *)
(* that nobody edited or linked is registered, was left by a failure or    *)
(* belongs to a batch under way, so two of them for a line come from plans *)
(* that raced.  What the statements hold is shown in DedupeProofs.         *)
(***************************************************************************)
EXTENDS Ingest, DedupeProofs, SequenceTheorems

\* lines that have a prior transaction were asked for
Asks(f, ask) == \A l \in DOMAIN f : f[l].prior # 0 => l \in ask

Applies == {"lock", "create", "record", "takeback", "link", "journal"}

\* what the locals r of a call say about the rows, the journal and what was asked for
CallKnows(r, ts, js, ask) ==
    /\ r.pc \in Applies =>
         /\ \A l \in DOMAIN r.create : r.create[l] # 0 => l \in ask
         /\ Asks(r.link, ask) /\ Asks(r.created, ask) /\ Asks(r.linked, ask)
    /\ r.pc = "record" => \A t \in r.batch : ts[t].line \in DOMAIN r.create
    /\ r.pc \in {"record", "takeback"} => r.batch # {}
    /\ r.pc = "delete" => r.todo # {} /\ \A t \in Made(js[r.entry]) : ts[t].live => t \in r.todo
    /\ r.pc \in {"drop", "relink", "mark"} => \A t \in Made(js[r.entry]) : ~ts[t].live

CallsKnow == \A c \in Client : CallKnows(calls[c], txns, journal, reasked)

JournalKnows ==
    \A i \in Entries :
        /\ Asks(journal[i].created, reasked) /\ Asks(journal[i].linked, reasked)
        /\ journal[i].undone => \A t \in Made(journal[i]) : ~Live(t)

IngestInv == TypeOK /\ CallsKnow /\ JournalKnows

CallTyped(r) == r = Idle \/ r \in Undo \/ Apply(r)
CallsTyped ==
    /\ calls \in [Client -> {calls[c] : c \in Client}]
    /\ \A c \in Client : CallTyped(calls[c])
EntriesTyped ==
    /\ journal \in Seq({journal[i] : i \in Entries})
    /\ \A i \in Entries : Entry(journal[i])
RestTyped ==
    /\ folder \in Folders
    /\ ingApplyMu \in Client \cup {NoClient} /\ jrMu \in Client \cup {NoClient}
    /\ events \in Nat
    /\ reasked \in SUBSET Line /\ raced \in SUBSET Line
    /\ left \in SUBSET Txns /\ matched \in SUBSET Txns

-----------------------------------------------------------------------------
(* Partial functions *)

LEMMA PartialGrows ==
    ASSUME NEW f, NEW D, NEW R, NEW S, Partial(f, D, R), R \subseteq S
    PROVE  Partial(f, D, S)
BY DEF Partial

LEMMA OverlayIsPartial ==
    ASSUME NEW f, NEW g, NEW D, NEW R, Partial(f, D, R), Partial(g, D, R)
    PROVE  Partial(Overlay(f, g), D, R)
BY DEF Partial, Overlay

LEMMA WithoutIsPartial ==
    ASSUME NEW f, NEW X, NEW D, NEW R, Partial(f, D, R)
    PROVE  Partial(Without(f, X), D, R)
BY DEF Partial, Without

LEMMA TypeParts ==
    TypeOK <=> /\ RestTyped /\ CallsTyped /\ EntriesTyped
               /\ txns \in Seq(Row) /\ Partial(records, Line, Txns)
BY DEF TypeOK, RestTyped, CallsTyped, EntriesTyped, CallTyped

-----------------------------------------------------------------------------
(* What only grows *)

\* rows and entries are never removed, rows never come back, and a row keeps its line
Grows ==
    /\ Txns \subseteq Txns' /\ Entries \subseteq Entries' /\ reasked \subseteq reasked'
    /\ \A t \in Txns : txns'[t].line = txns[t].line /\ (txns'[t].live => txns[t].live)
    /\ \A i \in Entries : Made(journal'[i]) = Made(journal[i])

LEMMA LinesGrow ==
    ASSUME NEW f, Lines(f), Txns \subseteq Txns'
    PROVE  Lines(f)'
<1>1. [txn : Txns, prior : {0} \cup Txns] \subseteq [txn : Txns, prior : {0} \cup Txns]'
  OBVIOUS
<1> QED BY <1>1, PartialGrows DEF Lines, Partial

LEMMA CallGrows ==
    ASSUME NEW r, CallTyped(r), Grows
    PROVE  CallTyped(r)'
<1>1. CASE r = Idle
  BY <1>1 DEF CallTyped
<1>2. CASE r \in Undo
  BY <1>2 DEF CallTyped, Undo, Grows
<1>3. CASE Apply(r)
  <2>1. Lines(r.link)' /\ Lines(r.created)' /\ Lines(r.linked)'
    BY <1>3, LinesGrow DEF Apply, Grows
  <2>2. Partial(r.create, Line, {0} \cup Txns)'
    BY <1>3 DEF Apply, Grows, Partial
  <2>3. Apply(r)'
    BY <1>3, <2>1, <2>2 DEF Apply, Grows
  <2> QED BY <2>3 DEF CallTyped
<1> QED BY <1>1, <1>2, <1>3 DEF CallTyped

\* The rows of a run exist.
LEMMA MadeExist ==
    ASSUME EntriesTyped
    PROVE  \A i \in Entries : Made(journal[i]) \subseteq Txns
BY DEF EntriesTyped, Entry, Lines, Partial, Made

LEMMA KnowledgeGrows ==
    ASSUME EntriesTyped, NEW r, CallTyped(r), CallKnows(r, txns, journal, reasked), Grows
    PROVE  CallKnows(r, txns', journal', reasked')
<1>1. CASE r = Idle
  BY <1>1 DEF CallKnows, Idle, Applies
<1>2. CASE r \in Undo
  BY <1>2, MadeExist DEF CallKnows, Undo, Applies, Grows
<1>3. CASE Apply(r)
  BY <1>3 DEF CallKnows, Apply, Applies, Asks, Grows
<1> QED BY <1>1, <1>2, <1>3 DEF CallTyped

\* A step of call c keeps what is known of all calls, when its new locals r are known.
LEMMA CallStep ==
    ASSUME IngestInv, Grows, NEW c \in Client, NEW r, Goto(c, r),
           CallTyped(r)', CallKnows(r, txns', journal', reasked')
    PROVE  CallsTyped' /\ CallsKnow'
<1>1. CallsTyped /\ CallsKnow /\ EntriesTyped
  BY TypeParts DEF IngestInv
<1>2. calls'[c] = r /\ \A d \in Client \ {c} : calls'[d] = calls[d]
  BY <1>1 DEF Goto, CallsTyped
<1>3. ASSUME NEW d \in Client \ {c} PROVE CallTyped(calls[d])' /\ CallKnows(calls[d], txns', journal', reasked')
  <2>1. CallTyped(calls[d]) /\ CallKnows(calls[d], txns, journal, reasked)
    BY <1>1 DEF CallsTyped, CallsKnow
  <2>2. PICK q : q = calls[d] /\ q = calls'[d]
    BY <1>2
  <2>3. CallTyped(q) /\ CallKnows(q, txns, journal, reasked)
    BY <2>1, <2>2
  <2>4. CallTyped(q)'
    BY <2>3, CallGrows
  <2>5. CallKnows(q, txns', journal', reasked')
    BY <1>1, <2>3, KnowledgeGrows
  <2> QED BY <2>2, <2>4, <2>5 DEF CallTyped, Undo, Apply, Lines, Partial, Idle
<1>4. calls' \in [Client -> {calls[d] : d \in Client}']
  BY <1>1 DEF Goto, CallsTyped
<1>5. CallsTyped'
  BY <1>2, <1>3, <1>4 DEF CallsTyped
<1>6. CallsKnow'
  BY <1>2, <1>3 DEF CallsKnow
<1> QED BY <1>5, <1>6
\* A step of call c, from its parts.
LEMMA StepParts ==
    ASSUME IngestInv, Grows, NEW c \in Client, NEW r, Goto(c, r),
           CallTyped(r)', CallKnows(r, txns', journal', reasked'),
           RestTyped', EntriesTyped', txns' \in Seq(Row), Partial(records, Line, Txns)', JournalKnows'
    PROVE  IngestInv'
<1>1. CallsTyped' /\ CallsKnow'
  BY CallStep
<1> QED BY <1>1 DEF IngestInv, TypeOK, RestTyped, CallsTyped, EntriesTyped, CallTyped

\* A step of call c that leaves the rows, the records and the journal alone.
LEMMA QuietStep ==
    ASSUME IngestInv, NEW c \in Client, NEW r, Goto(c, r),
           UNCHANGED <<folder, txns, records, journal, reasked, raced, left, matched>>,
           ingApplyMu' \in Client \cup {NoClient}, jrMu' \in Client \cup {NoClient}, events' \in Nat,
           CallTyped(r), CallKnows(r, txns, journal, reasked)
    PROVE  IngestInv'
<1>1. /\ RestTyped /\ EntriesTyped /\ txns \in Seq(Row) /\ Partial(records, Line, Txns) /\ JournalKnows
  BY TypeParts DEF IngestInv
<1>2. Grows
  BY DEF Grows, Txns, Entries
<1>3. CallTyped(r)'
  BY <1>2, CallGrows
<1>4. RestTyped' /\ txns' \in Seq(Row) /\ Partial(records, Line, Txns)'
  BY <1>1 DEF RestTyped, Txns
<1>5. EntriesTyped'
  BY <1>1, <1>2, LinesGrow DEF EntriesTyped, Entries, Entry, Grows
<1>6. JournalKnows'
  BY <1>1 DEF JournalKnows, Entries, Live
<1> QED BY <1>2, <1>3, <1>4, <1>5, <1>6, StepParts

\* A call may end at any time.
LEMMA EndOfCall ==
    ASSUME NEW ts, NEW js, NEW ask
    PROVE  CallTyped(Idle) /\ CallKnows(Idle, ts, js, ask)
BY DEF CallTyped, CallKnows, Idle, Applies

\* The locals of an apply, and of an undo, as the parts of the invariant say.
LEMMA ApplyKnows ==
    ASSUME IngestInv, NEW c \in Client, calls[c].pc \in Applies
    PROVE  Apply(calls[c]) /\ CallKnows(calls[c], txns, journal, reasked)
BY DEF IngestInv, CallsKnow, TypeOK, Idle, Undo, Applies

LEMMA UndoKnows ==
    ASSUME IngestInv, NEW c \in Client, Undoing(c)
    PROVE  /\ calls[c] \in Undo /\ CallKnows(calls[c], txns, journal, reasked)
           /\ Entry(journal[calls[c].entry]) /\ Made(journal[calls[c].entry]) \subseteq Txns
<1>1. EntriesTyped
  BY TypeParts DEF IngestInv
<1>2. calls[c] \in Undo /\ CallKnows(calls[c], txns, journal, reasked)
  BY DEF IngestInv, CallsKnow, TypeOK, Idle, Undo, Apply, Undoing
<1> QED BY <1>1, <1>2, MadeExist DEF EntriesTyped, Undo

-----------------------------------------------------------------------------
(* The steps that leave the tables alone *)

LEMMA LockStep ==
    ASSUME IngestInv, NEW c \in Client, Lock(c)
    PROVE  IngestInv'
<1>1. PICK r : r = NextBatch(calls[c])
  OBVIOUS
<1>2. Apply(calls[c]) /\ CallKnows(calls[c], txns, journal, reasked)
  BY ApplyKnows DEF Lock, At, Applies
<1>3. Apply(r) /\ CallKnows(r, txns, journal, reasked)
  BY <1>1, <1>2 DEF Apply, CallKnows, NextBatch, Applies, Lines
<1> QED BY <1>1, <1>3, QuietStep DEF Lock, IngestInv, TypeOK, CallTyped

LEMMA WriteRecordsFailsStep ==
    ASSUME IngestInv, NEW c \in Client, WriteRecordsFails(c)
    PROVE  IngestInv'
<1>1. PICK r : r = [calls[c] EXCEPT !.pc = "takeback"]
  OBVIOUS
<1>2. Apply(calls[c]) /\ CallKnows(calls[c], txns, journal, reasked)
  BY ApplyKnows DEF WriteRecordsFails, At, Applies
<1>3. Apply(r) /\ CallKnows(r, txns, journal, reasked)
  BY <1>1, <1>2 DEF Apply, CallKnows, WriteRecordsFails, At, Applies, Lines
<1>4. events' \in Nat
  BY DEF WriteRecordsFails, Event, IngestInv, TypeOK
<1> QED BY <1>1, <1>3, <1>4, QuietStep DEF WriteRecordsFails, IngestInv, TypeOK, CallTyped

\* An apply that ends, or goes on to its journal entry, knows what it should.
LEMMA EndKnows ==
    ASSUME NEW c, NEW r, End(c, r), Apply(r), CallKnows(r, txns, journal, reasked), r.pc \in Applies
    PROVE  \E q : /\ Goto(c, q) /\ CallTyped(q) /\ CallKnows(q, txns, journal, reasked)
                  /\ ingApplyMu' \in {ingApplyMu, NoClient}
<1>1. CASE DOMAIN r.created \cup DOMAIN r.linked # {}
  <2>1. PICK q : q = [r EXCEPT !.pc = "journal"]
    OBVIOUS
  <2>2. Apply(q) /\ CallKnows(q, txns, journal, reasked)
    BY <2>1 DEF Apply, CallKnows, Applies, Lines
  <2> QED BY <1>1, <2>1, <2>2 DEF End, CallTyped
<1>2. CASE DOMAIN r.created \cup DOMAIN r.linked = {}
  BY <1>2, EndOfCall DEF End
<1> QED BY <1>1, <1>2

LEMMA ApplyFailsStep ==
    ASSUME IngestInv, NEW c \in Client, ApplyFails(c)
    PROVE  IngestInv'
<1>1. Apply(calls[c]) /\ CallKnows(calls[c], txns, journal, reasked) /\ calls[c].pc \in Applies
  BY ApplyKnows DEF ApplyFails, At, Applies
<1>2. PICK q : /\ Goto(c, q) /\ CallTyped(q) /\ CallKnows(q, txns, journal, reasked)
               /\ ingApplyMu' \in {ingApplyMu, NoClient}
  BY <1>1, EndKnows DEF ApplyFails
<1>3. events' \in Nat
  BY DEF ApplyFails, Event, IngestInv, TypeOK
<1> QED BY <1>2, <1>3, QuietStep DEF ApplyFails, IngestInv, TypeOK

LEMMA RecordJournalFailsStep ==
    ASSUME IngestInv, NEW c \in Client, RecordJournalFails(c)
    PROVE  IngestInv'
<1>1. events' \in Nat
  BY DEF RecordJournalFails, Event, IngestInv, TypeOK
<1> QED BY <1>1, EndOfCall, QuietStep DEF RecordJournalFails, IngestInv, TypeOK

LEMMA UndoFailsStep ==
    ASSUME IngestInv, NEW c \in Client, UndoFails(c)
    PROVE  IngestInv'
<1>1. events' \in Nat
  BY DEF UndoFails, Event, IngestInv, TypeOK
<1> QED BY <1>1, EndOfCall, QuietStep DEF UndoFails, Leave, IngestInv, TypeOK

LEMMA BeginUndoStep ==
    ASSUME IngestInv, NEW c \in Client, BeginUndo(c)
    PROVE  IngestInv'
<1>1. PICK i \in LatestActive : Goto(c, [pc |-> "compare", entry |-> i, todo |-> {}])
  BY DEF BeginUndo
<1>2. PICK r : r = [pc |-> "compare", entry |-> i, todo |-> {}]
  OBVIOUS
<1>3. CallTyped(r) /\ CallKnows(r, txns, journal, reasked)
  BY <1>2 DEF CallTyped, Undo, CallKnows, LatestActive, Applies
<1> QED BY <1>1, <1>2, <1>3, QuietStep DEF BeginUndo, IngestInv, TypeOK

\* The rows an undo still has to delete are all it left alive.
LEMMA DeletingKnows ==
    ASSUME NEW r \in Undo, NEW rows \in SUBSET Txns, NEW ts, NEW js, NEW ask,
           \A t \in Made(js[r.entry]) : ts[t].live => t \in rows
    PROVE  Deleting(r, rows) \in Undo /\ CallKnows(Deleting(r, rows), ts, js, ask)
BY DEF Deleting, Undo, CallKnows, Applies

LEMMA CompareRowsStep ==
    ASSUME IngestInv, NEW c \in Client, CompareRows(c)
    PROVE  IngestInv'
<1> DEFINE e == journal[calls[c].entry]
           rows == {t \in Made(e) : Live(t)}
<1>1. calls[c] \in Undo /\ Made(e) \subseteq Txns
  BY UndoKnows DEF CompareRows, At, Undoing
<1>2. \/ Goto(c, Idle) /\ jrMu' = NoClient
      \/ Goto(c, Deleting(calls[c], rows)) /\ UNCHANGED jrMu
  BY DEF CompareRows, Leave
<1>3. PICK r : r = Deleting(calls[c], rows)
  OBVIOUS
<1>4. r \in Undo /\ CallKnows(r, txns, journal, reasked)
  BY <1>1, <1>3, DeletingKnows DEF Live
<1> QED BY <1>2, <1>3, <1>4, EndOfCall, QuietStep DEF CompareRows, IngestInv, TypeOK, CallTyped
-----------------------------------------------------------------------------
(* The steps that create and delete rows *)

\* What holds of the journal, the records and the rest while rows only grow and die.
LEMMA RowsStep ==
    ASSUME IngestInv, Grows, txns' \in Seq(Row),
           UNCHANGED <<folder, records, journal, reasked, raced, matched>>,
           ingApplyMu' \in Client \cup {NoClient}, jrMu' \in Client \cup {NoClient}, events' \in Nat,
           left' \subseteq Txns'
    PROVE  RestTyped' /\ EntriesTyped' /\ Partial(records, Line, Txns)' /\ JournalKnows'
<1>1. RestTyped /\ EntriesTyped /\ Partial(records, Line, Txns) /\ JournalKnows
  BY TypeParts DEF IngestInv
<1>2. RestTyped'
  BY <1>1 DEF RestTyped, Grows
<1>3. EntriesTyped'
  BY <1>1, LinesGrow DEF EntriesTyped, Entries, Entry, Grows
<1>4. Partial(records, Line, Txns)'
  BY <1>1 DEF Partial, Grows
<1>5. JournalKnows'
  BY <1>1, MadeExist DEF JournalKnows, Entries, Live, Grows
<1> QED BY <1>2, <1>3, <1>4, <1>5

\* A row that is deleted stays a row, and no other row changes.
LEMMA DeletedRow ==
    ASSUME IngestInv, NEW t \in Txns, txns' = Deleted(t), UNCHANGED <<journal, reasked>>
    PROVE  /\ Grows /\ txns' \in Seq(Row) /\ Txns' = Txns
           /\ ~txns'[t].live /\ \A u \in Txns \ {t} : txns'[u] = txns[u]
<1>1. txns \in Seq(Row)
  BY DEF IngestInv, TypeOK
<1>2. txns[t] \in Row /\ [txns[t] EXCEPT !.live = FALSE] \in Row
  <2>1. txns[t] \in Row
    BY <1>1 DEF Txns
  <2>2. PICK row : row = txns[t]
    OBVIOUS
  <2> QED BY <2>1, <2>2 DEF Row
<1>3. /\ txns' \in Seq(Row) /\ Txns' = Txns
      /\ txns'[t] = [txns[t] EXCEPT !.live = FALSE] /\ \A u \in Txns \ {t} : txns'[u] = txns[u]
  BY <1>1, <1>2 DEF Deleted, Txns
<1>4. ~txns'[t].live /\ txns'[t].line = txns[t].line
  BY <1>2, <1>3 DEF Row
<1>5. Grows
  BY <1>3, <1>4 DEF Grows, Entries
<1> QED BY <1>3, <1>4, <1>5

LEMMA BatchCreateStep ==
    ASSUME IngestInv, NEW c \in Client, NEW b \in Batches(DOMAIN calls[c].create), BatchCreate(c, b)
    PROVE  IngestInv'
<1> DEFINE rows == [i \in DOMAIN b |-> [line |-> b[i], live |-> TRUE, edited |-> FALSE]]
<1>1. Apply(calls[c]) /\ CallKnows(calls[c], txns, journal, reasked) /\ txns \in Seq(Row) /\ left \subseteq Txns
  BY ApplyKnows DEF BatchCreate, At, Applies, IngestInv, TypeOK
<1>2. PICK n \in 1 .. MaxTxns : b \in [1 .. n -> DOMAIN calls[c].create]
  BY DEF Batches
<1>3. DOMAIN calls[c].create \subseteq Line
  BY <1>1 DEF Apply, Partial
<1>4. n \in Nat /\ n > 0 /\ DOMAIN b = 1 .. n
  BY <1>2, IngestAssumption
<1>5. rows \in Seq(Row) /\ Len(rows) = n
  BY <1>2, <1>3, <1>4 DEF Row
<1>6. /\ txns' \in Seq(Row) /\ Len(txns') = Len(txns) + n
      /\ \A t \in 1 .. Len(txns) : txns'[t] = txns[t]
      /\ \A t \in Len(txns) + 1 .. Len(txns) + n : txns'[t] = rows[t - Len(txns)]
  <2>1. txns' = txns \o rows
    BY DEF BatchCreate
  <2> HIDE DEF rows
  <2> QED BY <1>1, <1>5, <2>1
<1>7. Txns = 1 .. Len(txns) /\ Txns' = 1 .. Len(txns) + n /\ Len(txns) \in Nat
  BY <1>1, <1>6 DEF Txns
<1>8. \A t \in Txns' \ Txns : txns'[t].line \in DOMAIN calls[c].create
  <2>1. ASSUME NEW t \in Txns' \ Txns PROVE txns'[t].line \in DOMAIN calls[c].create
    <3>1. txns'[t] = rows[t - Len(txns)] /\ t - Len(txns) \in 1 .. n
      <4> HIDE DEF rows
      <4>1. t \in Nat /\ t > Len(txns) /\ t <= Len(txns) + n
        BY <2>1, <1>4, <1>7
      <4> QED BY <4>1, <1>4, <1>6, <1>7
    <3>2. rows[t - Len(txns)].line = b[t - Len(txns)]
      BY <3>1, <1>4
    <3> HIDE DEF rows
    <3> QED BY <3>1, <3>2, <1>2
  <2> QED BY <2>1
<1>9. Grows
  BY <1>6, <1>7 DEF Grows, BatchCreate, Entries
<1>10. PICK r : r = [calls[c] EXCEPT !.pc = "record", !.batch = DOMAIN txns' \ Txns]
  OBVIOUS
<1>11. CallTyped(r)'
  <2>1. PICK q : q = calls[c]
    OBVIOUS
  <2>2. CallTyped(q)'
    BY <1>1, <1>9, <2>1, CallGrows DEF CallTyped
  <2>3. r = [q EXCEPT !.pc = "record", !.batch = Txns' \ Txns] /\ q.pc \in Applies
    BY <1>10, <2>1 DEF BatchCreate, At, Applies, Txns
  <2>4. Apply(q)'
    BY <2>2, <2>3 DEF CallTyped, Idle, Undo, Applies
  <2>5. Apply(r)'
    BY <2>3, <2>4 DEF Apply, Lines
  <2> QED BY <2>5 DEF CallTyped
<1>12. CallKnows(r, txns', journal', reasked')
  <2>1. /\ r.pc = "record" /\ r.batch = Txns' \ Txns /\ r.create = calls[c].create /\ r.link = calls[c].link
        /\ r.created = calls[c].created /\ r.linked = calls[c].linked
    BY <1>1, <1>10 DEF Apply, Txns
  <2>2. calls[c].pc \in Applies /\ reasked' = reasked
    BY DEF BatchCreate, At, Applies
  <2>3. r.batch # {}
    <3>1. Len(txns) + 1 \in Txns' /\ Len(txns) + 1 \notin Txns
      BY <1>4, <1>7
    <3> QED BY <2>1, <3>1
  <2> QED BY <1>1, <1>8, <2>1, <2>2, <2>3 DEF CallKnows
<1>13. RestTyped' /\ EntriesTyped' /\ Partial(records, Line, Txns)' /\ JournalKnows'
  BY <1>1, <1>6, <1>7, <1>9, RowsStep DEF BatchCreate, IngestInv, TypeOK
<1> QED BY <1>6, <1>9, <1>10, <1>11, <1>12, <1>13, StepParts DEF BatchCreate

LEMMA TakeBackStep ==
    ASSUME IngestInv, NEW c \in Client, TakeBack(c)
    PROVE  IngestInv'
<1> DEFINE t == OneOf(calls[c].batch)
<1>1. /\ Apply(calls[c]) /\ CallKnows(calls[c], txns, journal, reasked) /\ calls[c].pc = "takeback"
      /\ txns \in Seq(Row) /\ left \subseteq Txns /\ events \in Nat
  BY ApplyKnows DEF TakeBack, At, Applies, IngestInv, TypeOK
<1>2. t \in calls[c].batch /\ t \in Txns
  BY <1>1 DEF OneOf, CallKnows, Apply
<1>3. PICK r : r = [calls[c] EXCEPT !.batch = @ \ {t}]
  OBVIOUS
<1>4. r.pc = "takeback" /\ r.batch = calls[c].batch \ {t} /\ Apply(r)
  BY <1>1, <1>3 DEF Apply, Lines
<1>5. PICK q : /\ Goto(c, q) /\ CallTyped(q) /\ CallKnows(q, txns, journal, reasked)
               /\ ingApplyMu' \in {ingApplyMu, NoClient}
  <2>1. CASE r.batch = {}
    <3>1. PICK s : s = [r EXCEPT !.pc = "journal"]
      OBVIOUS
    <3>2. Apply(s) /\ CallKnows(s, txns, journal, reasked)
      BY <1>1, <1>3, <1>4, <3>1 DEF Apply, CallKnows, Applies, Lines
    <3>3. \/ Goto(c, s) /\ UNCHANGED ingApplyMu
          \/ Goto(c, Idle) /\ ingApplyMu' = NoClient
      BY <2>1, <1>3, <3>1 DEF TakeBack, End
    <3> QED BY <3>2, <3>3, EndOfCall DEF CallTyped
  <2>2. CASE r.batch # {}
    <3>1. CallKnows(r, txns, journal, reasked)
      BY <1>1, <1>3, <1>4, <2>2 DEF CallKnows, Applies, Apply
    <3> QED BY <2>2, <1>3, <1>4, <3>1 DEF TakeBack, CallTyped
  <2> QED BY <2>1, <2>2
<1>6. CASE txns' = Deleted(t) /\ UNCHANGED <<events, left>>
  <2>1. Grows /\ txns' \in Seq(Row) /\ Txns' = Txns
    BY <1>2, <1>6, DeletedRow DEF TakeBack
  <2>2. CallTyped(q)' /\ CallKnows(q, txns', journal', reasked')
    BY <1>5, <2>1, CallGrows, KnowledgeGrows, TypeParts DEF IngestInv
  <2>3. RestTyped' /\ EntriesTyped' /\ Partial(records, Line, Txns)' /\ JournalKnows'
    BY <1>1, <1>5, <1>6, <2>1, RowsStep DEF TakeBack, IngestInv, TypeOK
  <2> QED BY <1>5, <2>1, <2>2, <2>3, StepParts
<1>7. CASE UNCHANGED txns /\ Event /\ left' = left \cup {t}
  <2>1. Grows /\ txns' \in Seq(Row) /\ events' \in Nat /\ left' \subseteq Txns'
    BY <1>1, <1>2, <1>7 DEF Grows, TakeBack, Txns, Entries, Event
  <2>2. CallTyped(q)' /\ CallKnows(q, txns', journal', reasked')
    BY <1>5, <2>1, CallGrows, KnowledgeGrows, TypeParts DEF IngestInv
  <2>3. RestTyped' /\ EntriesTyped' /\ Partial(records, Line, Txns)' /\ JournalKnows'
    BY <1>1, <1>5, <2>1, RowsStep DEF TakeBack, IngestInv, TypeOK
  <2> QED BY <1>5, <2>1, <2>2, <2>3, StepParts
<1> QED BY <1>6, <1>7 DEF TakeBack

LEMMA DeleteRowStep ==
    ASSUME IngestInv, NEW c \in Client, DeleteRow(c)
    PROVE  IngestInv'
<1> DEFINE t == OneOf(calls[c].todo)
<1>1. /\ calls[c] \in Undo /\ CallKnows(calls[c], txns, journal, reasked) /\ calls[c].pc = "delete"
      /\ Made(journal[calls[c].entry]) \subseteq Txns
      /\ txns \in Seq(Row) /\ left \subseteq Txns /\ events \in Nat
  BY UndoKnows DEF DeleteRow, At, Undoing, IngestInv, TypeOK
<1>2. t \in calls[c].todo /\ t \in Txns
  BY <1>1 DEF OneOf, CallKnows, Undo
<1>3. /\ Grows /\ txns' \in Seq(Row) /\ Txns' = Txns
      /\ ~txns'[t].live /\ \A u \in Txns \ {t} : txns'[u] = txns[u]
  BY <1>2, DeletedRow DEF DeleteRow
<1>4. PICK r : r = Deleting(calls[c], calls[c].todo \ {t})
  OBVIOUS
<1>5. r \in Undo /\ CallKnows(r, txns', journal', reasked')
  <2>1. calls[c].todo \ {t} \in SUBSET Txns
    BY <1>1 DEF Undo
  <2>2. \A u \in Made(journal[calls[c].entry]) : txns'[u].live => u \in calls[c].todo \ {t}
    BY <1>1, <1>3 DEF CallKnows
  <2>3. journal' = journal
    BY DEF DeleteRow
  <2> QED BY <1>1, <1>4, <2>1, <2>2, <2>3, DeletingKnows
<1>6. CallTyped(r)'
  BY <1>3, <1>5, CallGrows DEF CallTyped
<1>7. PICK q : /\ Goto(c, q) /\ CallTyped(q)' /\ CallKnows(q, txns', journal', reasked')
               /\ jrMu' \in {jrMu, NoClient}
  <2>1. \/ Goto(c, r) /\ UNCHANGED jrMu
        \/ Goto(c, Idle) /\ jrMu' = NoClient
    BY <1>4 DEF DeleteRow, Leave
  <2>2. CallTyped(Idle)'
    BY DEF CallTyped
  <2> QED BY <2>1, <2>2, <1>5, <1>6, EndOfCall
<1>8. RestTyped' /\ EntriesTyped' /\ Partial(records, Line, Txns)' /\ JournalKnows'
  BY <1>1, <1>3, <1>7, RowsStep DEF DeleteRow, IngestInv, TypeOK
<1> QED BY <1>3, <1>7, <1>8, StepParts
-----------------------------------------------------------------------------
(* The steps that write records and entries *)

\* A step of call c that leaves the rows and the entries alone.
LEMMA RecordsStep ==
    ASSUME IngestInv, NEW c \in Client, NEW r, Goto(c, r),
           UNCHANGED <<folder, txns, journal, events, reasked, raced, left>>, matched' \subseteq Txns,
           ingApplyMu' \in Client \cup {NoClient}, jrMu' \in Client \cup {NoClient},
           Partial(records', Line, Txns),
           CallTyped(r), CallKnows(r, txns, journal, reasked)
    PROVE  IngestInv'
<1>1. Grows /\ txns' \in Seq(Row) /\ Txns' = Txns /\ Entries' = Entries
  BY DEF Grows, Txns, Entries, IngestInv, TypeOK
<1>2. CallTyped(r)' /\ CallKnows(r, txns', journal', reasked')
  BY <1>1, CallGrows
<1>3. RestTyped /\ EntriesTyped /\ JournalKnows
  BY TypeParts DEF IngestInv
<1>4. RestTyped' /\ JournalKnows' /\ Partial(records, Line, Txns)'
  BY <1>1, <1>3 DEF RestTyped, JournalKnows, Live, Entries
<1>5. EntriesTyped'
  BY <1>1, <1>3, LinesGrow DEF EntriesTyped, Entry, Grows
<1> QED BY <1>1, <1>2, <1>4, <1>5, StepParts

LEMMA WrittenIsPartial ==
    ASSUME Partial(records, Line, Txns), NEW lines \in SUBSET Line, NEW prior,
           NEW txn \in [lines -> Txns]
    PROVE  Partial(Written(lines, prior, txn), Line, Txns)
<1> DEFINE g == [l \in {m \in lines : prior[m] = 0 \/ m \in DOMAIN records} |-> txn[l]]
<1>1. Partial(g, Line, Txns)
  BY DEF Partial
<1> HIDE DEF g
<1>2. Partial(Overlay(records, g), Line, Txns)
  BY <1>1, OverlayIsPartial
<1> QED BY <1>2 DEF Written, g

\* What an apply has written into the records of its batch: the row of each line.
LEMMA BatchLines ==
    ASSUME IngestInv, NEW c \in Client, At(c, "record"), NEW lines,
           lines = {txns[t].line : t \in calls[c].batch}
    PROVE  /\ Apply(calls[c]) /\ CallKnows(calls[c], txns, journal, reasked)
           /\ lines \subseteq DOMAIN calls[c].create /\ lines \subseteq Line
<1>1. Apply(calls[c]) /\ CallKnows(calls[c], txns, journal, reasked)
  BY ApplyKnows DEF At, Applies
<1>2. lines \subseteq DOMAIN calls[c].create
  BY <1>1 DEF CallKnows, At
<1>3. lines \subseteq Line
  BY <1>1, <1>2 DEF Apply, Partial
<1> QED BY <1>1, <1>2, <1>3

LEMMA WriteRecordsStep ==
    ASSUME IngestInv, NEW c \in Client, WriteRecords(c)
    PROVE  IngestInv'
<1>1. PICK lines : lines = {txns[t].line : t \in calls[c].batch}
  OBVIOUS
<1>2. PICK txn : txn = [l \in lines |-> CHOOSE t \in calls[c].batch : txns[t].line = l]
  OBVIOUS
<1>3. PICK done : done = [l \in lines |-> [txn |-> txn[l], prior |-> calls[c].create[l]]]
  OBVIOUS
<1>4. PICK b : b = [calls[c] EXCEPT !.create = Without(@, lines), !.created = Overlay(@, done)]
  OBVIOUS
<1>5. /\ Apply(calls[c]) /\ CallKnows(calls[c], txns, journal, reasked)
      /\ lines \subseteq DOMAIN calls[c].create /\ lines \subseteq Line /\ txn \in [lines -> Txns]
      /\ calls[c].pc = "record"
  <2>1. At(c, "record")
    BY DEF WriteRecords
  <2>2. calls[c].pc = "record"
    BY <2>1 DEF At
  <2>3. /\ Apply(calls[c]) /\ CallKnows(calls[c], txns, journal, reasked)
        /\ lines \subseteq DOMAIN calls[c].create /\ lines \subseteq Line
    BY <1>1, <2>1, BatchLines
  <2>4. ASSUME NEW l \in lines PROVE txn[l] \in Txns
    <3>1. \E t \in calls[c].batch : txns[t].line = l
      BY <1>1
    <3>2. txn[l] \in calls[c].batch
      BY <1>2, <3>1
    <3> QED BY <3>2, <2>3 DEF Apply
  <2>5. txn \in [lines -> Txns]
    BY <1>2, <2>4
  <2> QED BY <2>2, <2>3, <2>5
<1>6. Lines(done) /\ Asks(done, reasked)
  BY <1>3, <1>5 DEF Apply, Lines, Partial, Asks, CallKnows, Applies
<1>7. b.created = Overlay(calls[c].created, done) /\ b.create = Without(calls[c].create, lines)
  BY <1>4, <1>5 DEF Apply
<1>8. Lines(b.created) /\ Partial(b.create, Line, {0} \cup Txns)
  BY <1>5, <1>6, <1>7, OverlayIsPartial, WithoutIsPartial DEF Lines, Apply
<1>9. Asks(b.created, reasked) /\ \A l \in DOMAIN b.create : b.create[l] # 0 => l \in reasked
  BY <1>5, <1>6, <1>7 DEF Asks, Overlay, Without, CallKnows, Applies
<1>10. Apply(b) /\ b.link = calls[c].link /\ b.linked = calls[c].linked
  BY <1>4, <1>5, <1>8 DEF Apply, Lines
<1>11. PICK r : r = NextBatch(b)
  OBVIOUS
<1>12. Apply(r) /\ CallKnows(r, txns, journal, reasked)
  BY <1>5, <1>9, <1>10, <1>11 DEF NextBatch, Apply, CallKnows, Applies, Lines
<1>13. Partial(records', Line, Txns)
  BY <1>1, <1>2, <1>5, WrittenIsPartial DEF WriteRecords, IngestInv, TypeOK
<1>14. Goto(c, r)
  BY <1>1, <1>2, <1>3, <1>4, <1>11 DEF WriteRecords
<1> QED BY <1>12, <1>13, <1>14, RecordsStep DEF WriteRecords, IngestInv, TypeOK, CallTyped

LEMMA WriteLinksStep ==
    ASSUME IngestInv, NEW c \in Client, WriteLinks(c)
    PROVE  IngestInv'
<1>1. Apply(calls[c]) /\ CallKnows(calls[c], txns, journal, reasked) /\ calls[c].pc = "link"
  BY ApplyKnows DEF WriteLinks, At, Applies
<1>2. PICK b : b = [calls[c] EXCEPT !.linked = calls[c].link]
  OBVIOUS
<1>3. /\ b.linked = calls[c].link /\ b.link = calls[c].link /\ b.create = calls[c].create
      /\ b.created = calls[c].created /\ b.pc = "link" /\ Apply(b)
  BY <1>1, <1>2 DEF Apply, Lines
<1>4. CallKnows(b, txns, journal, reasked)
  BY <1>1, <1>3 DEF CallKnows, Applies
<1>5. PICK q : /\ Goto(c, q) /\ CallTyped(q) /\ CallKnows(q, txns, journal, reasked)
               /\ ingApplyMu' \in {ingApplyMu, NoClient}
  <2>1. End(c, b)
    BY <1>2 DEF WriteLinks
  <2> QED BY <2>1, <1>3, <1>4, EndKnows DEF Applies
<1>6. DOMAIN calls[c].link \subseteq Line /\ [l \in DOMAIN calls[c].link |-> calls[c].link[l].txn] \in [DOMAIN calls[c].link -> Txns]
  BY <1>1 DEF Apply, Lines, Partial
<1>7. Partial(records', Line, Txns)
  BY <1>6, WrittenIsPartial DEF WriteLinks, IngestInv, TypeOK
<1>8. matched' \subseteq Txns
  <2>1. \A l \in DOMAIN calls[c].link : calls[c].link[l].txn \in Txns
    BY <1>6
  <2> QED BY <2>1 DEF WriteLinks, IngestInv, TypeOK
<1> QED BY <1>5, <1>7, <1>8, RecordsStep DEF WriteLinks, IngestInv, TypeOK

\* What an undo looks at: the lines of its entry, of which those with a prior
\* transaction were asked for.
LEMMA WroteKnows ==
    ASSUME IngestInv, NEW c \in Client, Undoing(c), NEW e, e = journal[calls[c].entry]
    PROVE  Lines(Wrote(e)) /\ Asks(Wrote(e), reasked)
<1>1. Lines(e.created) /\ Lines(e.linked) /\ calls[c].entry \in Entries
  BY UndoKnows DEF Entry, Undo
<1>2. Asks(e.created, reasked) /\ Asks(e.linked, reasked)
  BY <1>1 DEF IngestInv, JournalKnows
<1> QED BY <1>1, <1>2, OverlayIsPartial DEF Lines, Wrote, Asks, Overlay

\* An undo goes from one of its last steps to the next.
LEMMA NextOfUndo ==
    ASSUME IngestInv, NEW c \in Client, calls[c].pc \in {"drop", "relink"},
           NEW pc \in {"relink", "mark"}, NEW r, r = [calls[c] EXCEPT !.pc = pc]
    PROVE  CallTyped(r) /\ CallKnows(r, txns, journal, reasked)
<1>1. calls[c] \in Undo /\ CallKnows(calls[c], txns, journal, reasked)
  BY UndoKnows DEF Undoing
<1>2. r \in Undo /\ r.pc = pc /\ r.entry = calls[c].entry
  BY <1>1 DEF Undo
<1> QED BY <1>1, <1>2 DEF CallKnows, CallTyped, Applies

LEMMA DropRecordsStep ==
    ASSUME IngestInv, NEW c \in Client, DropRecords(c)
    PROVE  IngestInv'
<1>1. PICK r : r = [calls[c] EXCEPT !.pc = "relink"]
  OBVIOUS
<1>2. CallTyped(r) /\ CallKnows(r, txns, journal, reasked)
  BY <1>1, NextOfUndo DEF DropRecords, At
<1>3. Partial(records', Line, Txns)
  BY WithoutIsPartial DEF DropRecords, IngestInv, TypeOK
<1> QED BY <1>1, <1>2, <1>3, RecordsStep DEF DropRecords, IngestInv, TypeOK

LEMMA RelinkRecordsStep ==
    ASSUME IngestInv, NEW c \in Client, RelinkRecords(c)
    PROVE  IngestInv'
<1>1. PICK e : e = journal[calls[c].entry]
  OBVIOUS
<1>2. PICK r : r = [calls[c] EXCEPT !.pc = "mark"]
  OBVIOUS
<1>3. CallTyped(r) /\ CallKnows(r, txns, journal, reasked)
  BY <1>2, NextOfUndo DEF RelinkRecords, At
<1>4. Lines(Wrote(e))
  BY <1>1, WroteKnows DEF RelinkRecords, At, Undoing
<1>5. PICK g : g = [l \in {m \in StillOurs(e) : Wrote(e)[m].prior # 0} |-> Wrote(e)[l].prior]
  OBVIOUS
<1>6. Partial(g, Line, Txns)
  BY <1>4, <1>5 DEF Partial, Lines, StillOurs
<1>7. records' = Overlay(records, g)
  BY <1>1, <1>5 DEF RelinkRecords
<1>8. Partial(records', Line, Txns)
  BY <1>6, <1>7, OverlayIsPartial DEF IngestInv, TypeOK
<1> QED BY <1>2, <1>3, <1>8, RecordsStep DEF RelinkRecords, IngestInv, TypeOK
LEMMA RecordJournalStep ==
    ASSUME IngestInv, NEW c \in Client, RecordJournal(c)
    PROVE  IngestInv'
<1>1. /\ Apply(calls[c]) /\ CallKnows(calls[c], txns, journal, reasked) /\ calls[c].pc = "journal"
      /\ txns \in Seq(Row) /\ RestTyped /\ EntriesTyped /\ JournalKnows /\ Partial(records, Line, Txns)
  BY ApplyKnows, TypeParts DEF RecordJournal, At, Applies, IngestInv, TypeOK
<1>2. PICK e : e = [created |-> calls[c].created, linked |-> calls[c].linked, undone |-> FALSE,
                    seen |-> [l \in DOMAIN calls[c].created |-> txns[calls[c].created[l].txn].edited]]
  OBVIOUS
<1>3. Entry(e) /\ Asks(e.created, reasked) /\ Asks(e.linked, reasked) /\ ~e.undone
  BY <1>1, <1>2 DEF Entry, Apply, CallKnows, Applies
<1>4. journal' = Append(journal, e)
  BY <1>2 DEF RecordJournal
<1>5. /\ Entries' = Entries \cup {Len(journal) + 1} /\ journal'[Len(journal) + 1] = e
      /\ \A i \in Entries : journal'[i] = journal[i]
      /\ journal' \in Seq({journal[i] : i \in Entries} \cup {e})
  BY <1>1, <1>4 DEF EntriesTyped, Entries
<1>6. Grows
  BY <1>5 DEF Grows, RecordJournal, Txns
<1>7. EntriesTyped'
  <2>1. {journal[i] : i \in Entries} \cup {e} \subseteq {journal[i] : i \in Entries}'
    BY <1>5
  <2>2. journal' \in Seq({journal[i] : i \in Entries}')
    BY <1>5, <2>1
  <2>3. Txns' = Txns
    BY DEF RecordJournal, Txns
  <2>4. \A i \in Entries' : Entry(journal'[i])
    BY <1>1, <1>3, <1>5 DEF EntriesTyped
  <2>5. \A i \in Entries' : Entry(journal[i])'
    BY <2>3, <2>4, <1>6, LinesGrow DEF Entry, Grows
  <2> QED BY <2>2, <2>5 DEF EntriesTyped
<1>8. JournalKnows'
  BY <1>1, <1>3, <1>5 DEF JournalKnows, RecordJournal, Live
<1>9. RestTyped' /\ txns' \in Seq(Row) /\ Partial(records, Line, Txns)'
  BY <1>1 DEF RestTyped, RecordJournal, Txns
<1>10. CallTyped(Idle)'
  BY DEF CallTyped
<1> QED BY <1>6, <1>7, <1>8, <1>9, <1>10, EndOfCall, StepParts DEF RecordJournal

LEMMA MarkUndoneStep ==
    ASSUME IngestInv, NEW c \in Client, MarkUndone(c)
    PROVE  IngestInv'
<1>1. /\ calls[c] \in Undo /\ CallKnows(calls[c], txns, journal, reasked) /\ calls[c].pc = "mark"
      /\ txns \in Seq(Row) /\ RestTyped /\ EntriesTyped /\ JournalKnows /\ Partial(records, Line, Txns)
  BY UndoKnows, TypeParts DEF MarkUndone, At, Undoing, IngestInv, TypeOK
<1>2. PICK i \in Entries : i = calls[c].entry
  BY <1>1 DEF Undo
<1>3. PICK e : e = [journal[i] EXCEPT !.undone = TRUE]
  OBVIOUS
<1>4. Entry(journal[i])
  BY <1>1 DEF EntriesTyped
<1>5. e.created = journal[i].created /\ e.linked = journal[i].linked /\ Entry(e)
  BY <1>3, <1>4 DEF Entry, Lines
<1>6. journal' = [journal EXCEPT ![i] = e]
  BY <1>2, <1>3 DEF MarkUndone
<1>7. /\ Entries' = Entries /\ journal'[i] = e
      /\ \A j \in Entries \ {i} : journal'[j] = journal[j]
      /\ journal' \in Seq({journal[j] : j \in Entries} \cup {e})
  <2>1. journal \in Seq({journal[j] : j \in Entries} \cup {e})
    BY <1>1 DEF EntriesTyped
  <2> QED BY <1>6, <2>1 DEF Entries
<1>8. Made(e) = Made(journal[i])
  BY <1>5 DEF Made
<1>9. Grows
  BY <1>7, <1>8 DEF Grows, MarkUndone, Txns
<1>10. EntriesTyped'
  <2>1. PICK n \in Nat : Entries = 1 .. n
    BY <1>1 DEF Entries, EntriesTyped
  <2>2. journal' \in Seq({journal[j] : j \in Entries}')
    <3>1. PICK S : S = {journal'[j] : j \in Entries}
      OBVIOUS
    <3>2. journal' \in [1 .. n -> S]
      <4>1. journal' = [j \in Entries |-> journal'[j]]
        BY <1>6 DEF Entries
      <4> QED BY <2>1, <3>1, <4>1
    <3>3. journal' \in Seq(S)
      BY <3>2, SeqDef
    <3> QED BY <1>7, <3>1, <3>3
  <2>3. \A j \in Entries' : Entry(journal'[j])
    BY <1>1, <1>5, <1>7 DEF EntriesTyped
  <2>4. \A j \in Entries' : Entry(journal[j])'
    BY <2>3, <1>9, LinesGrow DEF Entry, Grows
  <2> QED BY <2>2, <2>4 DEF EntriesTyped
<1>11. JournalKnows'
  <2>1. \A t \in Made(journal[i]) : ~Live(t)
    BY <1>1, <1>2 DEF CallKnows, Live
  <2>2. Asks(journal[i].created, reasked) /\ Asks(journal[i].linked, reasked)
    BY <1>1 DEF JournalKnows
  <2> QED BY <1>1, <1>5, <1>7, <1>8, <2>1, <2>2 DEF JournalKnows, MarkUndone, Live
<1>12. RestTyped' /\ txns' \in Seq(Row) /\ Partial(records, Line, Txns)'
  BY <1>1 DEF RestTyped, MarkUndone, Leave, Txns
<1>13. CallTyped(Idle)'
  BY DEF CallTyped
<1> QED BY <1>9, <1>10, <1>11, <1>12, <1>13, EndOfCall, StepParts DEF MarkUndone, Leave

-----------------------------------------------------------------------------
(* Planning, and what happens around the pipeline *)

\* A plan knows its lines, and re-imports only what it was asked to.
LEMMA PlanIsTyped ==
    ASSUME IngestInv, NEW X \in SUBSET Line, NEW reimport \in BOOLEAN, NEW M, NEW accepted \in [M -> Txns],
           NEW create, create = Create(X, reimport, accepted),
           NEW link, link = Link(X, reimport, accepted)
    PROVE  /\ Partial(create, Line, {0} \cup Txns) /\ Lines(link)
           /\ \A l \in DOMAIN create : create[l] # 0 => reimport /\ l \in DOMAIN records
           /\ \A l \in DOMAIN link : link[l].prior # 0 => reimport /\ l \in DOMAIN records
<1>1. X \subseteq Line /\ Partial(records, Line, Txns)
  BY DEF IngestInv, TypeOK
<1>2. \A l \in X : Prior(l) \in {0} \cup Txns /\ (Prior(l) # 0 => l \in DOMAIN records)
  BY <1>1 DEF Prior, Partial
<1>3. New(X) \subseteq X /\ Gone(X, reimport) \subseteq X
  BY DEF New, Gone
<1>4. \A l \in New(X) : l \notin DOMAIN records
  BY DEF New
<1>5. \A l \in Gone(X, reimport) : reimport
  BY DEF Gone
<1>6. /\ DOMAIN create \subseteq New(X) \cup Gone(X, reimport) /\ \A l \in DOMAIN create : create[l] = Prior(l)
      /\ create \in [DOMAIN create -> {0} \cup Txns]
  BY <1>2, <1>3 DEF Create
<1>7. /\ DOMAIN link \subseteq New(X) \cup Gone(X, reimport) /\ \A l \in DOMAIN link : link[l].prior = Prior(l)
      /\ link \in [DOMAIN link -> [txn : Txns, prior : {0} \cup Txns]]
  BY <1>2, <1>3 DEF Link
<1> QED BY <1>1, <1>2, <1>3, <1>4, <1>5, <1>6, <1>7 DEF Partial, Lines

LEMMA PlanStep ==
    ASSUME IngestInv, NEW c \in Client, NEW X \in SUBSET Line, NEW reimport \in BOOLEAN,
           NEW M, NEW accepted \in [M -> Txns], Plan(c, X, reimport, accepted)
    PROVE  IngestInv'
<1>2. PICK create : create = Create(X, reimport, accepted)
  OBVIOUS
<1>3. PICK link : link = Link(X, reimport, accepted)
  OBVIOUS
<1>4. /\ Partial(create, Line, {0} \cup Txns) /\ Lines(link)
      /\ \A l \in DOMAIN create : create[l] # 0 => reimport /\ l \in DOMAIN records
      /\ \A l \in DOMAIN link : link[l].prior # 0 => reimport /\ l \in DOMAIN records
  BY <1>2, <1>3, PlanIsTyped
<1>5. PICK r : r = [pc |-> "lock", create |-> create, link |-> link,
                    batch |-> {}, created |-> <<>>, linked |-> <<>>]
  OBVIOUS
<1>6. /\ Goto(c, r) /\ UNCHANGED <<folder, txns, records, journal, ingApplyMu, jrMu, events, left, matched>>
      /\ reasked' = reasked \cup (IF reimport THEN (DOMAIN create \cup DOMAIN link) \cap DOMAIN records ELSE {})
      /\ raced' = raced \cup {l \in DOMAIN create : \E d \in Client : Applying(d) /\ l \in DOMAIN calls[d].create}
  BY <1>2, <1>3, <1>5 DEF Plan
<1>7. Grows /\ Txns' = Txns
  BY <1>6 DEF Grows, Txns, Entries
<1>8. Lines(<<>>) /\ Asks(<<>>, reasked')
  BY DEF Lines, Partial, Asks
<1>9. Apply(r)
  BY <1>4, <1>5, <1>8 DEF Apply, Lines
<1>10. CallKnows(r, txns', journal', reasked')
  <2>1. \A l \in DOMAIN create : create[l] # 0 => l \in reasked'
    BY <1>4, <1>6
  <2>2. Asks(link, reasked')
    BY <1>4, <1>6 DEF Asks
  <2> QED BY <1>5, <1>8, <2>1, <2>2 DEF CallKnows
<1>11. CallTyped(r)'
  BY <1>7, <1>9, CallGrows DEF CallTyped
<1>12. RestTyped /\ EntriesTyped /\ txns \in Seq(Row) /\ Partial(records, Line, Txns) /\ JournalKnows
  BY TypeParts DEF IngestInv
<1>13. RestTyped' /\ txns' \in Seq(Row) /\ Partial(records, Line, Txns)'
  BY <1>4, <1>6, <1>7, <1>12 DEF RestTyped, Partial, Lines
<1>14. EntriesTyped'
  BY <1>6, <1>7, <1>12, LinesGrow DEF EntriesTyped, Entries, Entry, Grows
<1>15. JournalKnows'
  BY <1>6, <1>7, <1>12 DEF JournalKnows, Entries, Live, Asks, Grows
<1> QED BY <1>6, <1>7, <1>10, <1>11, <1>13, <1>14, <1>15, StepParts

\* A step that no call takes.
LEMMA AsideStep ==
    ASSUME IngestInv, Grows, txns' \in Seq(Row), folder' \in Folders, left' \subseteq Txns', events' \in Nat,
           UNCHANGED <<records, journal, ingApplyMu, jrMu, calls, reasked, raced, matched>>
    PROVE  IngestInv'
<1>1. RestTyped /\ CallsTyped /\ EntriesTyped /\ Partial(records, Line, Txns) /\ JournalKnows /\ CallsKnow
  BY TypeParts DEF IngestInv
<1>2. RestTyped' /\ Partial(records, Line, Txns)'
  BY <1>1 DEF RestTyped, Partial, Grows
<1>3. EntriesTyped'
  BY <1>1, LinesGrow DEF EntriesTyped, Entries, Entry, Grows
<1>4. JournalKnows'
  BY <1>1, MadeExist DEF JournalKnows, Entries, Live, Grows
<1>5. ASSUME NEW c \in Client PROVE CallTyped(calls[c])' /\ CallKnows(calls[c], txns, journal, reasked)'
  <2>1. PICK q : q = calls[c] /\ q = calls'[c]
    OBVIOUS
  <2>2. CallTyped(q) /\ CallKnows(q, txns, journal, reasked)
    BY <1>1, <2>1 DEF CallsTyped, CallsKnow
  <2>3. CallTyped(q)' /\ CallKnows(q, txns', journal', reasked')
    BY <1>1, <2>2, CallGrows, KnowledgeGrows
  <2> QED BY <2>1, <2>3 DEF CallTyped, Undo, Apply, Lines, Partial, Idle
<1>6. CallsTyped' /\ CallsKnow'
  BY <1>1, <1>5 DEF CallsTyped, CallsKnow
<1> QED BY <1>2, <1>3, <1>4, <1>6 DEF IngestInv, TypeOK, RestTyped, CallsTyped, EntriesTyped, CallTyped

LEMMA DownloadStep ==
    ASSUME IngestInv, NEW F \in Folders, Download(F)
    PROVE  IngestInv'
<1>1. Grows /\ txns' \in Seq(Row) /\ left' \subseteq Txns'
  BY DEF Grows, Download, Txns, Entries, IngestInv, TypeOK
<1>2. events' \in Nat
  BY DEF Download, Event, IngestInv, TypeOK
<1> QED BY <1>1, <1>2, AsideStep DEF Download

LEMMA EnterByHandStep ==
    ASSUME IngestInv, NEW k \in Typed, EnterByHand(k)
    PROVE  IngestInv'
<1>1. PICK row : row = [line |-> ByHand(k), live |-> TRUE, edited |-> FALSE]
  OBVIOUS
<1>2. row \in Row
  BY <1>1, IngestAssumption DEF Row, ByHand
<1>3. txns \in Seq(Row) /\ left \subseteq Txns /\ folder \in Folders
  BY DEF IngestInv, TypeOK
<1>4. txns' = Append(txns, row)
  BY <1>1 DEF EnterByHand
<1>5. txns' \in Seq(Row) /\ Txns \subseteq Txns' /\ \A t \in Txns : txns'[t] = txns[t]
  BY <1>2, <1>3, <1>4 DEF Txns
<1>6. Grows
  BY <1>5 DEF Grows, EnterByHand, Entries
<1>7. events' \in Nat
  BY DEF EnterByHand, Event, IngestInv, TypeOK
<1> QED BY <1>3, <1>5, <1>6, <1>7, AsideStep DEF EnterByHand

LEMMA EditByHandStep ==
    ASSUME IngestInv, NEW t \in Txns, EditByHand(t)
    PROVE  IngestInv'
<1>1. txns \in Seq(Row) /\ left \subseteq Txns /\ folder \in Folders /\ txns[t] \in Row
  BY DEF IngestInv, TypeOK, Txns
<1>2. PICK row : row = [txns[t] EXCEPT !.edited = TRUE]
  OBVIOUS
<1>3. row \in Row /\ row.line = txns[t].line /\ row.live = txns[t].live
  BY <1>1, <1>2 DEF Row
<1>4. txns' = [txns EXCEPT ![t] = row]
  BY <1>2 DEF EditByHand
<1>5. txns' \in Seq(Row) /\ Txns' = Txns /\ txns'[t] = row /\ \A u \in Txns \ {t} : txns'[u] = txns[u]
  BY <1>1, <1>3, <1>4 DEF Txns
<1>6. Grows
  BY <1>3, <1>5 DEF Grows, EditByHand, Entries
<1>7. events' \in Nat
  BY DEF EditByHand, Event, IngestInv, TypeOK
<1> QED BY <1>1, <1>5, <1>6, <1>7, AsideStep DEF EditByHand

LEMMA DeleteByHandStep ==
    ASSUME IngestInv, NEW t \in Txns, DeleteByHand(t)
    PROVE  IngestInv'
<1>1. Grows /\ txns' \in Seq(Row) /\ Txns' = Txns
  BY DeletedRow DEF DeleteByHand
<1>2. events' \in Nat
  BY DEF DeleteByHand, Event, IngestInv, TypeOK
<1>3. left' \subseteq Txns' /\ folder' \in Folders
  BY <1>1 DEF DeleteByHand, IngestInv, TypeOK
<1> QED BY <1>1, <1>2, <1>3, AsideStep DEF DeleteByHand

LEMMA CrashStep ==
    ASSUME IngestInv, Crash
    PROVE  IngestInv'
<1>1. RestTyped /\ CallsTyped /\ EntriesTyped /\ txns \in Seq(Row) /\ Partial(records, Line, Txns) /\ JournalKnows
  BY TypeParts DEF IngestInv
<1>2. \A c \in Client : Applying(c) => calls[c].batch \subseteq Txns
  BY ApplyKnows DEF Applying, Applies, Apply
<1>3. left' \subseteq Txns /\ events' \in Nat
  BY <1>1, <1>2 DEF Crash, RestTyped, Event
<1>4. RestTyped' /\ txns' \in Seq(Row) /\ Partial(records, Line, Txns)'
  BY <1>1, <1>3 DEF RestTyped, Crash, Txns
<1>5. Grows
  BY DEF Grows, Crash, Txns, Entries
<1>6. EntriesTyped'
  BY <1>1, <1>5, LinesGrow DEF EntriesTyped, Entries, Entry, Grows, Crash
<1>7. JournalKnows'
  BY <1>1 DEF JournalKnows, Entries, Live, Crash
<1>8. \A c \in Client : calls'[c] = Idle
  BY DEF Crash
<1>9. CallsTyped' /\ CallsKnow'
  BY <1>8, EndOfCall DEF CallsTyped, CallsKnow, Crash, CallTyped
<1> QED BY <1>4, <1>6, <1>7, <1>9 DEF IngestInv, TypeOK, RestTyped, CallsTyped, EntriesTyped, CallTyped

-----------------------------------------------------------------------------
(* The invariant *)

LEMMA IngestInit ==
    ASSUME Init
    PROVE  IngestInv
<1>1. \A c \in Client : calls[c] = Idle
  BY DEF Init
<1>2. CallsTyped /\ CallsKnow
  BY <1>1, EndOfCall DEF CallsTyped, CallsKnow, Init
<1>3. EntriesTyped /\ JournalKnows /\ Partial(records, Line, Txns) /\ txns \in Seq(Row) /\ RestTyped
  BY DEF Init, EntriesTyped, Entries, JournalKnows, Partial, RestTyped
<1> QED BY <1>2, <1>3 DEF IngestInv, TypeOK, RestTyped, CallsTyped, EntriesTyped, CallTyped

\* The steps of a call.
LEMMA CallsStep ==
    ASSUME IngestInv, NEW c \in Client, Step(c)
    PROVE  IngestInv'
<1>1. ASSUME NEW b \in Batches(DOMAIN calls[c].create), BatchCreate(c, b) PROVE IngestInv'
  BY <1>1, BatchCreateStep
<1>2. CASE WriteRecords(c) \/ WriteRecordsFails(c) \/ TakeBack(c) \/ WriteLinks(c)
  BY <1>2, WriteRecordsStep, WriteRecordsFailsStep, TakeBackStep, WriteLinksStep
<1>3. CASE ApplyFails(c) \/ RecordJournal(c) \/ RecordJournalFails(c)
  BY <1>3, ApplyFailsStep, RecordJournalStep, RecordJournalFailsStep
<1>4. CASE CompareRows(c) \/ DeleteRow(c) \/ DropRecords(c) \/ RelinkRecords(c)
  BY <1>4, CompareRowsStep, DeleteRowStep, DropRecordsStep, RelinkRecordsStep
<1>5. CASE MarkUndone(c) \/ UndoFails(c)
  BY <1>5, MarkUndoneStep, UndoFailsStep
<1> QED BY <1>1, <1>2, <1>3, <1>4, <1>5 DEF Step

\* What a request may name: lines of the folder, and transactions that exist.
LEMMA RequestsAreTyped ==
    ASSUME NEW P, NEW M, NEW accepted \in [M -> {t \in Txns : Live(t) /\ Stray(t)}]
    PROVE  LinesOf(folder, P) \in SUBSET Line /\ accepted \in [M -> Txns]
<1>1. LinesOf(folder, P) \subseteq Line
  BY Zenon DEF LinesOf
<1> QED BY <1>1

LEMMA IngestStep ==
    ASSUME IngestInv, [Next]_vars
    PROVE  IngestInv'
<1>1. ASSUME NEW c \in Client, NEW P \in Preference, NEW reimport \in BOOLEAN,
             NEW M \in SUBSET LinesOf(folder, P),
             NEW accepted \in [M -> {t \in Txns : Live(t) /\ Stray(t)}],
             Plan(c, LinesOf(folder, P), reimport, accepted)
      PROVE  IngestInv'
  BY <1>1, RequestsAreTyped, PlanStep
<1>2. ASSUME NEW c \in Client, Lock(c) \/ BeginUndo(c) \/ Step(c)
      PROVE  IngestInv'
  BY <1>2, LockStep, BeginUndoStep, CallsStep
<1>3. ASSUME NEW F \in Folders, Download(F)
      PROVE  IngestInv'
  BY <1>3, DownloadStep
<1>4. ASSUME NEW k \in Typed, EnterByHand(k)
      PROVE  IngestInv'
  BY <1>4, EnterByHandStep
<1>5. ASSUME NEW t \in Txns, EditByHand(t) \/ DeleteByHand(t)
      PROVE  IngestInv'
  BY <1>5, EditByHandStep, DeleteByHandStep
<1>6. CASE Crash
  BY <1>6, CrashStep
<1>7. CASE UNCHANGED vars
  <2>1. Grows /\ txns' \in Seq(Row) /\ folder' \in Folders /\ left' \subseteq Txns' /\ events' \in Nat
    BY <1>7 DEF vars, Grows, Txns, Entries, IngestInv, TypeOK
  <2> QED BY <1>7, <2>1, AsideStep DEF vars
<1> QED BY <1>1, <1>2, <1>3, <1>4, <1>5, <1>6, <1>7 DEF Next

\* The invariant of the pipeline: its types, what every call in flight knows of the rows
\* and the journal, and what the journal's entries say (ingApplyChanges, ingUndoImport).
THEOREM IngestIsInductive == Spec => []IngestInv
<1>1. Init => IngestInv
  BY IngestInit
<1>2. IngestInv /\ [Next]_vars => IngestInv'
  BY IngestStep
<1> QED BY <1>1, <1>2, PTL DEF Spec

\* Records point at transactions that exist, and calls at rows and entries that exist.
THEOREM IngestIsTyped == Spec => []TypeOK
<1>1. IngestInv => TypeOK
  BY DEF IngestInv
<1> QED BY <1>1, IngestIsInductive, PTL

\* An undone run leaves no transaction behind, however often its undo failed and was
\* retried (ingUndoImport).
THEOREM IngestUndoesWhole == Spec => []UndoneRunsLeaveNothing
<1>1. IngestInv => UndoneRunsLeaveNothing
  BY DEF IngestInv, JournalKnows, UndoneRunsLeaveNothing
<1> QED BY <1>1, IngestIsInductive, PTL

-----------------------------------------------------------------------------
(* One row per line: what is known of the rows *)

\* a row that was created for a line nobody asked for again, and that nobody touched
Clean(t) == Live(t) /\ ~txns[t].edited /\ t \notin matched /\ txns[t].line \in Line \ reasked

\* transactions a record of line l may point at, now or after an undo
Fits(t, l) == t = 0 \/ t \in matched \/ txns[t].line = l
PriorsFit(f) == \A l \in DOMAIN f : Fits(f[l].prior, l)
AllMatched(f) == \A l \in DOMAIN f : f[l].txn \in matched

\* the lines an apply may still create a row for
Opening == {"lock", "create", "record"}
Open(r) == DOMAIN r.create \ {txns[t].line : t \in r.batch}

ApplyFits(r) ==
    /\ \A l \in DOMAIN r.create : Fits(r.create[l], l)
    /\ PriorsFit(r.link) /\ PriorsFit(r.created) /\ PriorsFit(r.linked)
    /\ AllMatched(r.linked)

CallFits(r) ==
    /\ r.pc \in Applies => ApplyFits(r)
    /\ r.pc \in {"lock", "create", "link", "journal"} => r.batch = {}
    /\ r.pc \in {"record", "takeback"} =>
         \A t \in r.batch : \A u \in r.batch : txns[t].line = txns[u].line => t = u
    /\ r.pc \in Opening =>
         \A t \in Txns : Clean(t) /\ txns[t].line \in Open(r) => txns[t].line \in raced

EntryFits(e) == PriorsFit(e.created) /\ PriorsFit(e.linked) /\ AllMatched(e.linked)

RecordsFit == \A l \in DOMAIN records : Fits(records[l], l)

\* two applies that were to create one line raced
PlansRace ==
    \A c \in Client : \A d \in Client \ {c} : \A l \in Line :
        /\ calls[c].pc \in Applies /\ l \in DOMAIN calls[c].create
        /\ calls[d].pc \in Applies /\ l \in DOMAIN calls[d].create
        => l \in raced

\* a clean row is the row of its record, or a failure left it, or its batch is in flight
Registered(t) == txns[t].line \in DOMAIN records /\ records[txns[t].line] = t
Held(t) == \E c \in Client : calls[c].pc \in Applies /\ t \in calls[c].batch
RowsFound == \A t \in Txns : Clean(t) => Registered(t) \/ t \in left \/ Held(t)

\* two clean rows of one line come from a race
TwinsRaced ==
    \A t \in Txns : \A u \in Txns :
        Clean(t) /\ Clean(u) /\ t # u /\ txns[t].line = txns[u].line => txns[t].line \in raced

RowsInv ==
    /\ \A c \in Client : CallFits(calls[c])
    /\ \A i \in Entries : EntryFits(journal[i])
    /\ RecordsFit /\ PlansRace /\ RowsFound /\ TwinsRaced

\* rows keep their lines and never come to be clean, and the histories only grow
Wears ==
    /\ Txns \subseteq Txns'
    /\ \A t \in Txns : txns'[t].line = txns[t].line /\ (Clean(t)' => Clean(t))
    /\ matched \subseteq matched' /\ raced \subseteq raced' /\ left \subseteq left' /\ reasked \subseteq reasked'

LEMMA WearsWhen ==
    ASSUME Txns \subseteq Txns',
           \A t \in Txns : /\ txns'[t].line = txns[t].line
                           /\ txns'[t].live => txns[t].live
                           /\ txns[t].edited => txns'[t].edited,
           matched \subseteq matched', raced \subseteq raced', left \subseteq left', reasked \subseteq reasked'
    PROVE  Wears
BY DEF Wears, Clean, Live

\* What fits goes on to fit.
LEMMA PriorsStay ==
    ASSUME Wears, NEW f, Lines(f), PriorsFit(f)
    PROVE  PriorsFit(f)'
BY DEF Wears, Lines, Partial, PriorsFit, Fits

LEMMA ApplyStays ==
    ASSUME Wears, NEW r, Apply(r), ApplyFits(r)
    PROVE  ApplyFits(r)'
<1>1. \A l \in DOMAIN r.create : Fits(r.create[l], l)'
  BY DEF Wears, Apply, Partial, ApplyFits, Fits
<1>2. PriorsFit(r.link)' /\ PriorsFit(r.created)' /\ PriorsFit(r.linked)'
  BY PriorsStay DEF Apply, ApplyFits
<1>3. AllMatched(r.linked)'
  BY DEF Wears, ApplyFits, AllMatched
<1> QED BY <1>1, <1>2, <1>3 DEF ApplyFits

LEMMA CallFitsStays ==
    ASSUME Wears, NEW r, CallTyped(r), CallFits(r),
           \A t \in Txns' \ Txns :
             r.pc \in Opening /\ Clean(t)' /\ txns'[t].line \in DOMAIN r.create => txns'[t].line \in raced'
    PROVE  CallFits(r)'
<1>1. CASE Apply(r)
  <2>1. r.pc \in Applies => ApplyFits(r)'
    BY <1>1, ApplyStays DEF CallFits
  <2>2. r.batch \subseteq Txns
    BY <1>1 DEF Apply
  <2>3. \A t \in r.batch : txns'[t].line = txns[t].line
    BY <2>2 DEF Wears
  <2>4. Open(r)' = Open(r)
    BY <2>3 DEF Open
  <2>5. ASSUME NEW t \in Txns', r.pc \in Opening, Clean(t)', txns'[t].line \in Open(r)
        PROVE  txns'[t].line \in raced'
    <3>1. CASE t \in Txns
      BY <3>1, <2>5 DEF CallFits, Wears
    <3>2. CASE t \notin Txns
      BY <3>2, <2>5 DEF Open
    <3> QED BY <3>1, <3>2
  <2> QED BY <2>1, <2>3, <2>4, <2>5 DEF CallFits
<1>2. CASE r = Idle \/ r \in Undo
  BY <1>2 DEF CallFits, Idle, Undo, Applies, Opening
<1> QED BY <1>1, <1>2 DEF CallTyped

LEMMA EntryStays ==
    ASSUME Wears, NEW e, Entry(e), EntryFits(e)
    PROVE  EntryFits(e)'
<1>1. PriorsFit(e.created)' /\ PriorsFit(e.linked)'
  BY PriorsStay DEF Entry, EntryFits
<1>2. AllMatched(e.linked)'
  BY DEF Wears, EntryFits, AllMatched
<1> QED BY <1>1, <1>2 DEF EntryFits

LEMMA RecordsStay ==
    ASSUME IngestInv, RowsInv, Wears, UNCHANGED records
    PROVE  RecordsFit'
BY DEF IngestInv, TypeOK, Partial, RowsInv, RecordsFit, Fits, Wears

\* A step of call c that creates no row keeps the invariant, when its new locals r fit, it
\* takes no record from a clean row, and the rows of its batch stay known.
LEMMA RowsCallStep ==
    ASSUME IngestInv, RowsInv, Wears, Txns' = Txns, NEW c \in Client, NEW r, Goto(c, r),
           CallFits(r)',
           \A i \in Entries' : EntryFits(journal[i])',
           RecordsFit',
           r.pc \in Applies => calls[c].pc \in Applies /\ DOMAIN r.create \subseteq DOMAIN calls[c].create,
           \A t \in Txns : Clean(t)' /\ Registered(t) => Registered(t)',
           \A t \in Txns : Clean(t)' /\ calls[c].pc \in Applies /\ t \in calls[c].batch =>
             Registered(t)' \/ t \in left' \/ (r.pc \in Applies /\ t \in r.batch)
    PROVE  RowsInv'
<1>1. calls'[c] = r /\ \A d \in Client \ {c} : calls'[d] = calls[d]
  BY TypeParts DEF IngestInv, Goto, CallsTyped
<1>2. \A d \in Client : CallFits(calls[d])'
  <2>1. ASSUME NEW d \in Client \ {c}
        PROVE  CallFits(calls[d])'
    <3>1. PICK q : q = calls[d] /\ q = calls'[d]
      BY <1>1
    <3>2. CallTyped(q) /\ CallFits(q)
      BY <3>1, TypeParts DEF IngestInv, CallsTyped, RowsInv
    <3>3. CallFits(q)'
      BY <3>2, CallFitsStays
    <3> QED BY <3>1, <3>3 DEF CallFits, ApplyFits, Open
  <2>2. CallFits(calls[c])'
    BY <1>1 DEF CallFits, ApplyFits, Open
  <2> QED BY <2>1, <2>2
<1>3. PlansRace'
  <2>1. ASSUME NEW d \in Client
        PROVE  calls'[d].pc \in Applies => calls[d].pc \in Applies /\ DOMAIN calls'[d].create \subseteq DOMAIN calls[d].create
    BY <1>1
  <2> QED BY <2>1 DEF PlansRace, RowsInv, Wears
<1>4. RowsFound'
  <2>1. ASSUME NEW t \in Txns, Clean(t)'
        PROVE  Registered(t)' \/ t \in left' \/ Held(t)'
    <3>1. Registered(t) \/ t \in left \/ Held(t)
      BY <2>1 DEF RowsInv, RowsFound, Wears
    <3>2. CASE Held(t)
      <4>1. PICK d \in Client : calls[d].pc \in Applies /\ t \in calls[d].batch
        BY <3>2 DEF Held
      <4>2. CASE d = c
        BY <1>1, <2>1, <4>1, <4>2 DEF Held
      <4>3. CASE d # c
        BY <1>1, <4>1, <4>3 DEF Held
      <4> QED BY <4>2, <4>3
    <3> QED BY <2>1, <3>1, <3>2 DEF Wears
  <2> QED BY <2>1 DEF RowsFound
<1>5. TwinsRaced'
  BY DEF TwinsRaced, RowsInv, Wears
<1> QED BY <1>2, <1>3, <1>4, <1>5 DEF RowsInv

\* A step that leaves the rows, the records, the journal and the histories alone.
LEMMA RowsQuietStep ==
    ASSUME IngestInv, RowsInv, NEW c \in Client, NEW r, Goto(c, r), CallFits(r),
           UNCHANGED <<txns, records, journal, reasked, raced, left, matched>>,
           r.pc \in Applies => calls[c].pc \in Applies /\ DOMAIN r.create \subseteq DOMAIN calls[c].create,
           \A t \in Txns : Clean(t) /\ calls[c].pc \in Applies /\ t \in calls[c].batch =>
             r.pc \in Applies /\ t \in r.batch
    PROVE  RowsInv'
<1>1. Wears /\ Txns' = Txns /\ Entries' = Entries
  BY WearsWhen DEF Txns, Entries
<1>2. CallFits(r)'
  BY <1>1 DEF CallFits, ApplyFits, PriorsFit, AllMatched, Fits, Open, Clean, Live
<1>3. \A i \in Entries' : EntryFits(journal[i])'
  BY <1>1 DEF RowsInv, EntryFits, PriorsFit, AllMatched, Fits
<1>4. RecordsFit'
  BY <1>1, RecordsStay
<1>5. \A t \in Txns : (Clean(t)' <=> Clean(t)) /\ (Registered(t)' <=> Registered(t))
  BY DEF Clean, Live, Registered
<1> QED BY <1>1, <1>2, <1>3, <1>4, <1>5, RowsCallStep

\* What is known of an apply in flight.
LEMMA ApplyRows ==
    ASSUME IngestInv, RowsInv, NEW c \in Client, calls[c].pc \in Applies
    PROVE  Apply(calls[c]) /\ CallFits(calls[c]) /\ ApplyFits(calls[c]) /\ calls[c].batch \subseteq Txns
BY ApplyKnows DEF RowsInv, CallFits, Apply

\* A call that ended, or undoes, is to create nothing.
LEMMA NoApplyFits ==
    ASSUME NEW r, r.pc \notin Applies
    PROVE  CallFits(r)
BY DEF CallFits, Applies, Opening

LEMMA LockRows ==
    ASSUME IngestInv, RowsInv, NEW c \in Client, Lock(c)
    PROVE  RowsInv'
<1>1. PICK q : q = calls[c]
  OBVIOUS
<1>2. PICK r : r = NextBatch(q)
  OBVIOUS
<1>3. Apply(q) /\ CallFits(q) /\ q.pc = "lock" /\ q.batch = {} /\ q.pc \in Applies
  BY <1>1, ApplyRows DEF Lock, At, Applies, CallFits
<1>4. /\ r.pc \in {"create", "link"} /\ r.create = q.create /\ r.batch = {} /\ r.link = q.link
      /\ r.created = q.created /\ r.linked = q.linked
  BY <1>2, <1>3 DEF NextBatch, Apply
<1>5. CallFits(r)
  BY <1>3, <1>4 DEF CallFits, ApplyFits, Opening, Applies, Open
<1> QED BY <1>1, <1>2, <1>3, <1>4, <1>5, RowsQuietStep DEF Lock

LEMMA WriteRecordsFailsRows ==
    ASSUME IngestInv, RowsInv, NEW c \in Client, WriteRecordsFails(c)
    PROVE  RowsInv'
<1>1. PICK q : q = calls[c]
  OBVIOUS
<1>2. PICK r : r = [q EXCEPT !.pc = "takeback"]
  OBVIOUS
<1>3. Apply(q) /\ CallFits(q) /\ q.pc = "record" /\ q.pc \in Applies
  BY <1>1, ApplyRows DEF WriteRecordsFails, At, Applies
<1>4. /\ r.pc = "takeback" /\ r.create = q.create /\ r.batch = q.batch /\ r.link = q.link
      /\ r.created = q.created /\ r.linked = q.linked
  BY <1>2, <1>3 DEF Apply
<1>5. CallFits(r) /\ r.pc \in Applies
  BY <1>3, <1>4 DEF CallFits, ApplyFits, Opening, Applies
<1> QED BY <1>1, <1>2, <1>3, <1>4, <1>5, RowsQuietStep DEF WriteRecordsFails

\* An apply that ends, or goes on to its journal entry, has an empty batch.
LEMMA EndFits ==
    ASSUME NEW c, NEW r, End(c, r), Apply(r), ApplyFits(r), r.batch = {}
    PROVE  \E s : /\ Goto(c, s) /\ CallFits(s)
                  /\ s.pc \in Applies => s.create = r.create
<1>1. CASE DOMAIN r.created \cup DOMAIN r.linked # {}
  <2>1. PICK s : s = [r EXCEPT !.pc = "journal"]
    OBVIOUS
  <2>2. /\ s.pc = "journal" /\ s.create = r.create /\ s.batch = {} /\ s.link = r.link
        /\ s.created = r.created /\ s.linked = r.linked
    BY <2>1 DEF Apply
  <2>3. CallFits(s)
    BY <2>2 DEF CallFits, ApplyFits, Opening, Applies
  <2> QED BY <1>1, <2>1, <2>2, <2>3 DEF End
<1>2. CASE DOMAIN r.created \cup DOMAIN r.linked = {}
  <2>1. Goto(c, Idle) /\ Idle.pc \notin Applies
    BY <1>2 DEF End, Idle, Applies
  <2> QED BY <2>1, NoApplyFits
<1> QED BY <1>1, <1>2

LEMMA ApplyFailsRows ==
    ASSUME IngestInv, RowsInv, NEW c \in Client, ApplyFails(c)
    PROVE  RowsInv'
<1>1. calls[c].pc \in {"create", "link"} /\ calls[c].pc \in Applies /\ End(c, calls[c])
  BY DEF ApplyFails, At, Applies
<1>2. Apply(calls[c]) /\ ApplyFits(calls[c]) /\ calls[c].batch = {}
  BY <1>1, ApplyRows DEF CallFits
<1>3. PICK s : Goto(c, s) /\ CallFits(s) /\ (s.pc \in Applies => s.create = calls[c].create)
  BY <1>1, <1>2, EndFits
<1> QED BY <1>1, <1>2, <1>3, RowsQuietStep DEF ApplyFails

\* The steps after which a call creates and writes nothing, and that change no table.
LEMMA LeavingRows ==
    ASSUME IngestInv, RowsInv, NEW c \in Client, NEW r, Goto(c, r), r.pc \notin Applies,
           UNCHANGED <<txns, records, journal, reasked, raced, left, matched>>,
           calls[c].pc \in Applies => calls[c].batch = {}
    PROVE  RowsInv'
BY NoApplyFits, RowsQuietStep

LEMMA QuietCallsRows ==
    ASSUME IngestInv, RowsInv, NEW c \in Client,
           RecordJournalFails(c) \/ BeginUndo(c) \/ CompareRows(c) \/ UndoFails(c)
    PROVE  RowsInv'
<1>1. Idle.pc \notin Applies
  BY DEF Idle, Applies
<1>2. CASE RecordJournalFails(c)
  <2>1. calls[c].batch = {}
    BY <1>2, ApplyRows DEF RecordJournalFails, At, Applies, CallFits
  <2> QED BY <1>1, <1>2, <2>1, LeavingRows DEF RecordJournalFails
<1>3. CASE BeginUndo(c)
  <2>1. PICK i : Goto(c, [pc |-> "compare", entry |-> i, todo |-> {}])
    BY <1>3 DEF BeginUndo
  <2>2. calls[c].pc \notin Applies
    BY <1>3 DEF BeginUndo, First, At, Applies
  <2>3. [pc |-> "compare", entry |-> i, todo |-> {}].pc \notin Applies
    BY DEF Applies
  <2> QED BY <1>3, <2>1, <2>2, <2>3, LeavingRows DEF BeginUndo
<1>4. CASE CompareRows(c)
  <2>1. calls[c].pc \notin Applies /\ calls[c] \in Undo
    BY <1>4, UndoKnows DEF CompareRows, At, Applies, Undoing
  <2>2. PICK r : Goto(c, r) /\ r.pc \notin Applies
    <3>1. \A rows : Deleting(calls[c], rows).pc \notin Applies
      BY <2>1 DEF Deleting, Undo, Applies
    <3> QED BY <1>1, <1>4, <3>1 DEF CompareRows, Leave
  <2> QED BY <1>4, <2>1, <2>2, LeavingRows DEF CompareRows
<1>5. CASE UndoFails(c)
  <2>1. calls[c].pc \notin Applies
    BY <1>5 DEF UndoFails, Undoing, Applies
  <2> QED BY <1>1, <1>5, <2>1, LeavingRows DEF UndoFails, Leave
<1> QED BY <1>2, <1>3, <1>4, <1>5

\* The journal entry says what the apply knew.
LEMMA RecordJournalRows ==
    ASSUME IngestInv, RowsInv, NEW c \in Client, RecordJournal(c)
    PROVE  RowsInv'
<1>1. PICK e : e = [created |-> calls[c].created, linked |-> calls[c].linked, undone |-> FALSE,
                    seen |-> [l \in DOMAIN calls[c].created |-> txns[calls[c].created[l].txn].edited]]
  OBVIOUS
<1>2. /\ ApplyFits(calls[c]) /\ calls[c].batch = {} /\ journal' = Append(journal, e)
      /\ UNCHANGED <<txns, records, reasked, raced, left, matched>>
      /\ Goto(c, Idle) /\ Idle.pc \notin Applies
  BY <1>1, ApplyRows DEF RecordJournal, At, Applies, CallFits, Idle
<1>3. Wears /\ Txns' = Txns
  BY <1>2, WearsWhen DEF Txns
<1>4. EntryFits(e)
  BY <1>1, <1>2 DEF EntryFits, ApplyFits
<1>5. \A i \in Entries' : EntryFits(journal'[i])
  BY <1>2, <1>4 DEF IngestInv, TypeOK, Entries, RowsInv
<1>6. \A i \in Entries' : EntryFits(journal[i])'
  BY <1>2, <1>5 DEF EntryFits, PriorsFit, AllMatched, Fits
<1>7. CallFits(Idle)' /\ RecordsFit'
  BY <1>2, <1>3, RecordsStay DEF CallFits, Applies, Opening, Idle
<1>8. \A t \in Txns : Registered(t) => Registered(t)'
  BY <1>2 DEF Registered
<1> QED BY <1>2, <1>3, <1>6, <1>7, <1>8, RowsCallStep

\* The mark changes no lines of the entry.
LEMMA MarkUndoneRows ==
    ASSUME IngestInv, RowsInv, NEW c \in Client, MarkUndone(c)
    PROVE  RowsInv'
<1>1. /\ Goto(c, Idle) /\ Idle.pc \notin Applies /\ calls[c].pc \notin Applies
      /\ UNCHANGED <<txns, records, reasked, raced, left, matched>>
  BY DEF MarkUndone, Leave, At, Applies, Idle
<1>2. Wears /\ Txns' = Txns
  BY <1>1, WearsWhen DEF Txns
<1>3. PICK k \in Entries : k = calls[c].entry
  BY UndoKnows DEF MarkUndone, At, Undoing, Undo
<1>4. journal \in Seq({journal[i] : i \in Entries}) /\ Entry(journal[k])
  BY TypeParts DEF IngestInv, EntriesTyped
<1>5. PICK e : e = [journal[k] EXCEPT !.undone = TRUE]
  OBVIOUS
<1>6. e.created = journal[k].created /\ e.linked = journal[k].linked
  BY <1>4, <1>5 DEF Entry
<1>7. journal' = [journal EXCEPT ![k] = e]
  BY <1>3, <1>5 DEF MarkUndone
<1>8. \A i \in Entries' : i \in Entries /\ journal'[i].created = journal[i].created /\ journal'[i].linked = journal[i].linked
  BY <1>4, <1>6, <1>7 DEF Entries
<1>9. \A i \in Entries' : EntryFits(journal[i])'
  BY <1>1, <1>8 DEF RowsInv, EntryFits, PriorsFit, AllMatched, Fits
<1>10. CallFits(Idle)' /\ RecordsFit'
  BY <1>1, <1>2, RecordsStay DEF CallFits, Applies, Opening, Idle
<1>11. \A t \in Txns : Registered(t) => Registered(t)'
  BY <1>1 DEF Registered
<1> QED BY <1>1, <1>2, <1>9, <1>10, <1>11, RowsCallStep

\* The entries stay as they fit while the journal stays.
LEMMA JournalStays ==
    ASSUME IngestInv, RowsInv, Wears, UNCHANGED journal
    PROVE  \A i \in Entries' : EntryFits(journal[i])'
<1>1. ASSUME NEW i \in Entries'
      PROVE  EntryFits(journal[i])'
  <2>1. PICK e : e = journal[i] /\ e = journal'[i]
    OBVIOUS
  <2>2. Entry(e) /\ EntryFits(e)
    BY <2>1, TypeParts DEF IngestInv, EntriesTyped, Entries, RowsInv
  <2>3. EntryFits(e)'
    BY <2>2, EntryStays
  <2> QED BY <2>1, <2>3 DEF EntryFits
<1> QED BY <1>1

\* A deletion makes no row clean.
LEMMA DeletedWears ==
    ASSUME IngestInv, NEW t \in Txns, txns' = Deleted(t),
           matched' = matched, raced' = raced, left \subseteq left', reasked' = reasked
    PROVE  Wears /\ Txns' = Txns /\ ~Clean(t)' /\ \A u \in Txns \ {t} : txns'[u] = txns[u]
<1>1. txns \in Seq(Row) /\ txns[t] \in Row
  BY DEF IngestInv, TypeOK, Txns
<1>2. PICK row : row = [txns[t] EXCEPT !.live = FALSE]
  OBVIOUS
<1>3. row.line = txns[t].line /\ row.edited = txns[t].edited /\ ~row.live
  BY <1>1, <1>2 DEF Row
<1>4. Txns' = Txns /\ txns'[t] = row /\ \A u \in Txns \ {t} : txns'[u] = txns[u]
  BY <1>1, <1>2 DEF Deleted, Txns
<1>5. ~Clean(t)'
  BY <1>3, <1>4 DEF Clean, Live
<1>6. \A u \in Txns : /\ txns'[u].line = txns[u].line
                      /\ txns'[u].live => txns[u].live
                      /\ txns[u].edited => txns'[u].edited
  BY <1>3, <1>4
<1> QED BY <1>4, <1>5, <1>6, WearsWhen

LEMMA DeleteRowRows ==
    ASSUME IngestInv, RowsInv, NEW c \in Client, DeleteRow(c)
    PROVE  RowsInv'
<1> DEFINE t == OneOf(calls[c].todo)
<1>1. calls[c] \in Undo /\ calls[c].pc \notin Applies /\ t \in Txns
  BY UndoKnows DEF DeleteRow, At, Undoing, OneOf, CallKnows, Undo, Applies
<1>2. /\ txns' = Deleted(t)
      /\ UNCHANGED <<records, journal, reasked, raced, left, matched>>
  BY DEF DeleteRow
<1>3. Wears /\ Txns' = Txns /\ \A u \in Txns : txns'[u].line = txns[u].line
  BY <1>1, <1>2, DeletedWears DEF Wears
<1>4. PICK r : Goto(c, r) /\ r.pc \notin Applies
  <2>1. Deleting(calls[c], calls[c].todo \ {t}).pc \notin Applies /\ Idle.pc \notin Applies
    BY <1>1 DEF Deleting, Undo, Applies, Idle
  <2> QED BY <2>1 DEF DeleteRow, Leave
<1>5. CallFits(r)' /\ RecordsFit' /\ \A i \in Entries' : EntryFits(journal[i])'
  BY <1>2, <1>3, <1>4, RecordsStay, JournalStays DEF CallFits, Applies, Opening
<1>6. \A u \in Txns : Registered(u) => Registered(u)'
  BY <1>2, <1>3 DEF Registered
<1> HIDE DEF t
<1> QED BY <1>1, <1>3, <1>4, <1>5, <1>6, RowsCallStep

\* A batch is taken back: each of its rows is deleted or left.
LEMMA TakeBackRows ==
    ASSUME IngestInv, RowsInv, NEW c \in Client, TakeBack(c)
    PROVE  RowsInv'
<1>1. PICK q : q = calls[c]
  OBVIOUS
<1>2. PICK t : t = OneOf(q.batch)
  OBVIOUS
<1>3. PICK r : r = [q EXCEPT !.batch = @ \ {t}]
  OBVIOUS
<1>4. Apply(q) /\ CallFits(q) /\ ApplyFits(q) /\ q.pc = "takeback" /\ q.pc \in Applies /\ q.batch \subseteq Txns
  BY <1>1, ApplyRows DEF TakeBack, At, Applies
<1>5. t \in q.batch
  BY <1>1, <1>2, <1>4, ApplyKnows DEF OneOf, CallKnows
<1>6. /\ r.pc = "takeback" /\ r.create = q.create /\ r.batch = q.batch \ {t} /\ r.link = q.link
      /\ r.created = q.created /\ r.linked = q.linked /\ Apply(r)
  BY <1>3, <1>4 DEF Apply, Lines
<1>7. ApplyFits(r) /\ CallFits(r)
  BY <1>4, <1>6 DEF CallFits, ApplyFits, Opening, Applies
<1>8. PICK s : /\ Goto(c, s) /\ CallTyped(s) /\ CallFits(s)
               /\ s.pc \in Applies => s.create = q.create
               /\ r.batch # {} => s.pc \in Applies /\ s.batch = r.batch
  <2>1. CASE r.batch = {}
    <3>1. End(c, r)
      BY <2>1, <1>1, <1>2, <1>3 DEF TakeBack
    <3>2. PICK s : s = [r EXCEPT !.pc = "journal"]
      OBVIOUS
    <3>3. Apply(s) /\ s.pc = "journal" /\ s.create = q.create /\ s.batch = {} /\ CallFits(s)
      BY <1>6, <1>7, <2>1, <3>2 DEF Apply, Lines, CallFits, ApplyFits, Opening, Applies
    <3>4. CallTyped(Idle) /\ CallFits(Idle) /\ Idle.pc \notin Applies
      BY NoApplyFits DEF CallTyped, Idle, Applies
    <3>5. Goto(c, s) \/ Goto(c, Idle)
      BY <3>1, <3>2 DEF End
    <3> QED BY <2>1, <3>3, <3>4, <3>5 DEF CallTyped
  <2>2. CASE r.batch # {}
    <3>1. Goto(c, r)
      BY <2>2, <1>1, <1>2, <1>3 DEF TakeBack
    <3> QED BY <1>6, <1>7, <3>1 DEF CallTyped, Applies
  <2> QED BY <2>1, <2>2
<1>9. /\ UNCHANGED <<records, journal, reasked, raced, matched>>
      /\ (txns' = Deleted(t) /\ left' = left) \/ (txns' = txns /\ left' = left \cup {t})
  BY <1>1, <1>2 DEF TakeBack
<1>10. /\ Wears /\ Txns' = Txns /\ (Clean(t)' => t \in left')
       /\ \A u \in Txns : txns'[u].line = txns[u].line
  <2>1. CASE txns' = Deleted(t) /\ left' = left
    BY <1>4, <1>5, <1>9, <2>1, DeletedWears DEF Wears
  <2>2. CASE txns' = txns /\ left' = left \cup {t}
    <3>1. Txns' = Txns
      BY <2>2 DEF Txns
    <3> QED BY <1>9, <2>2, <3>1, WearsWhen
  <2> QED BY <1>9, <2>1, <2>2
<1>11. CallFits(s)' /\ RecordsFit' /\ \A i \in Entries' : EntryFits(journal[i])'
  BY <1>8, <1>9, <1>10, RecordsStay, JournalStays, CallFitsStays
<1>12. \A u \in Txns : Registered(u) => Registered(u)'
  BY <1>9, <1>10 DEF Registered
<1>13. \A u \in Txns : Clean(u)' /\ u \in q.batch => u \in left' \/ (s.pc \in Applies /\ u \in s.batch)
  BY <1>6, <1>8, <1>10
<1> QED BY <1>1, <1>4, <1>8, <1>10, <1>11, <1>12, <1>13, RowsCallStep

\* The records of an undone run go; its rows went before, and those it linked were
\* matched.
LEMMA DropRecordsRows ==
    ASSUME IngestInv, RowsInv, NEW c \in Client, DropRecords(c)
    PROVE  RowsInv'
<1>1. PICK e : e = journal[calls[c].entry]
  OBVIOUS
<1>2. /\ calls[c] \in Undo /\ calls[c].pc = "drop" /\ calls[c].pc \notin Applies
      /\ Entry(e) /\ EntryFits(e) /\ \A t \in Made(e) : ~Live(t)
  BY <1>1, UndoKnows DEF DropRecords, At, Undoing, Undo, CallKnows, Live, RowsInv, Applies
<1>3. PICK r : r = [calls[c] EXCEPT !.pc = "relink"]
  OBVIOUS
<1>4. Goto(c, r) /\ r.pc \notin Applies
  BY <1>2, <1>3 DEF DropRecords, Undo, Applies
<1>5. /\ records' = Without(records, {l \in StillOurs(e) : Wrote(e)[l].prior = 0})
      /\ UNCHANGED <<txns, journal, reasked, raced, left, matched>>
  BY <1>1 DEF DropRecords
<1>6. Wears /\ Txns' = Txns
  BY <1>5, WearsWhen DEF Txns
<1>7. \A l \in StillOurs(e) : records[l] \in Made(e) \/ records[l] \in matched
  BY <1>2 DEF StillOurs, Wrote, Overlay, Made, EntryFits, AllMatched
<1>8. ASSUME NEW t \in Txns, Clean(t)', Registered(t)
      PROVE  Registered(t)'
  <2>1. txns[t].line \notin StillOurs(e)
    BY <1>2, <1>5, <1>7, <1>8 DEF Clean, Live, Registered
  <2> QED BY <1>5, <1>8, <2>1 DEF Registered, Without
<1>9. RecordsFit'
  BY <1>5 DEF RowsInv, RecordsFit, Without, Fits
<1>10. CallFits(r)' /\ \A i \in Entries' : EntryFits(journal[i])'
  BY <1>4, <1>5, <1>6, JournalStays DEF CallFits, Applies, Opening
<1> QED BY <1>2, <1>4, <1>6, <1>8, <1>9, <1>10, RowsCallStep

\* The records of lines that were asked for again go back to their prior transactions.
LEMMA RelinkRecordsRows ==
    ASSUME IngestInv, RowsInv, NEW c \in Client, RelinkRecords(c)
    PROVE  RowsInv'
<1>1. PICK e : e = journal[calls[c].entry]
  OBVIOUS
<1>2. /\ calls[c] \in Undo /\ calls[c].pc = "relink" /\ calls[c].pc \notin Applies /\ EntryFits(e)
  BY <1>1, UndoKnows DEF RelinkRecords, At, Undoing, Undo, RowsInv, Applies
<1>3. PICK r : r = [calls[c] EXCEPT !.pc = "mark"]
  OBVIOUS
<1>4. Goto(c, r) /\ r.pc \notin Applies
  BY <1>2, <1>3 DEF RelinkRecords, Undo, Applies
<1>5. PICK g : g = [l \in {m \in StillOurs(e) : Wrote(e)[m].prior # 0} |-> Wrote(e)[l].prior]
  OBVIOUS
<1>6. records' = Overlay(records, g) /\ UNCHANGED <<txns, journal, reasked, raced, left, matched>>
  BY <1>1, <1>5 DEF RelinkRecords
<1>7. Wears /\ Txns' = Txns
  BY <1>6, WearsWhen DEF Txns
<1>8. \A l \in DOMAIN g : l \in reasked /\ Fits(g[l], l)
  <2>1. Asks(Wrote(e), reasked)
    BY <1>1, WroteKnows DEF RelinkRecords, At, Undoing
  <2>2. PriorsFit(Wrote(e))
    BY <1>2 DEF EntryFits, PriorsFit, Wrote, Overlay
  <2> QED BY <1>5, <2>1, <2>2 DEF Asks, PriorsFit, StillOurs
<1>9. ASSUME NEW t \in Txns, Clean(t)', Registered(t)
      PROVE  Registered(t)'
  <2>1. txns[t].line \notin DOMAIN g
    BY <1>6, <1>8, <1>9 DEF Clean
  <2> QED BY <1>6, <1>9, <2>1 DEF Registered, Overlay
<1>10. RecordsFit'
  BY <1>6, <1>8 DEF RowsInv, RecordsFit, Overlay, Fits
<1>11. CallFits(r)' /\ \A i \in Entries' : EntryFits(journal[i])'
  BY <1>4, <1>6, <1>7, JournalStays DEF CallFits, Applies, Opening
<1> QED BY <1>2, <1>4, <1>7, <1>9, <1>10, <1>11, RowsCallStep

\* The records of a batch: each of its rows becomes the row of its line, and no record of
\* a clean row is overwritten, because a line without a prior transaction was not taken.
LEMMA WriteRecordsRows ==
    ASSUME IngestInv, RowsInv, NEW c \in Client, WriteRecords(c)
    PROVE  RowsInv'
<1>1. PICK q : q = calls[c]
  OBVIOUS
<1>2. PICK lines : lines = {txns[t].line : t \in q.batch}
  OBVIOUS
<1>3. PICK txn : txn = [l \in lines |-> CHOOSE t \in q.batch : txns[t].line = l]
  OBVIOUS
<1>4. PICK done : done = [l \in lines |-> [txn |-> txn[l], prior |-> q.create[l]]]
  OBVIOUS
<1>5. PICK b : b = [q EXCEPT !.create = Without(@, lines), !.created = Overlay(@, done)]
  OBVIOUS
<1>6. PICK r : r = NextBatch(b)
  OBVIOUS
<1>7. /\ Apply(q) /\ CallFits(q) /\ ApplyFits(q) /\ q.pc = "record" /\ q.pc \in Applies /\ q.batch \subseteq Txns
      /\ CallKnows(q, txns, journal, reasked)
      /\ lines \subseteq DOMAIN q.create
  <2>1. At(c, "record") /\ q.pc = "record" /\ q.pc \in Applies
    BY <1>1 DEF WriteRecords, At, Applies
  <2> QED BY <1>1, <1>2, <2>1, ApplyRows, BatchLines
<1>8. \A l \in lines : txn[l] \in q.batch /\ txns[txn[l]].line = l
  <2>1. ASSUME NEW l \in lines
        PROVE  txn[l] \in q.batch /\ txns[txn[l]].line = l
    <3>1. \E t \in q.batch : txns[t].line = l
      BY <1>2
    <3> QED BY <1>3, <3>1
  <2> QED BY <2>1
<1>9. /\ b.create = Without(q.create, lines) /\ b.created = Overlay(q.created, done)
      /\ b.link = q.link /\ b.linked = q.linked
      /\ b \in [pc : {"record"}, create : {b.create}, link : {b.link}, batch : SUBSET Txns,
                created : {b.created}, linked : {b.linked}]
  BY <1>5, <1>7 DEF Apply
<1>10. /\ r.pc \in {"create", "link"} /\ r.batch = {} /\ r.create = b.create /\ r.link = b.link
       /\ r.created = b.created /\ r.linked = b.linked
  BY <1>6, <1>9 DEF NextBatch
<1>11. Goto(c, r) /\ AlreadyTaken(lines, q.create) = {} /\ records' = Written(lines, q.create, txn)
  BY <1>1, <1>2, <1>3, <1>4, <1>5, <1>6 DEF WriteRecords
<1>12. UNCHANGED <<folder, txns, journal, reasked, raced, left, matched>>
  BY DEF WriteRecords
<1>13. Wears /\ Txns' = Txns
  BY <1>12, WearsWhen DEF Txns
<1>14. CallFits(r)
  <2>1. PriorsFit(done)
    BY <1>4, <1>7 DEF PriorsFit, ApplyFits
  <2>2. PriorsFit(r.created)
    BY <1>7, <1>9, <1>10, <2>1 DEF PriorsFit, ApplyFits, Overlay
  <2>3. \A l \in DOMAIN r.create : Fits(r.create[l], l)
    BY <1>7, <1>9, <1>10 DEF ApplyFits, Without
  <2>4. ApplyFits(r)
    BY <1>7, <1>9, <1>10, <2>2, <2>3 DEF ApplyFits
  <2>5. Open(r) = Open(q)
    BY <1>2, <1>9, <1>10 DEF Open, Without
  <2> QED BY <1>7, <1>10, <2>4, <2>5 DEF CallFits, Opening
<1>15. CallFits(r)'
  BY <1>12, <1>14 DEF CallFits, ApplyFits, PriorsFit, AllMatched, Fits, Open, Clean, Live, Txns
<1>16. PICK g : g = [l \in {m \in lines : q.create[m] = 0 \/ m \in DOMAIN records} |-> txn[l]]
  OBVIOUS
<1>17. records' = Overlay(records, g)
  BY <1>11, <1>16 DEF Written
<1>18. \A l \in lines : l \in DOMAIN records \/ q.create[l] # 0 => l \in reasked
  BY <1>7, <1>11 DEF AlreadyTaken, CallKnows
<1>19. ASSUME NEW t \in Txns, Clean(t)', Registered(t)
       PROVE  Registered(t)'
  <2>1. txns[t].line \notin DOMAIN g
    BY <1>12, <1>16, <1>18, <1>19 DEF Clean, Registered
  <2> QED BY <1>12, <1>17, <1>19, <2>1 DEF Registered, Overlay
<1>20. ASSUME NEW t \in Txns, Clean(t)', t \in q.batch
       PROVE  Registered(t)'
  <2>1. PICK l \in lines : l = txns[t].line
    BY <1>2, <1>20
  <2>2. l \in DOMAIN g
    BY <1>12, <1>16, <1>18, <1>20, <2>1 DEF Clean
  <2>3. txn[l] = t
    BY <1>7, <1>8, <1>20, <2>1 DEF CallFits
  <2>4. records'[l] = t /\ l \in DOMAIN records'
    BY <1>16, <1>17, <2>2, <2>3 DEF Overlay
  <2> QED BY <1>12, <2>1, <2>4 DEF Registered
<1>21. RecordsFit'
  <2>1. \A l \in DOMAIN g : Fits(g[l], l)
    BY <1>8, <1>16 DEF Fits
  <2> QED BY <1>12, <1>17, <2>1 DEF RowsInv, RecordsFit, Overlay, Fits
<1>22. \A i \in Entries' : EntryFits(journal[i])'
  BY <1>12, <1>13, JournalStays
<1>23. r.pc \in Applies => DOMAIN r.create \subseteq DOMAIN q.create
  BY <1>9, <1>10 DEF Without
<1> QED BY <1>1, <1>7, <1>11, <1>13, <1>15, <1>19, <1>20, <1>21, <1>22, <1>23, RowsCallStep

\* The links: what they write was matched, and a line without a prior transaction was not
\* taken.
LEMMA WriteLinksRows ==
    ASSUME IngestInv, RowsInv, NEW c \in Client, WriteLinks(c)
    PROVE  RowsInv'
<1>1. PICK q : q = calls[c]
  OBVIOUS
<1>2. /\ Apply(q) /\ CallFits(q) /\ ApplyFits(q) /\ q.pc = "link" /\ q.pc \in Applies /\ q.batch = {}
      /\ CallKnows(q, txns, journal, reasked)
  BY <1>1, ApplyRows, ApplyKnows DEF WriteLinks, At, Applies, CallFits
<1>3. PICK b : b = [q EXCEPT !.linked = q.link]
  OBVIOUS
<1>4. PICK s : s = [b EXCEPT !.pc = "journal"]
  OBVIOUS
<1>5. /\ s.pc = "journal" /\ s.create = q.create /\ s.batch = {} /\ s.link = q.link
      /\ s.created = q.created /\ s.linked = q.link
  <2>1. /\ b.create = q.create /\ b.batch = {} /\ b.link = q.link /\ b.created = q.created /\ b.linked = q.link
        /\ b \in [pc : {"link"}, create : {b.create}, link : {b.link}, batch : {{}},
                  created : {b.created}, linked : {b.linked}]
    BY <1>2, <1>3 DEF Apply
  <2> QED BY <1>4, <2>1
<1>6. PICK r : Goto(c, r) /\ (r = s \/ r = Idle)
  <2>1. End(c, b)
    BY <1>1, <1>3 DEF WriteLinks
  <2> QED BY <1>4, <2>1 DEF End
<1>7. PICK lines : lines = DOMAIN q.link
  OBVIOUS
<1>8. PICK prior : prior = [l \in lines |-> q.link[l].prior]
  OBVIOUS
<1>9. PICK txn : txn = [l \in lines |-> q.link[l].txn]
  OBVIOUS
<1>10. /\ AlreadyTaken(lines, prior) = {} /\ records' = Written(lines, prior, txn)
       /\ matched' = matched \cup {q.link[l].txn : l \in lines}
       /\ UNCHANGED <<txns, journal, reasked, raced, left>>
  BY <1>1, <1>7, <1>8, <1>9 DEF WriteLinks
<1>11. Wears /\ Txns' = Txns
  BY <1>10, WearsWhen DEF Txns
<1>12. CallFits(r)'
  <2>1. ApplyFits(q)'
    BY <1>2, <1>11, ApplyStays
  <2>2. AllMatched(q.link)'
    BY <1>7, <1>10 DEF AllMatched
  <2>3. r = s => CallFits(r)'
    BY <1>5, <2>1, <2>2 DEF CallFits, ApplyFits, Opening
  <2>4. r = Idle => CallFits(r)'
    BY DEF CallFits, Idle, Applies, Opening
  <2> QED BY <1>6, <2>3, <2>4
<1>13. PICK g : g = [l \in {m \in lines : prior[m] = 0 \/ m \in DOMAIN records} |-> txn[l]]
  OBVIOUS
<1>14. records' = Overlay(records, g)
  BY <1>10, <1>13 DEF Written
<1>15. \A l \in lines : l \in DOMAIN records => l \in reasked
  BY <1>2, <1>7, <1>8, <1>10 DEF AlreadyTaken, CallKnows, Asks
<1>16. ASSUME NEW t \in Txns, Clean(t)', Registered(t)
       PROVE  Registered(t)'
  <2>1. txns[t].line \notin DOMAIN g
    BY <1>10, <1>13, <1>15, <1>16 DEF Clean, Registered
  <2> QED BY <1>10, <1>14, <1>16, <2>1 DEF Registered, Overlay
<1>17. RecordsFit'
  <2>1. \A l \in DOMAIN g : g[l] \in matched'
    BY <1>9, <1>10, <1>13
  <2> QED BY <1>10, <1>14, <2>1 DEF RowsInv, RecordsFit, Overlay, Fits
<1>18. \A i \in Entries' : EntryFits(journal[i])'
  BY <1>10, <1>11, JournalStays
<1>19. r.pc \in Applies => DOMAIN r.create \subseteq DOMAIN q.create
  BY <1>5, <1>6 DEF Idle, Applies
<1> QED BY <1>1, <1>2, <1>6, <1>11, <1>12, <1>16, <1>17, <1>18, <1>19, RowsCallStep

\* The other calls fit when the new rows are none they may still create, or are raced for.
LEMMA OthersFit ==
    ASSUME IngestInv, RowsInv, Wears, NEW c \in Client, NEW r, Goto(c, r), CallFits(r)',
           \A d \in Client \ {c} : \A t \in Txns' \ Txns :
             calls[d].pc \in Opening /\ Clean(t)' /\ txns'[t].line \in DOMAIN calls[d].create =>
               txns'[t].line \in raced'
    PROVE  /\ calls'[c] = r /\ \A d \in Client \ {c} : calls'[d] = calls[d]
           /\ \A d \in Client : CallFits(calls[d])'
<1>1. calls'[c] = r /\ \A d \in Client \ {c} : calls'[d] = calls[d]
  BY TypeParts DEF IngestInv, Goto, CallsTyped
<1>2. ASSUME NEW d \in Client \ {c}
      PROVE  CallFits(calls[d])'
  <2>1. PICK q : q = calls[d] /\ q = calls'[d]
    BY <1>1
  <2>2. CallTyped(q) /\ CallFits(q)
    BY <2>1, TypeParts DEF IngestInv, CallsTyped, RowsInv
  <2>3. CallFits(q)'
    BY <2>1, <2>2, CallFitsStays
  <2> QED BY <2>1, <2>3 DEF CallFits, ApplyFits, Open
<1>3. CallFits(calls[c])'
  BY <1>1 DEF CallFits, ApplyFits, Open
<1> QED BY <1>1, <1>2, <1>3

LEMMA RowsAppended ==
    ASSUME NEW S, NEW s \in Seq(S), NEW t \in Seq(S), NEW u, u = s \o t
    PROVE  /\ Len(s) \in Nat /\ u \in Seq(S) /\ Len(u) = Len(s) + Len(t)
           /\ \A i \in 1 .. Len(s) : u[i] = s[i]
           /\ \A i \in Len(s) + 1 .. Len(s) + Len(t) : u[i] = t[i - Len(s)]
OBVIOUS

\* The rows of a batch are new, of distinct lines that the call was to create.
LEMMA BatchRows ==
    ASSUME IngestInv, NEW c \in Client, NEW b \in Batches(DOMAIN calls[c].create), BatchCreate(c, b)
    PROVE  /\ Txns \subseteq Txns' /\ \A t \in Txns : txns'[t] = txns[t]
           /\ \A t \in Txns' \ Txns : txns'[t].line \in DOMAIN calls[c].create
           /\ \A t \in Txns' \ Txns : \A u \in Txns' \ Txns : txns'[t].line = txns'[u].line => t = u
<1>1. PICK rows : rows = [i \in DOMAIN b |-> [line |-> b[i], live |-> TRUE, edited |-> FALSE]]
  OBVIOUS
<1>2. Apply(calls[c]) /\ txns \in Seq(Row) /\ DOMAIN calls[c].create \subseteq Line
  BY ApplyKnows DEF BatchCreate, At, Applies, IngestInv, TypeOK, Apply, Partial
<1>3. PICK n \in 1 .. MaxTxns : b \in [1 .. n -> DOMAIN calls[c].create]
  BY DEF Batches
<1>4. n \in Nat /\ DOMAIN b = 1 .. n /\ \A i \in 1 .. n : b[i] \in DOMAIN calls[c].create
  BY <1>3, IngestAssumption
<1>5. /\ rows \in Seq(Row) /\ Len(rows) = n
      /\ \A i \in 1 .. n : rows[i] = [line |-> b[i], live |-> TRUE, edited |-> FALSE]
  BY <1>1, <1>2, <1>4 DEF Row
<1>6. /\ Len(txns') = Len(txns) + n /\ Txns' = 1 .. Len(txns) + n /\ Txns = 1 .. Len(txns) /\ Len(txns) \in Nat
      /\ \A t \in Txns : txns'[t] = txns[t]
      /\ \A t \in Txns' \ Txns : t - Len(txns) \in 1 .. n /\ txns'[t] = rows[t - Len(txns)]
  <2>1. txns' = txns \o rows
    BY <1>1 DEF BatchCreate
  <2>2. /\ Len(txns) \in Nat /\ txns' \in Seq(Row) /\ Len(txns') = Len(txns) + n
        /\ \A t \in 1 .. Len(txns) : txns'[t] = txns[t]
        /\ \A t \in Len(txns) + 1 .. Len(txns) + n : txns'[t] = rows[t - Len(txns)]
    <3>1. txns \in Seq(Row) /\ rows \in Seq(Row) /\ Len(rows) = n
      BY <1>2, <1>5
    <3>2. PICK xs : xs = txns
      OBVIOUS
    <3>3. PICK ts : ts = txns' /\ ts = xs \o rows
      BY <2>1, <3>2
    <3>4. /\ Len(xs) \in Nat /\ ts \in Seq(Row) /\ Len(ts) = Len(xs) + Len(rows)
          /\ \A t \in 1 .. Len(xs) : ts[t] = xs[t]
          /\ \A t \in Len(xs) + 1 .. Len(xs) + Len(rows) : ts[t] = rows[t - Len(xs)]
      <4>1. xs \in Seq(Row) /\ rows \in Seq(Row) /\ ts = xs \o rows
        BY <3>1, <3>2, <3>3
      <4> QED BY <4>1, RowsAppended
    <3> QED BY <3>1, <3>2, <3>3, <3>4
  <2>3. Txns = 1 .. Len(txns) /\ Txns' = 1 .. Len(txns) + n
    BY <1>2, <2>2 DEF Txns
  <2>4. \A t \in Txns' \ Txns : t \in Len(txns) + 1 .. Len(txns) + n /\ t - Len(txns) \in 1 .. n
    BY <1>4, <2>2, <2>3
  <2> QED BY <2>2, <2>3, <2>4
<1>7. \A t \in Txns' \ Txns : txns'[t].line = b[t - Len(txns)]
  BY <1>5, <1>6
<1>8. \A i \in 1 .. n : \A j \in 1 .. n : b[i] = b[j] => i = j
  <2>1. \A i, j \in 1 .. n : i < j /\ b[i][1] = b[j][1] => b[i][2] < b[j][2]
    BY <1>4 DEF Batches
  <2>2. \A i \in 1 .. n : b[i][2] \in Nat
    BY <1>2, <1>4, IngestAssumption DEF Line
  <2> QED BY <1>4, <2>1, <2>2
<1>9. \A t \in Txns' \ Txns : \A u \in Txns' \ Txns : txns'[t].line = txns'[u].line => t = u
  BY <1>6, <1>7, <1>8
<1>10. Txns \subseteq Txns' /\ \A t \in Txns : txns'[t] = txns[t]
  BY <1>4, <1>6
<1>11. \A t \in Txns' \ Txns : txns'[t].line \in DOMAIN calls[c].create
  BY <1>4, <1>6, <1>7
<1> QED BY ONLY <1>9, <1>10, <1>11

\* A batch: another row of a line comes only where two plans raced for it.
LEMMA BatchCreateRows ==
    ASSUME IngestInv, RowsInv, NEW c \in Client, NEW b \in Batches(DOMAIN calls[c].create), BatchCreate(c, b)
    PROVE  RowsInv'
<1>1. PICK q : q = calls[c]
  OBVIOUS
<1>2. PICK r : r = [q EXCEPT !.pc = "record", !.batch = Txns' \ Txns]
  OBVIOUS
<1>3. Goto(c, r) /\ UNCHANGED <<records, journal, reasked, raced, left, matched>>
  BY <1>1, <1>2 DEF BatchCreate, Txns
<1>4. /\ Apply(q) /\ CallFits(q) /\ ApplyFits(q) /\ q.pc = "create" /\ q.pc \in Applies /\ q.pc \in Opening
      /\ q.batch = {} /\ DOMAIN q.create \subseteq Line
  BY <1>1, ApplyRows DEF BatchCreate, At, Applies, Opening, CallFits, Apply, Partial
<1>5. /\ r.pc = "record" /\ r.pc \in Applies /\ r.batch = Txns' \ Txns /\ r.create = q.create /\ r.link = q.link
      /\ r.created = q.created /\ r.linked = q.linked
  BY <1>2, <1>4 DEF Apply, Applies
<1>6. /\ Txns \subseteq Txns' /\ \A t \in Txns : txns'[t] = txns[t]
      /\ \A t \in Txns' \ Txns : txns'[t].line \in DOMAIN q.create
      /\ \A t \in Txns' \ Txns : \A u \in Txns' \ Txns : txns'[t].line = txns'[u].line => t = u
  BY <1>1, BatchRows
<1>7. Wears
  BY <1>3, <1>6, WearsWhen
<1>8. \A t \in Txns : Clean(t)' /\ txns'[t].line \in DOMAIN q.create => txns'[t].line \in raced'
  BY <1>3, <1>4, <1>6, <1>7 DEF Wears, CallFits, Open
<1>9. CallFits(r)'
  <2>1. ApplyFits(r)'
    <3>1. ApplyFits(q)'
      BY <1>4, <1>7, ApplyStays
    <3> QED BY <1>5, <3>1 DEF ApplyFits
  <2>2. \A t \in Txns' : Clean(t)' /\ txns'[t].line \in Open(r)' => txns'[t].line \in raced'
    BY <1>5, <1>8 DEF Open
  <2>3. \A t \in r.batch : \A u \in r.batch : txns'[t].line = txns'[u].line => t = u
    BY <1>5, <1>6
  <2> QED BY <1>5, <2>1, <2>2, <2>3 DEF CallFits
<1>10. \A d \in Client \ {c} : \A t \in Txns' \ Txns :
         calls[d].pc \in Opening /\ Clean(t)' /\ txns'[t].line \in DOMAIN calls[d].create => txns'[t].line \in raced'
  BY <1>1, <1>3, <1>4, <1>6 DEF RowsInv, PlansRace, Opening, Applies
<1>11. /\ calls'[c] = r /\ \A d \in Client \ {c} : calls'[d] = calls[d]
       /\ \A d \in Client : CallFits(calls[d])'
  BY <1>3, <1>7, <1>9, <1>10, OthersFit
<1>12. RecordsFit' /\ \A i \in Entries' : EntryFits(journal[i])'
  BY <1>3, <1>7, RecordsStay, JournalStays
<1>13. PlansRace'
  <2>1. \A d \in Client : calls'[d].pc \in Applies => calls[d].pc \in Applies /\ calls'[d].create = calls[d].create
    BY <1>1, <1>4, <1>5, <1>11
  <2> QED BY <1>3, <2>1 DEF PlansRace, RowsInv
<1>14. RowsFound'
  <2>1. ASSUME NEW t \in Txns, Clean(t)'
        PROVE  Registered(t)' \/ t \in left' \/ Held(t)'
    <3>1. Registered(t) \/ t \in left \/ Held(t)
      BY <1>7, <2>1 DEF RowsInv, RowsFound, Wears
    <3>2. Registered(t) => Registered(t)'
      BY <1>3, <1>6 DEF Registered
    <3>3. ASSUME Held(t) PROVE Held(t)'
      <4>1. PICK d \in Client : calls[d].pc \in Applies /\ t \in calls[d].batch
        BY <3>3 DEF Held
      <4>2. d # c
        BY <1>1, <1>4, <4>1
      <4> QED BY <1>11, <4>1, <4>2 DEF Held
    <3> QED BY <1>3, <3>1, <3>2, <3>3
  <2>2. \A t \in Txns' \ Txns : Held(t)'
    BY <1>5, <1>11 DEF Held
  <2> QED BY <2>1, <2>2 DEF RowsFound
<1>15. TwinsRaced'
  <2>1. ASSUME NEW t \in Txns', NEW u \in Txns', Clean(t)', Clean(u)', t # u, txns'[t].line = txns'[u].line
        PROVE  txns'[t].line \in raced'
    <3>1. CASE t \in Txns /\ u \in Txns
      BY <1>7, <2>1, <3>1 DEF TwinsRaced, RowsInv, Wears
    <3>2. CASE t \notin Txns \/ u \notin Txns
      BY <1>6, <1>8, <2>1, <3>2
    <3> QED BY <3>1, <3>2
  <2> QED BY <2>1 DEF TwinsRaced
<1> QED BY <1>11, <1>12, <1>13, <1>14, <1>15 DEF RowsInv

\* A plan creates a line only when no clean row of it is there, for the row would be a
\* candidate unless a record points at it; and its prior transactions are its lines'.
LEMMA PlanRows ==
    ASSUME IngestInv, RowsInv, NEW c \in Client, NEW X \in SUBSET Line, NEW reimport \in BOOLEAN,
           NEW M, NEW accepted \in [M -> Txns], Plan(c, X, reimport, accepted)
    PROVE  RowsInv'
<1>1. PICK create : create = Create(X, reimport, accepted)
  OBVIOUS
<1>2. PICK link : link = Link(X, reimport, accepted)
  OBVIOUS
<1>3. PICK r : r = [pc |-> "lock", create |-> create, link |-> link,
                    batch |-> {}, created |-> <<>>, linked |-> <<>>]
  OBVIOUS
<1>4. /\ First(c) /\ Goto(c, r) /\ UNCHANGED <<folder, txns, records, journal, left, matched>>
      /\ reasked' = reasked \cup (IF reimport THEN (DOMAIN create \cup DOMAIN link) \cap DOMAIN records ELSE {})
      /\ raced' = raced \cup {l \in DOMAIN create : \E d \in Client : Applying(d) /\ l \in DOMAIN calls[d].create}
  BY <1>1, <1>2, <1>3 DEF Plan
<1>5. /\ r.pc = "lock" /\ r.pc \in Applies /\ r.create = create /\ r.link = link /\ r.batch = {}
      /\ r.created = <<>> /\ r.linked = <<>>
  BY <1>3 DEF Applies
<1>6. calls[c].pc \notin Applies
  BY <1>4 DEF First, At, Applies
<1>7. Wears /\ Txns' = Txns
  BY <1>4, WearsWhen DEF Txns
<1>8. txns \in Seq(Row) /\ 0 \notin Txns
  BY DEF IngestInv, TypeOK, Txns
<1>9. \A l, p : p = Prior(l) => Fits(p, l)'
  BY <1>4, <1>7 DEF Fits, Prior, RowsInv, RecordsFit
<1>10. \A l \in DOMAIN create : create[l] = Prior(l) /\ l \in New(X) \cup Gone(X, reimport) /\ Candidates(l, X) = {}
  BY <1>1 DEF Create
<1>11. \A l \in DOMAIN link : link[l].prior = Prior(l)
  BY <1>2 DEF Link
<1>12. ASSUME NEW t \in Txns, Clean(t)', txns[t].line \in DOMAIN create
       PROVE  FALSE
  <2>1. PICK l \in DOMAIN create : l = txns[t].line
    BY <1>12
  <2>2. Live(t) /\ ~txns[t].edited /\ t \notin matched /\ l \notin reasked'
    BY <1>4, <1>12, <2>1 DEF Clean, Live
  <2>3. l \notin DOMAIN records
    BY <1>4, <1>10, <2>1, <2>2 DEF New, Gone
  <2>4. l \in New(X)
    BY <1>10, <2>3 DEF Gone
  <2>5. t \notin Recorded
    BY <1>8, <2>1, <2>2, <2>3 DEF Recorded, RowsInv, RecordsFit, Fits
  <2>6. t \in Candidates(l, X)
    BY <2>1, <2>2, <2>4, <2>5 DEF Candidates
  <2> QED BY <1>10, <2>6
<1>13. CallFits(r)'
  <2>1. (\A l \in DOMAIN r.create : Fits(r.create[l], l)') /\ PriorsFit(r.link)'
    BY <1>5, <1>9, <1>10, <1>11 DEF PriorsFit
  <2>3. PriorsFit(<<>>)' /\ AllMatched(<<>>)'
    BY DEF PriorsFit, AllMatched
  <2>4. ApplyFits(r)'
    BY <1>5, <2>1, <2>3 DEF ApplyFits
  <2>2. \A t \in Txns' : Clean(t)' /\ txns'[t].line \in Open(r)' => txns'[t].line \in raced'
    BY <1>4, <1>5, <1>7, <1>12 DEF Open
  <2> QED BY <1>5, <2>2, <2>4 DEF CallFits
<1>14. /\ calls'[c] = r /\ \A d \in Client \ {c} : calls'[d] = calls[d]
       /\ \A d \in Client : CallFits(calls[d])'
  BY <1>4, <1>7, <1>13, OthersFit
<1>15. RecordsFit' /\ \A i \in Entries' : EntryFits(journal[i])'
  BY <1>4, <1>7, RecordsStay, JournalStays
<1>16. PlansRace'
  <2>1. \A d \in Client : calls[d].pc \in Applies => Applying(d)
    BY DEF Applying, Applies
  <2>2. \A d \in Client \ {c} : \A l \in DOMAIN create :
          calls'[d].pc \in Applies /\ l \in DOMAIN calls'[d].create => l \in raced'
    BY <1>4, <1>14, <2>1
  <2>3. ASSUME NEW d \in Client, NEW e \in Client \ {d}, NEW l \in Line,
               calls'[d].pc \in Applies, l \in DOMAIN calls'[d].create,
               calls'[e].pc \in Applies, l \in DOMAIN calls'[e].create
        PROVE  l \in raced'
    <3>1. CASE d = c \/ e = c
      BY <1>5, <1>14, <2>2, <2>3, <3>1
    <3>2. CASE d # c /\ e # c
      BY <1>4, <1>14, <2>3, <3>2 DEF RowsInv, PlansRace
    <3> QED BY <3>1, <3>2
  <2> QED BY <2>3 DEF PlansRace
<1>17. RowsFound'
  <2>1. \A t \in Txns : Held(t) => Held(t)'
    BY <1>6, <1>14 DEF Held
  <2>2. \A t \in Txns : Registered(t) => Registered(t)'
    BY <1>4 DEF Registered
  <2> QED BY <1>4, <1>7, <2>1, <2>2 DEF RowsFound, RowsInv, Wears
<1>18. TwinsRaced'
  BY <1>7 DEF TwinsRaced, RowsInv, Wears
<1> QED BY <1>14, <1>15, <1>16, <1>17, <1>18 DEF RowsInv

\* A crash takes all calls away; the rows of their batches are left.
LEMMA CrashRows ==
    ASSUME IngestInv, RowsInv, Crash
    PROVE  RowsInv'
<1>1. /\ UNCHANGED <<txns, records, journal, reasked, raced, matched>>
      /\ left' = left \cup UNION {calls[c].batch : c \in {d \in Client : Applying(d)}}
      /\ \A c \in Client : calls'[c] = Idle
  BY DEF Crash
<1>2. Wears /\ Txns' = Txns
  BY <1>1, WearsWhen DEF Txns
<1>3. \A c \in Client : calls'[c].pc \notin Applies /\ calls'[c].pc \notin Opening
  BY <1>1 DEF Idle, Applies, Opening
<1>4. \A c \in Client : CallFits(calls[c])'
  BY <1>1 DEF CallFits, Idle, Applies, Opening
<1>5. RecordsFit' /\ \A i \in Entries' : EntryFits(journal[i])'
  BY <1>1, <1>2, RecordsStay, JournalStays
<1>6. PlansRace'
  BY <1>3 DEF PlansRace
<1>7. RowsFound'
  <2>1. \A t \in Txns : Held(t) => t \in left'
    BY <1>1 DEF Held, Applying, Applies
  <2>2. \A t \in Txns : Registered(t) => Registered(t)'
    BY <1>1 DEF Registered
  <2> QED BY <1>1, <1>2, <2>1, <2>2 DEF RowsFound, RowsInv, Wears
<1>8. TwinsRaced'
  BY <1>2 DEF TwinsRaced, RowsInv, Wears
<1> QED BY <1>4, <1>5, <1>6, <1>7, <1>8 DEF RowsInv

\* A step that no call takes brings no clean row.
LEMMA RowsAside ==
    ASSUME IngestInv, RowsInv, Wears, \A t \in Txns' \ Txns : ~Clean(t)',
           UNCHANGED <<records, journal, calls, reasked, raced, left, matched>>
    PROVE  RowsInv'
<1>1. ASSUME NEW c \in Client
      PROVE  CallFits(calls[c])'
  <2>1. PICK q : q = calls[c] /\ q = calls'[c]
    OBVIOUS
  <2>2. CallTyped(q) /\ CallFits(q)
    BY <2>1, TypeParts DEF IngestInv, CallsTyped, RowsInv
  <2>3. CallFits(q)'
    BY <2>2, CallFitsStays
  <2> QED BY <2>1, <2>3 DEF CallFits, ApplyFits, Open
<1>2. RecordsFit' /\ \A i \in Entries' : EntryFits(journal[i])'
  BY RecordsStay, JournalStays
<1>3. PlansRace'
  BY DEF PlansRace, RowsInv
<1>4. RowsFound'
  BY DEF RowsFound, RowsInv, Wears, Registered, Held
<1>5. TwinsRaced'
  BY DEF TwinsRaced, RowsInv, Wears
<1> QED BY <1>1, <1>2, <1>3, <1>4, <1>5 DEF RowsInv

\* The operator's work: a row entered by hand is of no line, and what is edited or deleted
\* is no longer clean.
LEMMA EnterByHandRows ==
    ASSUME IngestInv, RowsInv, NEW k \in Typed, EnterByHand(k)
    PROVE  RowsInv'
<1>1. PICK row : row = [line |-> ByHand(k), live |-> TRUE, edited |-> FALSE]
  OBVIOUS
<1>2. txns \in Seq(Row) /\ txns' = Append(txns, row)
  BY <1>1 DEF IngestInv, TypeOK, EnterByHand
<1>3. /\ Txns \subseteq Txns' /\ \A t \in Txns : txns'[t] = txns[t]
      /\ \A t \in Txns' \ Txns : txns'[t] = row
  BY <1>2 DEF Txns
<1>4. row.line \notin Line
  BY <1>1, IngestAssumption DEF ByHand, Line
<1>5. \A t \in Txns' \ Txns : ~Clean(t)'
  BY <1>3, <1>4 DEF Clean
<1>6. UNCHANGED <<records, journal, calls, reasked, raced, left, matched>>
  BY DEF EnterByHand
<1>7. Wears
  BY <1>3, <1>6, WearsWhen
<1> QED BY <1>5, <1>6, <1>7, RowsAside

LEMMA EditByHandRows ==
    ASSUME IngestInv, RowsInv, NEW t \in Txns, EditByHand(t)
    PROVE  RowsInv'
<1>1. txns \in Seq(Row) /\ txns[t] \in Row
  BY DEF IngestInv, TypeOK, Txns
<1>2. PICK row : row = [txns[t] EXCEPT !.edited = TRUE]
  OBVIOUS
<1>3. row.line = txns[t].line /\ row.live = txns[t].live /\ row.edited
  BY <1>1, <1>2 DEF Row
<1>4. txns' = [txns EXCEPT ![t] = row]
  BY <1>2 DEF EditByHand
<1>5. Txns' = Txns /\ txns'[t] = row /\ \A u \in Txns \ {t} : txns'[u] = txns[u]
  BY <1>1, <1>4 DEF Txns
<1>6. UNCHANGED <<records, journal, calls, reasked, raced, left, matched>>
  BY DEF EditByHand
<1>7. Wears
  BY <1>3, <1>5, <1>6, WearsWhen
<1> QED BY <1>5, <1>6, <1>7, RowsAside

LEMMA DeleteByHandRows ==
    ASSUME IngestInv, RowsInv, NEW t \in Txns, DeleteByHand(t)
    PROVE  RowsInv'
<1>1. Wears /\ Txns' = Txns
  BY DeletedWears DEF DeleteByHand
<1> QED BY <1>1, RowsAside DEF DeleteByHand

LEMMA RowsInit ==
    ASSUME Init
    PROVE  RowsInv
<1>1. Txns = {} /\ Entries = {} /\ DOMAIN records = {}
  BY DEF Init, Txns, Entries
<1>2. \A c \in Client : calls[c] = Idle /\ Idle.pc \notin Applies
  BY DEF Init, Idle, Applies
<1>3. \A c \in Client : CallFits(calls[c])
  BY <1>2, NoApplyFits
<1> QED BY <1>1, <1>2, <1>3 DEF RowsInv, RecordsFit, PlansRace, RowsFound, TwinsRaced

LEMMA CallsRows ==
    ASSUME IngestInv, RowsInv, NEW c \in Client, Step(c)
    PROVE  RowsInv'
<1>1. ASSUME NEW b \in Batches(DOMAIN calls[c].create), BatchCreate(c, b) PROVE RowsInv'
  BY <1>1, BatchCreateRows
<1>2. CASE WriteRecords(c) \/ WriteRecordsFails(c) \/ TakeBack(c) \/ WriteLinks(c)
  BY <1>2, WriteRecordsRows, WriteRecordsFailsRows, TakeBackRows, WriteLinksRows
<1>3. CASE ApplyFails(c) \/ RecordJournal(c) \/ RecordJournalFails(c)
  BY <1>3, ApplyFailsRows, RecordJournalRows, QuietCallsRows
<1>4. CASE CompareRows(c) \/ DeleteRow(c) \/ DropRecords(c) \/ RelinkRecords(c)
  BY <1>4, QuietCallsRows, DeleteRowRows, DropRecordsRows, RelinkRecordsRows
<1>5. CASE MarkUndone(c) \/ UndoFails(c)
  BY <1>5, MarkUndoneRows, QuietCallsRows
<1> QED BY <1>1, <1>2, <1>3, <1>4, <1>5 DEF Step

LEMMA RowsNext ==
    ASSUME IngestInv, RowsInv, [Next]_vars
    PROVE  RowsInv'
<1>1. ASSUME NEW c \in Client, NEW P \in Preference, NEW reimport \in BOOLEAN,
             NEW M \in SUBSET LinesOf(folder, P),
             NEW accepted \in [M -> {t \in Txns : Live(t) /\ Stray(t)}],
             Plan(c, LinesOf(folder, P), reimport, accepted)
      PROVE  RowsInv'
  BY <1>1, RequestsAreTyped, PlanRows
<1>2. ASSUME NEW c \in Client, Lock(c) \/ BeginUndo(c) \/ Step(c)
      PROVE  RowsInv'
  BY <1>2, LockRows, QuietCallsRows, CallsRows
<1>3. CASE (\E F \in Folders : Download(F)) \/ UNCHANGED vars
  <2>1. UNCHANGED <<txns, records, journal, calls, reasked, raced, left, matched>>
    BY <1>3 DEF Download, vars
  <2>2. Wears /\ Txns' = Txns
    BY <2>1, WearsWhen DEF Txns
  <2> QED BY <2>1, <2>2, RowsAside
<1>4. ASSUME NEW k \in Typed, EnterByHand(k)
      PROVE  RowsInv'
  BY <1>4, EnterByHandRows
<1>5. ASSUME NEW t \in Txns, EditByHand(t) \/ DeleteByHand(t)
      PROVE  RowsInv'
  BY <1>5, EditByHandRows, DeleteByHandRows
<1>6. CASE Crash
  BY <1>6, CrashRows
<1> QED BY <1>1, <1>2, <1>3, <1>4, <1>5, <1>6 DEF Next

\* Of two settled rows of one line, neither left by a failure, both would be the row of
\* the line's one record.
LEMMA OneRow ==
    ASSUME IngestInv, RowsInv
    PROVE  OneRowPerLine
<1>1. SUFFICES ASSUME NEW l \in Line \ reasked, NEW t \in RowsOf(l), NEW u \in RowsOf(l), t # u,
                      \A s \in {t, u} : ~txns[s].edited /\ s \notin matched
               PROVE  l \in raced /\ (t \in left \/ u \in left)
  BY DEF OneRowPerLine
<1>2. /\ t \in Txns /\ u \in Txns /\ txns[t].line = l /\ txns[u].line = l
      /\ Clean(t) /\ Clean(u) /\ Settled(t) /\ Settled(u)
  BY <1>1 DEF RowsOf, Clean
<1>3. l \in raced
  BY <1>1, <1>2 DEF RowsInv, TwinsRaced
<1>4. ~Held(t) /\ ~Held(u)
  BY <1>2 DEF Settled, Held, Applying, Applies
<1>5. ~(Registered(t) /\ Registered(u))
  BY <1>1, <1>2 DEF Registered
<1> QED BY <1>2, <1>3, <1>4, <1>5 DEF RowsInv, RowsFound

\* However applies and undos overlap, fail or crash, and whatever the operator does in the
\* browser, a line that nobody asked for again has one live transaction, unless a row was
\* edited or linked by hand or a race was lost and the take-back failed as well
\* (ingApplyChanges, ingWriteRecords, ingUndoImport).
THEOREM IngestCreatesOneRow == Spec => []OneRowPerLine
<1>1. Init => RowsInv
  BY RowsInit
<1>2. IngestInv /\ RowsInv /\ [Next]_vars => RowsInv'
  BY RowsNext
<1>3. IngestInv /\ RowsInv => OneRowPerLine
  BY OneRow
<1> QED BY <1>1, <1>2, <1>3, IngestIsInductive, PTL DEF Spec

-----------------------------------------------------------------------------
(* The refinement: what each step does to the register *)

Stands == {"absent", "present", "deleted"}

\* Standing, line by line.
LEMMA StandingIs ==
    /\ Standing \in [Line -> Stands]
    /\ \A l \in Line : /\ l \notin DOMAIN records <=> Standing[l] = "absent"
                       /\ l \in DOMAIN records /\ Live(records[l]) <=> Standing[l] = "present"
                       /\ l \in DOMAIN records /\ ~Live(records[l]) <=> Standing[l] = "deleted"
BY DEF Standing, Stands

\* Rows that no record points at may come and change.
LEMMA SameStanding ==
    ASSUME IngestInv, UNCHANGED records, \A t \in Txns : txns'[t].live = txns[t].live
    PROVE  UNCHANGED Standing
<1>1. \A l \in DOMAIN records : records[l] \in Txns
  BY DEF IngestInv, TypeOK, Partial
<1> QED BY <1>1 DEF Standing, Live

\* A row is deleted with the lines that its records stand for.
LEMMA DeletesLines ==
    ASSUME IngestInv, NEW t \in Txns, txns' = Deleted(t), UNCHANGED <<records, journal, reasked>>
    PROVE  \E L \in SUBSET Line : Register!Delete(L)
<1>1. /\ ~txns'[t].live /\ \A u \in Txns \ {t} : txns'[u] = txns[u]
  BY DeletedRow
<1>2. PICK L : L = {l \in Line : l \in DOMAIN records /\ records[l] = t /\ Live(t)}
  OBVIOUS
<1>3. \A l \in DOMAIN records : records[l] \in Txns
  BY DEF IngestInv, TypeOK, Partial
<1>4. \A l \in L : Standing[l] = "present"
  BY <1>2 DEF Standing
<1>5. Standing' = [l \in Line |-> IF l \in L THEN "deleted" ELSE Standing[l]]
  BY <1>1, <1>2, <1>3 DEF Standing, Live
<1> QED BY <1>2, <1>4, <1>5 DEF Register!Delete

\* Records that are written for lines that are new, or were asked for, register them.
LEMMA RegistersLines ==
    ASSUME IngestInv, NEW f, records' = Overlay(records, f), UNCHANGED <<txns, reasked>>,
           DOMAIN f \subseteq Line, \A l \in DOMAIN f : l \notin DOMAIN records \/ l \in reasked
    PROVE  \E L \in SUBSET Line : Register!Register(L)
<1>1. /\ DOMAIN records' = DOMAIN records \cup DOMAIN f
      /\ \A l \in DOMAIN records \ DOMAIN f : records'[l] = records[l]
  BY DEF Overlay
<1>2. \A l \in DOMAIN f : Standing[l] = "absent" \/ l \in reasked
  BY StandingIs
<1>3. Standing' \in [Line -> {"absent", "present", "deleted"}]
  BY DEF Standing
<1>4. \A l \in Line : IF l \in DOMAIN f THEN Standing'[l] # "absent" ELSE Standing'[l] = Standing[l]
  <2>1. ASSUME NEW l \in DOMAIN f PROVE Standing'[l] # "absent"
    BY <1>1 DEF Standing
  <2>2. ASSUME NEW l \in Line, l \notin DOMAIN f PROVE Standing'[l] = Standing[l]
    BY <1>1, <2>2 DEF Standing, Live
  <2> QED BY <2>1, <2>2
<1>5. Register!Register(DOMAIN f)
  BY <1>2, <1>3, <1>4 DEF Register!Register
<1> QED BY <1>5

\* What an apply writes.
LEMMA WrittenRegisters ==
    ASSUME IngestInv, NEW lines \in SUBSET Line, NEW prior, NEW txn,
           records' = Written(lines, prior, txn), UNCHANGED <<txns, reasked>>,
           AlreadyTaken(lines, prior) = {}, \A l \in lines : prior[l] # 0 => l \in reasked
    PROVE  \E L \in SUBSET Line : Register!Register(L)
<1>1. PICK f : f = [l \in {m \in lines : prior[m] = 0 \/ m \in DOMAIN records} |-> txn[l]]
  OBVIOUS
<1>2. records' = Overlay(records, f) /\ DOMAIN f \subseteq lines
  BY <1>1 DEF Written
<1>3. \A l \in DOMAIN f : l \notin DOMAIN records \/ l \in reasked
  BY <1>2 DEF AlreadyTaken
<1> QED BY <1>2, <1>3, RegistersLines

LEMMA WriteRecordsRegisters ==
    ASSUME IngestInv, NEW c \in Client, WriteRecords(c)
    PROVE  \E L \in SUBSET Line : Register!Register(L)
<1>1. PICK lines : lines = {txns[t].line : t \in calls[c].batch}
  OBVIOUS
<1>2. PICK txn : txn = [l \in lines |-> CHOOSE t \in calls[c].batch : txns[t].line = l]
  OBVIOUS
<1>3. CallKnows(calls[c], txns, journal, reasked) /\ lines \subseteq DOMAIN calls[c].create /\ lines \subseteq Line
  BY <1>1, BatchLines DEF WriteRecords
<1>4. \A l \in lines : calls[c].create[l] # 0 => l \in reasked
  BY <1>3 DEF CallKnows, WriteRecords, At, Applies
<1>5. AlreadyTaken(lines, calls[c].create) = {} /\ records' = Written(lines, calls[c].create, txn)
  BY <1>1, <1>2 DEF WriteRecords
<1> QED BY <1>3, <1>4, <1>5, WrittenRegisters DEF WriteRecords

LEMMA WriteLinksRegisters ==
    ASSUME IngestInv, NEW c \in Client, WriteLinks(c)
    PROVE  \E L \in SUBSET Line : Register!Register(L)
<1>1. PICK lines : lines = DOMAIN calls[c].link
  OBVIOUS
<1>2. PICK prior : prior = [l \in lines |-> calls[c].link[l].prior]
  OBVIOUS
<1>3. Apply(calls[c]) /\ CallKnows(calls[c], txns, journal, reasked)
  BY ApplyKnows DEF WriteLinks, At, Applies
<1>4. lines \subseteq Line
  BY <1>1, <1>3 DEF Apply, Lines, Partial
<1>5. \A l \in lines : prior[l] # 0 => l \in reasked
  BY <1>1, <1>2, <1>3 DEF CallKnows, Asks, WriteLinks, At, Applies
<1>6. /\ AlreadyTaken(lines, prior) = {}
      /\ records' = Written(lines, prior, [l \in lines |-> calls[c].link[l].txn])
  BY <1>1, <1>2 DEF WriteLinks
<1> QED BY <1>4, <1>5, <1>6, WrittenRegisters DEF WriteLinks

LEMMA DropRecordsWithdraws ==
    ASSUME IngestInv, NEW c \in Client, DropRecords(c)
    PROVE  \E L \in SUBSET Line : Register!Withdraw(L)
<1>1. PICK e : e = journal[calls[c].entry]
  OBVIOUS
<1>2. PICK L : L = {l \in StillOurs(e) : Wrote(e)[l].prior = 0}
  OBVIOUS
<1>3. L \subseteq DOMAIN records /\ DOMAIN records \subseteq Line
  BY <1>2 DEF StillOurs, IngestInv, TypeOK, Partial
<1>4. records' = Without(records, L) /\ UNCHANGED <<txns, reasked>>
  BY <1>1, <1>2 DEF DropRecords
<1>5. /\ DOMAIN records' = DOMAIN records \ L
      /\ \A l \in DOMAIN records \ L : records'[l] = records[l]
  BY <1>4 DEF Without
<1>6. Standing' = [l \in Line |-> IF l \in L THEN "absent" ELSE Standing[l]]
  BY <1>4, <1>5 DEF Standing, Live
<1>7. Register!Withdraw(L)
  BY <1>4, <1>6 DEF Register!Withdraw
<1> QED BY <1>3, <1>7

LEMMA RelinkRecordsRegisters ==
    ASSUME IngestInv, NEW c \in Client, RelinkRecords(c)
    PROVE  \E L \in SUBSET Line : Register!Register(L)
<1>1. PICK e : e = journal[calls[c].entry]
  OBVIOUS
<1>2. PICK f : f = [l \in {m \in StillOurs(e) : Wrote(e)[m].prior # 0} |-> Wrote(e)[l].prior]
  OBVIOUS
<1>3. Lines(Wrote(e)) /\ Asks(Wrote(e), reasked)
  BY <1>1, WroteKnows DEF RelinkRecords, At, Undoing
<1>4. DOMAIN f \subseteq Line /\ \A l \in DOMAIN f : l \in reasked
  BY <1>2, <1>3 DEF StillOurs, Lines, Partial, Asks
<1>5. records' = Overlay(records, f)
  BY <1>1, <1>2 DEF RelinkRecords
<1> QED BY <1>4, <1>5, RegistersLines DEF RelinkRecords

LEMMA PlanAsks ==
    ASSUME IngestInv, NEW c \in Client, NEW X \in SUBSET Line, NEW reimport \in BOOLEAN,
           NEW accepted, Plan(c, X, reimport, accepted)
    PROVE  \E L \in SUBSET Line : Register!Ask(L)
<1>1. PICK planned : planned = DOMAIN Create(X, reimport, accepted) \cup DOMAIN Link(X, reimport, accepted)
  OBVIOUS
<1>2. PICK L : L = IF reimport THEN planned \cap DOMAIN records ELSE {}
  OBVIOUS
<1>3. planned \subseteq New(X) \cup Gone(X, reimport)
  BY <1>1 DEF Create, Link
<1>4. L \subseteq Line /\ \A l \in L : l \in DOMAIN records /\ ~Live(records[l])
  BY <1>2, <1>3 DEF New, Gone
<1>5. \A l \in L : Standing[l] = "deleted"
  BY <1>4, StandingIs
<1>6. reasked' = reasked \cup L
  BY <1>1, <1>2 DEF Plan
<1>7. UNCHANGED Standing
  BY SameStanding DEF Plan
<1>8. Register!Ask(L)
  BY <1>5, <1>6, <1>7 DEF Register!Ask
<1> QED BY <1>4, <1>8

\* A batch adds rows that no record points at yet.
LEMMA BatchStands ==
    ASSUME IngestInv, NEW c \in Client, NEW b, BatchCreate(c, b)
    PROVE  UNCHANGED Standing
<1>1. \A l \in DOMAIN records : records[l] \in Txns
  BY DEF IngestInv, TypeOK, Partial
<1>2. \A t \in Txns : txns'[t] = txns[t]
  <2>1. PICK rows : txns' = txns \o rows
    BY DEF BatchCreate
  <2> QED BY <2>1 DEF IngestInv, TypeOK, Txns
<1>3. records' = records
  BY DEF BatchCreate
<1> QED BY <1>1, <1>2, <1>3 DEF Standing, Live

LEMMA ByHandStands ==
    ASSUME IngestInv, (\E k \in Typed : EnterByHand(k)) \/ (\E t \in Txns : EditByHand(t))
    PROVE  UNCHANGED <<Standing, reasked>>
<1>1. txns \in Seq(Row)
  BY DEF IngestInv, TypeOK
<1>2. ASSUME NEW k \in Typed, EnterByHand(k) PROVE UNCHANGED <<Standing, reasked>>
  <2>1. PICK row : txns' = Append(txns, row)
    BY <1>2 DEF EnterByHand
  <2>2. \A t \in Txns : txns'[t] = txns[t]
    BY <1>1, <2>1 DEF Txns
  <2> QED BY <1>2, <2>2, SameStanding DEF EnterByHand
<1>3. ASSUME NEW t \in Txns, EditByHand(t) PROVE UNCHANGED <<Standing, reasked>>
  <2>1. txns' = [txns EXCEPT ![t].edited = TRUE] /\ txns[t] \in Row
    BY <1>1, <1>3 DEF EditByHand, Txns
  <2>2. PICK row : row = [txns[t] EXCEPT !.edited = TRUE]
    OBVIOUS
  <2>3. row.live = txns[t].live /\ txns' = [txns EXCEPT ![t] = row]
    BY <2>1, <2>2 DEF Row
  <2>4. \A u \in Txns : txns'[u].live = txns[u].live
    BY <1>1, <2>3 DEF Txns
  <2> QED BY <1>3, <2>4, SameStanding DEF EditByHand
<1> QED BY <1>2, <1>3

\* The steps that say nothing to the register.
LEMMA SilentStep ==
    ASSUME IngestInv, UNCHANGED <<txns, records, reasked>>
    PROVE  UNCHANGED <<Standing, reasked>>
BY SameStanding

RegisterStep == Register!Next \/ UNCHANGED <<Standing, reasked>>

LEMMA CallsRegister ==
    ASSUME IngestInv, NEW c \in Client, Step(c)
    PROVE  RegisterStep
<1>1. ASSUME NEW b, BatchCreate(c, b) PROVE UNCHANGED <<Standing, reasked>>
  BY <1>1, BatchStands DEF BatchCreate
<1>2. CASE WriteRecords(c) \/ WriteLinks(c) \/ RelinkRecords(c)
  BY <1>2, WriteRecordsRegisters, WriteLinksRegisters, RelinkRecordsRegisters DEF RegisterStep, Register!Next
<1>3. CASE DropRecords(c)
  BY <1>3, DropRecordsWithdraws DEF RegisterStep, Register!Next
<1>4. CASE TakeBack(c)
  <2>1. CASE UNCHANGED txns
    BY <1>4, <2>1, SilentStep DEF TakeBack, RegisterStep
  <2>2. CASE txns' = Deleted(OneOf(calls[c].batch))
    <3>1. OneOf(calls[c].batch) \in Txns
      BY <1>4, ApplyKnows DEF TakeBack, At, Applies, OneOf, CallKnows, Apply
    <3> QED BY <1>4, <2>2, <3>1, DeletesLines DEF TakeBack, RegisterStep, Register!Next
  <2> QED BY <1>4, <2>1, <2>2 DEF TakeBack
<1>5. CASE DeleteRow(c)
  <2>1. OneOf(calls[c].todo) \in Txns
    BY <1>5, UndoKnows DEF DeleteRow, At, Undoing, OneOf, CallKnows, Undo
  <2> QED BY <1>5, <2>1, DeletesLines DEF DeleteRow, RegisterStep, Register!Next
<1>6. CASE WriteRecordsFails(c) \/ ApplyFails(c) \/ RecordJournal(c) \/ RecordJournalFails(c)
  BY <1>6, SilentStep DEF WriteRecordsFails, ApplyFails, RecordJournal, RecordJournalFails, RegisterStep
<1>7. CASE CompareRows(c) \/ MarkUndone(c) \/ UndoFails(c)
  BY <1>7, SilentStep DEF CompareRows, MarkUndone, UndoFails, RegisterStep
<1> QED BY <1>1, <1>2, <1>3, <1>4, <1>5, <1>6, <1>7 DEF Step, RegisterStep

LEMMA EveryStepRegisters ==
    ASSUME IngestInv, [Next]_vars
    PROVE  RegisterStep
<1>1. ASSUME NEW c \in Client, NEW P \in Preference, NEW reimport \in BOOLEAN, NEW accepted,
             Plan(c, LinesOf(folder, P), reimport, accepted)
      PROVE  RegisterStep
  <2>1. LinesOf(folder, P) \in SUBSET Line
    BY Zenon DEF LinesOf
  <2> QED BY <1>1, <2>1, PlanAsks DEF RegisterStep, Register!Next
<1>2. ASSUME NEW c \in Client, Lock(c) \/ BeginUndo(c) PROVE RegisterStep
  BY <1>2, SilentStep DEF Lock, BeginUndo, RegisterStep
<1>3. ASSUME NEW c \in Client, Step(c) PROVE RegisterStep
  BY <1>3, CallsRegister
<1>4. ASSUME NEW F \in Folders, Download(F) PROVE RegisterStep
  BY <1>4, SilentStep DEF Download, RegisterStep
<1>5. CASE (\E k \in Typed : EnterByHand(k)) \/ (\E t \in Txns : EditByHand(t))
  BY <1>5, ByHandStands DEF RegisterStep
<1>6. ASSUME NEW t \in Txns, DeleteByHand(t) PROVE RegisterStep
  BY <1>6, DeletesLines DEF DeleteByHand, RegisterStep, Register!Next
<1>7. CASE Crash \/ UNCHANGED vars
  BY <1>7, SilentStep DEF Crash, vars, RegisterStep
<1> QED BY <1>1, <1>2, <1>3, <1>4, <1>5, <1>6, <1>7 DEF Next

\* The pipeline implements the register: a line enters the books once, a deletion stands
\* until the operator asks for the line again, and only an undo makes a line new
\* (ingEvaluate, ingWriteRecords, ingRelinkRecords, ingUndoImport).
THEOREM IngestImplementsRegister == Spec => ImplementsRegister
<1>1. Init => Register!Init
  BY DEF Init, Register!Init, Standing
<1>2. IngestInv /\ [Next]_vars => [Register!Next]_<<Standing, reasked>>
  BY EveryStepRegisters DEF RegisterStep
<1>3. Spec => []IngestInv
  BY IngestIsInductive
<1> QED BY <1>1, <1>2, <1>3, PTL DEF Spec, ImplementsRegister, Register!Spec

-----------------------------------------------------------------------------
(* What the statements hold *)

\* The greatest number of rows that a statement of some has of a key.
LEMMA MostIsGreatest ==
    ASSUME DedupeAssumption, NEW F, IsFiniteSet(F), F \subseteq Statement, NEW k \in Key
    PROVE  /\ Most(F, k) \in Nat
           /\ \A s \in F : s.rows[k] <= Most(F, k)
           /\ Most(F, k) = 0 \/ \E s \in F : Most(F, k) = s.rows[k]
<1> DEFINE S == {s.rows[k] : s \in F} \cup {0}
           f == [s \in F |-> s.rows[k]]
<1>1. F \subseteq Statement /\ IsFiniteSet(F) /\ \A s \in F : s.rows[k] \in Nat
  BY DEF DedupeAssumption
<1>2. IsFiniteSet(S) /\ S # {} /\ S \subseteq Int /\ S \subseteq Nat
  <2> DEFINE T == {s.rows[k] : s \in F}
  <2>1. T = {f[s] : s \in F}
    OBVIOUS
  <2>2. IsFiniteSet(T)
    <3> HIDE DEF f, T
    <3> QED
      BY <1>1, <2>1, ImageIsFinite
  <2>3. IsFiniteSet(S)
    <3>1. S = T \cup {0}
      OBVIOUS
    <3> HIDE DEF S, T
    <3> QED
      BY <2>2, <3>1, FS_AddElement
  <2>4. S # {} /\ S \subseteq Nat
    BY <1>1
  <2> QED
    BY <2>3, <2>4
<1>3. Most(F, k) = CHOOSE n \in S : \A i \in S : i <= n
  BY DEF Most
<1>4. Most(F, k) \in S /\ \A i \in S : i <= Most(F, k)
  <2> DEFINE Great(n) == n \in S /\ \A i \in S : i <= n
  <2> HIDE DEF S
  <2>1. \E n : Great(n)
    BY <1>2, HasGreatest
  <2>2. Most(F, k) = CHOOSE n : Great(n)
    BY <1>3
  <2> HIDE DEF Great
  <2>3. Great(Most(F, k))
    BY <2>1, <2>2
  <2> QED
    BY <2>3 DEF Great
<1>5. Most(F, k) \in Nat
  BY <1>2, <1>4
<1>6. \A s \in F : s.rows[k] <= Most(F, k)
  BY <1>4
<1>7. Most(F, k) = 0 \/ \E s \in F : Most(F, k) = s.rows[k]
  BY <1>4
<1> QED
  BY <1>5, <1>6, <1>7

\* Overlapping statements never multiply a row, whatever they hold and whichever a request
\* prefers: no key counts more often than in the statement that covers its day and has it
\* most often, and in those that date it outside of their own period (ingLayerOne, bounds).
THEOREM IngestMultipliesNoLine == Spec => []NoLineMultiplied
<1>1. TypeOK => NoLineMultiplied
  <2>1. SUFFICES ASSUME folder \in Folders, NEW P \in Preference, NEW k \in Key
                 PROVE  Merged[folder][P][k] <= Copies[folder][k]
    BY DEF TypeOK, NoLineMultiplied
  <2> DEFINE C == Covering(folder, k)
  <2>2. Copies[folder][k] = Most(C, k) + Besides(folder, k)
    BY <2>1 DEF Copies
  <2>3. Folder(folder) /\ IsFiniteSet(C) /\ C \subseteq Statement
    <3>1. Folder(folder)
      BY <2>1, DedupeAssumption, DistinctIsFolder
    <3> QED
      BY <3>1, FS_Subset DEF Covering, Folder
  <2> HIDE DEF C
  <2>4. Most(C, k) \in Nat /\ \A s \in C : s.rows[k] <= Most(C, k) /\ s.rows[k] \in Nat
    <3>1. \A s \in C : s.rows[k] \in Nat
      BY <2>1, <2>3, DedupeAssumption DEF DedupeAssumption
    <3> QED
      BY <2>1, <2>3, <3>1, DedupeAssumption, MostIsGreatest
  <2>5. Besides(folder, k) \in Nat
    BY <2>1, <2>3, DedupeAssumption, FewerBesides
  <2>6. Merged[folder][P][k] \in Int /\ Bounded(Merged[folder][P][k], folder, k)
    BY <2>1, DedupeAssumption, MergedIsBounded
  <2> QED
    BY <2>2, <2>4, <2>5, <2>6 DEF C, Bounded
<1> QED
  BY <1>1, IngestIsTyped, PTL

\* No row is lost but one of a blocked month, one of a statement that disagrees with a
\* better one, or a third copy, when equal bytes are equal rows (ingLayerOne).
THEOREM IngestLosesOnlyThirdCopies == ASSUME SameBytesSameRows PROVE Spec => []OnlyThirdCopiesAreLost
<1>1. TypeOK => OnlyThirdCopiesAreLost
  <2>1. SUFFICES ASSUME folder \in Folders, {} \in Preference, NEW k \in Key,
                        MonthOf(DayOf[k]) \notin Blocked[folder][{}],
                        \A s \in Refused[folder][{}] : ~(s.rows[k] > 0),
                        Cardinality({s \in folder : s.rows[k] > 0}) <= 2
                 PROVE  ~(Merged[folder][{}][k] < Most(folder, k))
    <3>1. \A n \in Nat : n > 2 \/ n <= 2
      OBVIOUS
    <3>2. ASSUME folder \in Folders, NEW k \in Key PROVE Cardinality({s \in folder : s.rows[k] > 0}) \in Nat
      <4>1. IsFiniteSet(folder)
        BY <3>2, DedupeAssumption DEF DedupeAssumption
      <4>2. IsFiniteSet({s \in folder : s.rows[k] > 0})
        BY <4>1, FS_Subset
      <4> QED
        BY <4>2, FS_CardinalityType
    <3> QED
      BY <3>1, <3>2 DEF TypeOK, OnlyThirdCopiesAreLost
  <2>2. /\ Merged[folder][{}][k] \in Nat
        /\ \A s \in folder : s.rows[k] <= Merged[folder][{}][k]
    BY <2>1, DedupeAssumption, MergedLosesNothing
  <2>3. Most(folder, k) \in Nat /\ (Most(folder, k) = 0 \/ \E s \in folder : Most(folder, k) = s.rows[k])
    <3>1. IsFiniteSet(folder) /\ folder \subseteq Statement
      BY <2>1, DedupeAssumption DEF DedupeAssumption
    <3> QED
      BY <2>1, <3>1, DedupeAssumption, MostIsGreatest
  <2> QED
    BY <2>2, <2>3
<1> QED
  BY <1>1, IngestIsTyped, PTL
=============================================================================
