------------------------------- MODULE Ingest -------------------------------
(***************************************************************************)
(* The ingest pipeline of the machine plane (pkg/machine/ingest_*.go): the *)
(* statements in the folder are merged into lines, a plan compares them    *)
(* with the books and the table machine_import_record, an apply creates    *)
(* the new lines in batches, records them and journals the run, and an     *)
(* undo takes the run back.                                                *)
(*                                                                         *)
(* The plan is made before ingApplyMu is taken, so an apply may work on a  *)
(* plan that others overtook.  Every database transaction is a step of its *)
(* own and may fail, the operator works in the browser at the same time,   *)
(* and the server may crash between any two steps.                         *)
(*                                                                         *)
(* Left out: accepted transfers (one create with two import ids), bank ids *)
(* (a line is known by its minted id), and the confirm token of            *)
(* MachineJournal, which only makes applies refuse more often.  One        *)
(* account; rows with one key stand for rows alike: of one amount, at most *)
(* three days apart.                                                       *)
(***************************************************************************)
EXTENDS StatementDedupe, SequencesExt

CONSTANTS
    MaxTies,       \* bound: rows of one key that get an import id
    Days,          \* the days a request asks for
    MaxCalls,      \* bound: machine-plane calls in flight at one time
    Typed,         \* bound: the keys of rows the operator enters by hand
    MaxEvents,     \* bound: events that nobody in the pipeline decides
    MaxTxns,       \* bound: transactions
    MaxEntries     \* bound: journal entries

ASSUME IngestAssumption ==
    /\ Typed \subseteq Key
    /\ {MaxTies, MaxCalls, MaxEvents, MaxTxns, MaxEntries} \subseteq Nat

VARIABLES
    folder,        \* the statements on disk
    txns,          \* Seq of transactions: the line it was created for, live, edited
    records,       \* machine_import_record: [recorded lines -> transaction]
    journal,       \* the entries of ingest runs, oldest first
    ingApplyMu,    \* who applies
    jrMu,          \* who undoes
    calls,         \* [Client -> the locals of its call]
    events,        \* events so far
    reasked,       \* history: the lines a plan re-imports because it was asked to
    raced,         \* history: the lines two calls were to create at one time
    left,          \* history: rows that a failure kept from being recorded or taken back
    matched        \* history: the rows a run linked to lines, as the operator accepted

vars == <<folder, txns, records, journal, ingApplyMu, jrMu, calls, events, reasked, raced, left, matched>>

-----------------------------------------------------------------------------
(* Lines and transactions *)

\* ingAssignIds: the minted id is the key and the ordinal among the merged rows
Line == {k \in Key : DayOf[k] \in Days} \X (1 .. MaxTies)
LinesOf(F, P) == {l \in Line : l[2] <= Merged[F][P][l[1]]}

\* a transaction entered by hand looks like a line but was created for none
ByHand(k) == <<k, 0>>
Txns == DOMAIN txns
Live(t) == txns[t].live
Recorded == {records[l] : l \in DOMAIN records}
Stray(t) == t \notin Recorded
Deleted(t) == [txns EXCEPT ![t].live = FALSE]

Client == 1 .. MaxCalls
NoClient == 0
Idle == [pc |-> "idle"]
At(c, pc) == calls[c].pc = pc
\* a call that begins takes the first free place
First(c) == At(c, "idle") /\ \A d \in 1 .. c - 1 : ~At(d, "idle")
Goto(c, call) == calls' = [calls EXCEPT ![c] = call]
Applying(c) == calls[c].pc \in {"lock", "create", "record", "takeback", "link", "journal"}
Undoing(c) == calls[c].pc \in {"compare", "delete", "drop", "relink", "mark"}

\* f with the entries of g written over it
Overlay(f, g) == [x \in DOMAIN f \cup DOMAIN g |-> IF x \in DOMAIN g THEN g[x] ELSE f[x]]
Without(f, X) == [x \in DOMAIN f \ X |-> f[x]]

\* the row whose turn it is
OneOf(S) == CHOOSE t \in S : TRUE

\* a database call fails, the server crashes, or the operator works by hand
Event == events < MaxEvents /\ events' = events + 1

-----------------------------------------------------------------------------
(* The plan *)

New(L) == {l \in L : l \notin DOMAIN records}

\* Mutant: lines of deleted transactions come back without being asked for.
GoneAlways(L, reimport) == {l \in L : l \in DOMAIN records /\ ~Live(records[l])}
\* lines whose transaction was deleted, when the request re-imports them
Gone(L, reimport) == {l \in L : reimport /\ l \in DOMAIN records /\ ~Live(records[l])}

\* Mutant: rows that look like the line are not looked for.
NoCandidates(l, L) == {}
\* live rows no record points at that look like l; they are read for the days of the
\* new lines only
Candidates(l, L) ==
    {t \in Txns : /\ New(L) # {}
                  /\ Live(t) /\ ~txns[t].edited /\ txns[t].line[1] = l[1]
                  /\ t \notin Recorded}

Prior(l) == IF l \in DOMAIN records THEN records[l] ELSE 0

\* ingEvaluate: the lines to create and to link, each with the transaction its record
\* pointed at; accepted are the matches the request names
Create(L, reimport, accepted) ==
    [l \in {m \in New(L) \cup Gone(L, reimport) : m \notin DOMAIN accepted /\ Candidates(m, L) = {}}
        |-> Prior(l)]
Link(L, reimport, accepted) ==
    [l \in (New(L) \cup Gone(L, reimport)) \cap DOMAIN accepted
        |-> [txn |-> accepted[l], prior |-> Prior(l)]]

Valid(links) == \A l \in DOMAIN links : links[l].txn \notin Recorded /\ Live(links[l].txn)

\* transactions that the applies in flight may still create
Pending == {cl \in Client \X Line : Applying(cl[1]) /\ cl[2] \in DOMAIN calls[cl[1]].create}
JournalRoom == Len(journal) + Cardinality({d \in Client : Applying(d)}) < MaxEntries
Room(n) == Len(txns) + Cardinality(Pending) + n <= MaxTxns

Plan(c, L, reimport, accepted) ==
    LET create == Create(L, reimport, accepted)
        link == Link(L, reimport, accepted)
        planned == DOMAIN create \cup DOMAIN link
    IN  /\ First(c)
        /\ Room(Cardinality(DOMAIN create))
        /\ JournalRoom
        /\ planned # {} /\ Valid(link)
        /\ Goto(c, [pc |-> "lock", create |-> create, link |-> link,
                    batch |-> {}, created |-> <<>>, linked |-> <<>>])
        /\ reasked' = reasked \cup (IF reimport THEN planned \cap DOMAIN records ELSE {})
        /\ raced' = raced \cup {l \in DOMAIN create :
                        \E d \in Client : Applying(d) /\ l \in DOMAIN calls[d].create}
        /\ UNCHANGED <<folder, txns, records, journal, ingApplyMu, jrMu, events, left, matched>>

-----------------------------------------------------------------------------
(* The apply: batches, records, links, journal, under ingApplyMu *)

NextBatch(r) == [r EXCEPT !.batch = {}, !.pc = IF DOMAIN r.create # {} THEN "create" ELSE "link"]

Lock(c) ==
    /\ At(c, "lock")
    /\ ingApplyMu = NoClient
    /\ ingApplyMu' = c
    /\ Goto(c, NextBatch(calls[c]))
    /\ UNCHANGED <<folder, txns, records, journal, jrMu, events, reasked, raced, left, matched>>

\* Mutant: the failure path returns without unlocking.
EndLocked(c, r) ==
    /\ Goto(c, IF DOMAIN r.created \cup DOMAIN r.linked # {} THEN [r EXCEPT !.pc = "journal"] ELSE Idle)
    /\ UNCHANGED ingApplyMu
\* after the links or the first failure, what was done is journaled
End(c, r) ==
    IF DOMAIN r.created \cup DOMAIN r.linked # {}
    THEN Goto(c, [r EXCEPT !.pc = "journal"]) /\ UNCHANGED ingApplyMu
    ELSE Goto(c, Idle) /\ ingApplyMu' = NoClient

\* some of the lines, those of one key by their ordinal; a batch ends anywhere
Batches(lines) ==
    {b \in UNION {[1 .. n -> lines] : n \in 1 .. MaxTxns} :
        \A i, j \in DOMAIN b : i < j /\ b[i][1] = b[j][1] => b[i][2] < b[j][2]}

\* BatchCreateTransactions: one database transaction
BatchCreate(c, b) ==
    LET r == calls[c]
        rows == [i \in DOMAIN b |-> [line |-> b[i], live |-> TRUE, edited |-> FALSE]]
    IN  /\ At(c, "create")
        /\ txns' = txns \o rows
        /\ Goto(c, [r EXCEPT !.pc = "record", !.batch = DOMAIN txns' \ Txns])
        /\ UNCHANGED <<folder, records, journal, ingApplyMu, jrMu, events, reasked, raced, left, matched>>

\* Mutant: a record is overwritten instead of refused.
NothingTaken(lines, prior) == {}
\* lines that are new to the plan and meanwhile recorded: the insert breaks the primary key
AlreadyTaken(lines, prior) == {l \in lines : prior[l] = 0 /\ l \in DOMAIN records}

\* an update of a record that is gone changes nothing
Written(lines, prior, txn) ==
    Overlay(records, [l \in {m \in lines : prior[m] = 0 \/ m \in DOMAIN records} |-> txn[l]])

\* ingWriteRecords for a batch: all of its records or none
WriteRecords(c) ==
    LET r == calls[c]
        lines == {txns[t].line : t \in r.batch}
        txn == [l \in lines |-> CHOOSE t \in r.batch : txns[t].line = l]
        done == [l \in lines |-> [txn |-> txn[l], prior |-> r.create[l]]]
    IN  /\ At(c, "record")
        /\ AlreadyTaken(lines, r.create) = {}
        /\ records' = Written(lines, r.create, txn)
        /\ Goto(c, NextBatch([r EXCEPT !.create = Without(@, lines), !.created = Overlay(@, done)]))
        /\ UNCHANGED <<folder, txns, journal, ingApplyMu, jrMu, events, reasked, raced, left, matched>>

\* never leave rows without records: the batch is taken back
WriteRecordsFails(c) ==
    LET r == calls[c]
    IN  /\ At(c, "record")
        /\ \/ Event
           \/ AlreadyTaken({txns[t].line : t \in r.batch}, r.create) # {} /\ UNCHANGED events
        /\ Goto(c, [r EXCEPT !.pc = "takeback"])
        /\ UNCHANGED <<folder, txns, records, journal, ingApplyMu, jrMu, reasked, raced, left, matched>>

\* DeleteTransaction row by row; a failure is logged and the next row tried
TakeBack(c) ==
    LET t == OneOf(calls[c].batch)
        r == [calls[c] EXCEPT !.batch = @ \ {t}]
    IN  /\ At(c, "takeback")
        /\ \/ txns' = Deleted(t) /\ UNCHANGED <<events, left>>
           \/ UNCHANGED txns /\ Event /\ left' = left \cup {t}
        /\ IF r.batch = {} THEN End(c, r) ELSE Goto(c, r) /\ UNCHANGED ingApplyMu
        /\ UNCHANGED <<folder, records, journal, jrMu, reasked, raced, matched>>

\* Mutant: the prior transaction is written in place of the match.
WriteLinksBack(c) ==
    LET r == calls[c]
        lines == DOMAIN r.link
        prior == [l \in lines |-> r.link[l].prior]
    IN  /\ At(c, "link")
        /\ AlreadyTaken(lines, prior) = {}
        /\ records' = Written(lines, prior, prior)
        /\ End(c, [r EXCEPT !.linked = r.link])
        /\ matched' = matched \cup {r.link[l].txn : l \in lines}
        /\ UNCHANGED <<folder, txns, journal, jrMu, events, reasked, raced, left>>
\* the accepted matches, in one database transaction
WriteLinks(c) ==
    LET r == calls[c]
        lines == DOMAIN r.link
        prior == [l \in lines |-> r.link[l].prior]
    IN  /\ At(c, "link")
        /\ AlreadyTaken(lines, prior) = {}
        /\ records' = Written(lines, prior, [l \in lines |-> r.link[l].txn])
        /\ End(c, [r EXCEPT !.linked = r.link])
        /\ matched' = matched \cup {r.link[l].txn : l \in lines}
        /\ UNCHANGED <<folder, txns, journal, jrMu, events, reasked, raced, left>>

\* a batch or the links fail: the apply stops
ApplyFails(c) ==
    LET r == calls[c]
        taken == {l \in DOMAIN r.link : r.link[l].prior = 0 /\ l \in DOMAIN records}
    IN  /\ \/ calls[c].pc \in {"create", "link"} /\ Event
           \/ At(c, "link") /\ taken # {} /\ UNCHANGED events
        /\ End(c, r)
        /\ UNCHANGED <<folder, txns, records, journal, jrMu, reasked, raced, left, matched>>

\* the entry's check is the rows' update time, read now
RecordJournal(c) ==
    LET r == calls[c]
        entry == [created |-> r.created, linked |-> r.linked, undone |-> FALSE,
                  seen |-> [l \in DOMAIN r.created |-> txns[r.created[l].txn].edited]]
    IN  /\ At(c, "journal")
        /\ journal' = Append(journal, entry)
        /\ Goto(c, Idle)
        /\ ingApplyMu' = NoClient
        /\ UNCHANGED <<folder, txns, records, jrMu, events, reasked, raced, left, matched>>

\* only a warning: the run cannot be undone
RecordJournalFails(c) ==
    /\ Event
    /\ At(c, "journal")
    /\ Goto(c, Idle)
    /\ ingApplyMu' = NoClient
    /\ UNCHANGED <<folder, txns, records, journal, jrMu, reasked, raced, left, matched>>

-----------------------------------------------------------------------------
(* The undo, under jrMu *)

Entries == DOMAIN journal
LatestActive == {i \in Entries : ~journal[i].undone /\ \A j \in Entries : journal[j].undone \/ j <= i}
Made(e) == {e.created[l].txn : l \in DOMAIN e.created}
Leave(c) == Goto(c, Idle) /\ jrMu' = NoClient
Deleting(r, rows) == [r EXCEPT !.todo = rows, !.pc = IF rows = {} THEN "drop" ELSE "delete"]

BeginUndo(c) ==
    /\ First(c)
    /\ jrMu = NoClient
    /\ jrMu' = c
    /\ \E i \in LatestActive : Goto(c, [pc |-> "compare", entry |-> i, todo |-> {}])
    /\ UNCHANGED <<folder, txns, records, journal, ingApplyMu, events, reasked, raced, left, matched>>

\* the rows of the run as they are now: a live one that was edited refuses the undo
CompareRows(c) ==
    LET r == calls[c]
        e == journal[r.entry]
        changed == {l \in DOMAIN e.created : /\ Live(e.created[l].txn)
                                             /\ txns[e.created[l].txn].edited # e.seen[l]}
    IN  /\ At(c, "compare")
        /\ IF changed # {} THEN Leave(c)
           ELSE Goto(c, Deleting(r, {t \in Made(e) : Live(t)})) /\ UNCHANGED jrMu
        /\ UNCHANGED <<folder, txns, records, journal, ingApplyMu, events, reasked, raced, left, matched>>

\* row by row; a row that went meanwhile cannot be deleted and ends the undo
DeleteRow(c) ==
    LET r == calls[c]
        t == OneOf(r.todo)
    IN  /\ At(c, "delete")
        /\ txns' = Deleted(t)
        /\ IF Live(t) THEN Goto(c, Deleting(r, r.todo \ {t})) /\ UNCHANGED jrMu ELSE Leave(c)
        /\ UNCHANGED <<folder, records, journal, ingApplyMu, events, reasked, raced, left, matched>>

\* what a run wrote: a record goes, or back to its prior transaction, only while it
\* points at the run's
Wrote(e) == Overlay(e.created, e.linked)
StillOurs(e) == {l \in DOMAIN Wrote(e) \cap DOMAIN records : records[l] = Wrote(e)[l].txn}

DropRecords(c) ==
    LET e == journal[calls[c].entry]
    IN  /\ At(c, "drop")
        /\ records' = Without(records, {l \in StillOurs(e) : Wrote(e)[l].prior = 0})
        /\ Goto(c, [calls[c] EXCEPT !.pc = "relink"])
        /\ UNCHANGED <<folder, txns, journal, ingApplyMu, jrMu, events, reasked, raced, left, matched>>

RelinkRecords(c) ==
    LET e == journal[calls[c].entry]
    IN  /\ At(c, "relink")
        /\ records' = Overlay(records, [l \in {m \in StillOurs(e) : Wrote(e)[m].prior # 0} |-> Wrote(e)[l].prior])
        /\ Goto(c, [calls[c] EXCEPT !.pc = "mark"])
        /\ UNCHANGED <<folder, txns, journal, ingApplyMu, jrMu, events, reasked, raced, left, matched>>

MarkUndone(c) ==
    /\ At(c, "mark")
    /\ journal' = [journal EXCEPT ![calls[c].entry].undone = TRUE]
    /\ Leave(c)
    /\ UNCHANGED <<folder, txns, records, ingApplyMu, events, reasked, raced, left, matched>>

\* Mutant: a row that cannot be deleted is logged and left.
UndoGoesOn(c) ==
    /\ Event
    /\ Undoing(c)
    /\ IF At(c, "delete") THEN Goto(c, Deleting(calls[c], calls[c].todo \ {OneOf(calls[c].todo)})) /\ UNCHANGED jrMu
       ELSE Leave(c)
    /\ UNCHANGED <<folder, txns, records, journal, ingApplyMu, reasked, raced, left, matched>>
\* a database call fails; the entry stays active and the undo can be retried
UndoFails(c) ==
    /\ Event
    /\ Undoing(c)
    /\ Leave(c)
    /\ UNCHANGED <<folder, txns, records, journal, ingApplyMu, reasked, raced, left, matched>>

-----------------------------------------------------------------------------
(* Around the pipeline *)

\* the operator downloads statements
Download(F) ==
    /\ Event
    /\ folder \subseteq F /\ folder # F
    /\ folder' = F
    /\ UNCHANGED <<txns, records, journal, ingApplyMu, jrMu, calls, reasked, raced, left, matched>>

\* ... and enters, edits and deletes transactions in the browser; an edit is later than
\* the second of the import and changes what the row looks like
EnterByHand(k) ==
    /\ Event
    /\ Room(1)
    /\ txns' = Append(txns, [line |-> ByHand(k), live |-> TRUE, edited |-> FALSE])
    /\ UNCHANGED <<folder, records, journal, ingApplyMu, jrMu, calls, reasked, raced, left, matched>>

EditByHand(t) ==
    /\ Event
    /\ Live(t) /\ ~txns[t].edited
    /\ txns' = [txns EXCEPT ![t].edited = TRUE]
    /\ UNCHANGED <<folder, records, journal, ingApplyMu, jrMu, calls, reasked, raced, left, matched>>

DeleteByHand(t) ==
    /\ Event
    /\ Live(t)
    /\ txns' = Deleted(t)
    /\ UNCHANGED <<folder, records, journal, ingApplyMu, jrMu, calls, reasked, raced, left, matched>>

\* the calls and the mutexes live in memory, the tables and the folder do not
Crash ==
    /\ Event
    /\ \E c \in Client : ~At(c, "idle")
    /\ calls' = [c \in Client |-> Idle]
    /\ ingApplyMu' = NoClient
    /\ jrMu' = NoClient
    /\ left' = left \cup UNION {calls[c].batch : c \in {c \in Client : Applying(c)}}
    /\ UNCHANGED <<folder, txns, records, journal, reasked, raced, matched>>

Init ==
    /\ folder \in Folders
    /\ txns = <<>>
    /\ records = <<>>
    /\ journal = <<>>
    /\ ingApplyMu = NoClient
    /\ jrMu = NoClient
    /\ calls = [c \in Client |-> Idle]
    /\ events = 0
    /\ reasked = {}
    /\ raced = {}
    /\ left = {}
    /\ matched = {}

\* the steps of a call once it began
Step(c) ==
    \/ At(c, "create") /\ \E b \in Batches(DOMAIN calls[c].create) : BatchCreate(c, b)
    \/ WriteRecords(c)
    \/ WriteRecordsFails(c)
    \/ TakeBack(c)
    \/ DeleteRow(c)
    \/ WriteLinks(c)
    \/ ApplyFails(c)
    \/ RecordJournal(c)
    \/ RecordJournalFails(c)
    \/ CompareRows(c)
    \/ DropRecords(c)
    \/ RelinkRecords(c)
    \/ MarkUndone(c)
    \/ UndoFails(c)

Next ==
    \/ \E c \in Client :
         \/ First(c) /\ JournalRoom /\
            \E L \in {LinesOf(folder, P) : P \in Preference}, reimport \in BOOLEAN :
              \E M \in SUBSET L :
                \E accepted \in [M -> {t \in Txns : Live(t) /\ Stray(t)}] :
                  Plan(c, L, reimport, accepted)
         \/ Lock(c)
         \/ BeginUndo(c)
         \/ Step(c)
    \/ \E F \in Folders : Download(F)
    \/ \E k \in Typed : EnterByHand(k)
    \/ \E t \in Txns : EditByHand(t) \/ DeleteByHand(t)
    \/ Crash

\* a call runs on by itself, and Go's mutex serves a waiting one in the end
Fairness == \A c \in Client : WF_vars(Step(c)) /\ SF_vars(Lock(c))

Spec == Init /\ [][Next]_vars /\ Fairness

-----------------------------------------------------------------------------
(* Properties *)

Partial(f, D, R) == DOMAIN f \subseteq D /\ f \in [DOMAIN f -> R]
Lines(f) == Partial(f, Line, [txn : Txns, prior : {0} \cup Txns])
Row == [line : Line \cup (Key \X {0}), live : BOOLEAN, edited : BOOLEAN]
Undo == [pc : {"compare", "delete", "drop", "relink", "mark"}, entry : Entries, todo : SUBSET Txns]
Apply(r) ==
    /\ r \in [pc : {"lock", "create", "record", "takeback", "link", "journal"},
              create : {r.create}, link : {r.link}, batch : SUBSET Txns,
              created : {r.created}, linked : {r.linked}]
    /\ Partial(r.create, Line, {0} \cup Txns)
    /\ Lines(r.link) /\ Lines(r.created) /\ Lines(r.linked)
Entry(e) ==
    /\ e \in [created : {e.created}, linked : {e.linked}, undone : BOOLEAN, seen : {e.seen}]
    /\ Lines(e.created) /\ Lines(e.linked)

\* Every part of the state has its type; records point at transactions that exist, and
\* a call at rows and entries that exist.
TypeOK ==
    /\ folder \in Folders
    /\ txns \in Seq(Row)
    /\ Partial(records, Line, Txns)
    /\ journal \in Seq({journal[i] : i \in Entries}) /\ \A i \in Entries : Entry(journal[i])
    /\ ingApplyMu \in Client \cup {NoClient}
    /\ jrMu \in Client \cup {NoClient}
    /\ calls \in [Client -> {calls[c] : c \in Client}]
    /\ \A c \in Client : calls[c] = Idle \/ calls[c] \in Undo \/ Apply(calls[c])
    /\ events \in Nat
    /\ reasked \in SUBSET Line
    /\ raced \in SUBSET Line
    /\ left \in SUBSET Txns
    /\ matched \in SUBSET Txns

\* Whatever overlaps, fails or crashes, the pipeline only registers lines that are new or
\* that the operator asked for again (ImportRegister): the primary key of
\* machine_import_record stops the plans that others overtook.
Standing == [l \in Line |-> IF l \notin DOMAIN records THEN "absent"
                            ELSE IF Live(records[l]) THEN "present" ELSE "deleted"]
Register == INSTANCE ImportRegister WITH standing <- Standing, asked <- reasked
ImplementsRegister == Register!Spec

\* Overlapping statements never multiply a row: no key counts more often than in the
\* statement that covers its day and has it most often (ingLayerOne).  The period a
\* document states is believed (bounds), and what a statement dates outside of its own is
\* compared with no other: those rows count besides, once for each statement
\* (TestIngCycleDatedCardFeedsOneMonth keeps such a row twice).
NoLineMultiplied ==
    \A P \in Preference, k \in Key : Merged[folder][P][k] <= Copies[folder][k]

\* "The fuller one wins" (ingest_dedupe.go:18-24): rows get lost only when their month is
\* blocked, when a statement that has them disagrees with a better one, which drops the
\* whole of it and not the blocked months alone, or when more than two statements hold
\* the key, each of which claims it.
OnlyThirdCopiesAreLost ==
    {} \in Preference =>
        LET rows == Merged[folder][{}]
        IN  \A k \in Key : rows[k] < Most(folder, k) =>
                \/ MonthOf(DayOf[k]) \in Blocked[folder][{}]
                \/ \E s \in Refused[folder][{}] : s.rows[k] > 0
                \/ Cardinality({s \in folder : s.rows[k] > 0}) > 2

Settled(t) == \A c \in Client : Applying(c) => t \notin calls[c].batch
RowsOf(l) == {t \in Txns : Live(t) /\ Settled(t) /\ txns[t].line = l
                           /\ \A m \in DOMAIN records : records[m] = t => m = l}

\* A line has one live transaction: an apply that loses a race takes its rows back, and
\* rows that a crash leaves without records are found by their looks when the line is
\* planned again.  It has two only where a row was edited or linked by hand, or a race was
\* lost and the take-back failed as well; and lines imported again are not covered,
\* because that relinks records unconditionally (ingest_record.go:224).
OneRowPerLine ==
    \A l \in Line \ reasked : \A t, u \in RowsOf(l) :
        t # u => \E s \in {t, u} : txns[s].edited \/ s \in matched \/ (l \in raced /\ s \in left)

\* An undone run leaves no transaction behind, however often its undo failed or crashed
\* half way and was retried (ingUndoImport).
UndoneRunsLeaveNothing ==
    \A i \in Entries : journal[i].undone => \A t \in Made(journal[i]) : ~Live(t)

\* Every apply and every undo ends and gives its mutex back, on every failure path.
EveryCallEnds == \A c \in Client : ~At(c, "idle") ~> At(c, "idle")
=============================================================================
