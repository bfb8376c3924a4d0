--------------------------- MODULE MachineJournal ---------------------------
(***************************************************************************)
(* The machine write plane (pkg/machine): a bulk change of transactions is *)
(* previewed under a confirm token, resolved again, checked against its    *)
(* token, applied by upstream calls that commit one by one, and journaled  *)
(* with its inverse; undo and redo run the journal's inverses under jrMu.  *)
(*                                                                         *)
(* The writes are those of txnBulkPlan, the machinery shared by            *)
(* set-category, set-account and tags: every selected row gets one value.  *)
(* A row's value stands for all its fields.  The bound user is one, the    *)
(* route is one; the guard journal_id, which only makes undo and redo      *)
(* refuse more often, and the change ceiling are left out.                 *)
(*                                                                         *)
(* Every database call is a step of its own: calls interleave with each    *)
(* other and with the operator's edits in the browser, may fail at any of  *)
(* them, and end where they are when the server crashes.                   *)
(***************************************************************************)
EXTENDS Integers, Sequences

CONSTANTS
    Client,        \* machine-plane calls in flight at one time
    Row,           \* transactions
    Value,         \* what a row can look like
    NoClient,      \* nobody holds jrMu
    Browser,       \* whether the operator edits rows
    Failures,      \* whether a database call may fail and the server crash
    MaxPreviews    \* bound: dry runs, and so journal entries

ASSUME JournalAssumption ==
    /\ NoClient \notin Client
    /\ Browser \in BOOLEAN /\ Failures \in BOOLEAN
    /\ MaxPreviews \in Nat

VARIABLES
    books,          \* [Row -> Value]: the transactions
    journal,        \* the entries of machine_journal, by journal_id
    previews,       \* the change sets shown by dry runs, by token
    confirmStore,   \* the tokens the server still knows
    jrMu,           \* who holds the journal's mutex
    calls,          \* [Client -> the locals of its call]
    edited          \* history: the rows the operator ever edited

vars == <<books, journal, previews, confirmStore, jrMu, calls, edited>>

-----------------------------------------------------------------------------
(* Change sets *)

Rows == (SUBSET Row) \ {{}}

\* what a dry run shows and its fingerprint covers: the selected rows as they are and
\* the value they shall have
Plan == UNION {[before : [R -> Value], after : Value] : R \in Rows}
PlanOf(R, v) == [before |-> [r \in R |-> books[r]], after |-> v]
Changed(p) == {r \in DOMAIN p.before : p.before[r] # p.after}

\* one journal entry: its inverse op restores prior where the rows still hold now, its
\* redo restores now where they hold prior; the other fields are history
Entry == UNION {[undone : BOOLEAN, prior : [R -> Value], now : [R -> Value],
                 token : 1 .. MaxPreviews, closed : BOOLEAN] : R \in Rows}
Touches(e) == DOMAIN e.prior

Idle == [pc |-> "idle"]
At(c, pc) == calls[c].pc = pc
Goto(c, call) == calls' = [calls EXCEPT ![c] = call]
Entries == DOMAIN journal
Active == {i \in Entries : ~journal[i].undone}

-----------------------------------------------------------------------------
(* The confirm tokens *)

\* a dry run: the plan is resolved and a token for its fingerprint issued
Preview(c, R, v) ==
    /\ At(c, "idle")
    /\ Len(previews) < MaxPreviews
    /\ previews' = Append(previews, PlanOf(R, v))
    /\ confirmStore' = confirmStore \cup {Len(previews) + 1}
    /\ UNCHANGED <<books, journal, jrMu, calls, edited>>

\* tokens last ten minutes
Expire(t) ==
    /\ t \in confirmStore
    /\ confirmStore' = confirmStore \ {t}
    /\ UNCHANGED <<books, journal, previews, jrMu, calls, edited>>

\* a write with a token: the plan is resolved again
Resolve(c, t, R, v) ==
    /\ At(c, "idle")
    /\ Goto(c, [pc |-> "check", token |-> t, plan |-> PlanOf(R, v)])
    /\ UNCHANGED <<books, journal, previews, confirmStore, jrMu, edited>>

Writing(t, p) == [pc |-> "write", token |-> t, plan |-> p, done |-> {}]

\* Mutant: a token that matches is not consumed.
CheckTokenAndKeep(c) ==
    LET r == calls[c]
        accepted == r.token \in confirmStore /\ previews[r.token] = r.plan
    IN  /\ At(c, "check")
        /\ Goto(c, IF accepted /\ Changed(r.plan) # {} THEN Writing(r.token, r.plan) ELSE Idle)
        /\ UNCHANGED <<books, journal, previews, confirmStore, jrMu, edited>>

\* Mutant: the fingerprint is not compared.
CheckTokenOnly(c) ==
    LET r == calls[c]
    IN  /\ At(c, "check")
        /\ Goto(c, IF r.token \in confirmStore /\ Changed(r.plan) # {} THEN Writing(r.token, r.plan) ELSE Idle)
        /\ confirmStore' = confirmStore \ {r.token}
        /\ UNCHANGED <<books, journal, previews, jrMu, edited>>

\* the token is consumed whether or not its fingerprint is that of the fresh plan; a
\* plan that changes nothing ends here (txnHandleSetCategory's apply)
CheckConfirmToken(c) ==
    LET r == calls[c]
        accepted == r.token \in confirmStore /\ previews[r.token] = r.plan
    IN  /\ At(c, "check")
        /\ Goto(c, IF accepted /\ Changed(r.plan) # {} THEN Writing(r.token, r.plan) ELSE Idle)
        /\ confirmStore' = confirmStore \ {r.token}
        /\ UNCHANGED <<books, journal, previews, jrMu, edited>>

-----------------------------------------------------------------------------
(* The apply half: upstream calls, then the journal *)

Todo(c) == Changed(calls[c].plan) \ calls[c].done
Finishing(r) == [r EXCEPT !.pc = "read"]

\* one upstream call: a chunk of the rows of one category, or a single row
WriteRows(c, R) ==
    LET r == calls[c]
    IN  /\ At(c, "write")
        /\ R \subseteq Todo(c)
        /\ books' = [x \in Row |-> IF x \in R THEN r.plan.after ELSE books[x]]
        /\ Goto(c, [r EXCEPT !.done = @ \cup R,
                             !.pc = IF Todo(c) = R THEN "read" ELSE "write"])
        /\ UNCHANGED <<journal, previews, confirmStore, jrMu, edited>>

\* Mutant: a failure is journaled also when nothing was written before it.
WriteFailsAtOnce(c) ==
    /\ Failures
    /\ At(c, "write")
    /\ Goto(c, Finishing(calls[c]))
    /\ UNCHANGED <<books, journal, previews, confirmStore, jrMu, edited>>

\* an upstream call fails: what was written before it is journaled
WriteFails(c) ==
    /\ Failures
    /\ At(c, "write")
    /\ Goto(c, IF calls[c].done = {} THEN Idle ELSE Finishing(calls[c]))
    /\ UNCHANGED <<books, journal, previews, confirmStore, jrMu, edited>>

\* txnBulkFinish takes the state after the write from the database ...
ReadAfter(c) ==
    LET r == calls[c]
    IN  /\ At(c, "read")
        /\ Goto(c, [pc |-> "record", token |-> r.token,
                    prior |-> [x \in r.done |-> r.plan.before[x]],
                    now |-> [x \in r.done |-> books[x]]])
        /\ UNCHANGED <<books, journal, previews, confirmStore, jrMu, edited>>

\* ... and RecordJournal inserts the entry
RecordJournal(c) ==
    LET r == calls[c]
        entry == [undone |-> FALSE, prior |-> r.prior, now |-> r.now,
                  token |-> r.token, closed |-> FALSE]
    IN  /\ At(c, "record")
        /\ journal' = Append([i \in Entries |-> [journal[i] EXCEPT !.closed = journal[i].undone \/ @]], entry)
        /\ Goto(c, Idle)
        /\ UNCHANGED <<books, previews, confirmStore, jrMu, edited>>

\* reading the rows or inserting the entry fails: the write stays without an entry
RecordFails(c) ==
    /\ Failures
    /\ At(c, "read") \/ At(c, "record")
    /\ Goto(c, Idle)
    /\ UNCHANGED <<books, journal, previews, confirmStore, jrMu, edited>>

-----------------------------------------------------------------------------
(* Undo and redo *)

\* jrLatestActive and jrRedoCandidate, each as a set of at most one entry
LatestActive == {i \in Active : \A j \in Active : j <= i}
RedoStack == {i \in Entries : journal[i].undone /\ \A j \in Active : j < i}
RedoCandidate == {i \in RedoStack : \A j \in RedoStack : i <= j}

Target(r) == IF r.way = "undo" THEN journal[r.entry].prior ELSE journal[r.entry].now
Expected(r) == IF r.way = "undo" THEN journal[r.entry].now ELSE journal[r.entry].prior
Chosen(way, i) == [pc |-> "compare", way |-> way, entry |-> i, todo |-> Touches(journal[i])]

\* Mutant: the mutex is not taken.
LockNothing(c) == UNCHANGED jrMu
Lock(c) == jrMu = NoClient /\ jrMu' = c
Unlock(c) == jrMu' = NoClient /\ Goto(c, Idle)

BeginUndo(c) ==
    /\ At(c, "idle")
    /\ Lock(c)
    /\ \E i \in LatestActive : Goto(c, Chosen("undo", i))
    /\ UNCHANGED <<books, journal, previews, confirmStore, edited>>

BeginRedo(c) ==
    /\ At(c, "idle")
    /\ Lock(c)
    /\ \E i \in RedoCandidate : Goto(c, Chosen("redo", i))
    /\ UNCHANGED <<books, journal, previews, confirmStore, edited>>

\* txnCheckRows: refuse when a row differs from the recorded state
CompareRows(c) ==
    LET r == calls[c]
    IN  /\ At(c, "compare")
        /\ IF \A x \in r.todo : books[x] = Expected(r)[x]
           THEN Goto(c, [r EXCEPT !.pc = "restore"]) /\ UNCHANGED jrMu
           ELSE Unlock(c)
        /\ UNCHANGED <<books, journal, previews, confirmStore, edited>>

\* Mutant: the loop ends with its first row.
RestoreFirstRow(c, x) ==
    LET r == calls[c]
    IN  /\ At(c, "restore")
        /\ x \in r.todo
        /\ books' = [books EXCEPT ![x] = Target(r)[x]]
        /\ Goto(c, [r EXCEPT !.todo = {}, !.pc = "mark"])
        /\ UNCHANGED <<journal, previews, confirmStore, jrMu, edited>>

\* txnExecRestore writes the rows back one by one
RestoreRow(c, x) ==
    LET r == calls[c]
    IN  /\ At(c, "restore")
        /\ x \in r.todo
        /\ books' = [books EXCEPT ![x] = Target(r)[x]]
        /\ Goto(c, [r EXCEPT !.todo = @ \ {x}, !.pc = IF r.todo = {x} THEN "mark" ELSE "restore"])
        /\ UNCHANGED <<journal, previews, confirmStore, jrMu, edited>>

\* jrMarkUndone, a compare-and-set
MarkUndone(c) ==
    LET r == calls[c]
        undone == r.way = "undo"
    IN  /\ At(c, "mark")
        /\ journal' = [journal EXCEPT ![r.entry] = IF @.undone = undone THEN @
                                                   ELSE [@ EXCEPT !.undone = undone, !.closed = FALSE]]
        /\ Unlock(c)
        /\ UNCHANGED <<books, previews, confirmStore, edited>>

\* a database call of undo or redo fails: the op that failed is not in the list of
\* those to put back, so its rows stay as they are
UndoFails(c) ==
    /\ Failures
    /\ At(c, "compare") \/ At(c, "restore") \/ At(c, "mark")
    /\ Unlock(c)
    /\ UNCHANGED <<books, journal, previews, confirmStore, edited>>

-----------------------------------------------------------------------------
(* Around the plane *)

\* the operator edits a row in the browser
Edit(x, v) ==
    /\ Browser
    /\ books' = [books EXCEPT ![x] = v]
    /\ edited' = edited \cup {x}
    /\ UNCHANGED <<journal, previews, confirmStore, jrMu, calls>>

\* the tokens, the mutex and the calls live in memory, the books and the journal do not
Crash ==
    /\ Failures
    /\ confirmStore' = {}
    /\ jrMu' = NoClient
    /\ calls' = [c \in Client |-> Idle]
    /\ UNCHANGED <<books, journal, previews, edited>>

Init ==
    /\ books \in [Row -> Value]
    /\ journal = <<>>
    /\ previews = <<>>
    /\ confirmStore = {}
    /\ jrMu = NoClient
    /\ calls = [c \in Client |-> Idle]
    /\ edited = {}

Next ==
    \/ \E c \in Client :
         \/ \E R \in Rows, v \in Value :
              \/ Preview(c, R, v)
              \/ \E t \in DOMAIN previews : Resolve(c, t, R, v)
         \/ CheckConfirmToken(c)
         \/ \E R \in Rows : WriteRows(c, R)
         \/ WriteFails(c)
         \/ ReadAfter(c)
         \/ RecordJournal(c)
         \/ RecordFails(c)
         \/ BeginUndo(c)
         \/ BeginRedo(c)
         \/ CompareRows(c)
         \/ \E x \in Row : RestoreRow(c, x)
         \/ MarkUndone(c)
         \/ UndoFails(c)
    \/ \E t \in DOMAIN previews : Expire(t)
    \/ \E x \in Row, v \in Value : Edit(x, v)
    \/ Crash

Spec == Init /\ [][Next]_vars

-----------------------------------------------------------------------------
(* Properties *)

Texts == UNION {[R -> Value] : R \in Rows}
Call ==
    {Idle}
    \cup [pc : {"check"}, token : Nat, plan : Plan]
    \cup [pc : {"write", "read"}, token : Nat, plan : Plan, done : SUBSET Row]
    \cup [pc : {"record"}, token : Nat, prior : Texts, now : Texts]
    \cup [pc : {"compare", "restore", "mark"}, way : {"undo", "redo"}, entry : Nat, todo : SUBSET Row]

TypeOK ==
    /\ books \in [Row -> Value]
    /\ journal \in Seq(Entry)
    /\ previews \in Seq(Plan)
    /\ confirmStore \subseteq DOMAIN previews
    /\ jrMu \in Client \cup {NoClient}
    /\ calls \in [Client -> Call]
    /\ edited \subseteq Row

Applying(c) == calls[c].pc \in {"write", "read", "record"}
Reversing(c) == calls[c].pc \in {"compare", "restore", "mark"}

\* One preview pays for one write: retries of a request with its token, two of them in
\* flight together, failures halfway and restarts never apply a change set twice.
TokenBuysOneWrite ==
    /\ \A c \in Client : Applying(c) =>
         /\ calls[c].token \notin confirmStore
         /\ \A i \in Entries : journal[i].token # calls[c].token
         /\ \A d \in Client \ {c} : Applying(d) => calls[d].token # calls[c].token
    /\ \A i \in Entries : journal[i].token \notin confirmStore
    /\ \A i, j \in Entries : i # j => journal[i].token # journal[j].token

\* What a write journals is what its preview showed: each row it touched was to change,
\* and undo restores the value the preview showed it with.
JournaledAsShown ==
    \A i \in Entries :
        LET e == journal[i]
            p == previews[e.token]
        IN  \A x \in Touches(e) : x \in Changed(p) /\ e.prior[x] = p.before[x]

\* The compare-and-set that ends an undo or redo finds its entry as it was chosen: no
\* other undo or redo came in between, though writes, edits and failures may.
MarkFindsItsEntry ==
    \A c \in Client : Reversing(c) =>
        journal[calls[c].entry].undone = (calls[c].way = "redo")

\* With one writer and between calls, a row the operator never edited is what the newest
\* active entry about it left, whatever was undone and redone: no undo is refused
\* because of it.
ActiveEntriesChain ==
    (\A c \in Client : At(c, "idle")) =>
        \A x \in Row \ edited :
            LET about == {i \in Active : x \in Touches(journal[i])}
            IN  \A i \in about : (\A j \in about : j <= i) => books[x] = journal[i].now[x]

\* apis.mdx 9.6: undo refuses "rather than overwriting a human's later edit", so a row
\* it changes still has the value that the write gave it.
UndoOverwritesItsWriteOnly ==
    [][\A c \in Client : At(c, "restore") /\ calls[c].way = "undo" =>
         \A x \in calls[c].todo : books'[x] # books[x] /\ calls'[c] # calls[c] =>
             books[x] = previews[journal[calls[c].entry].token].after]_vars

\* The summary of POST /redo: it re-applies an undone write "until a newer write lands".
RedoReappliesOpenEntries ==
    [][\A c \in Client : At(c, "idle") /\ calls'[c].pc = "compare" /\ calls'[c].way = "redo" =>
         ~journal[calls'[c].entry].closed]_vars
=============================================================================
