---------------------------- MODULE JournalProofs ----------------------------
(***************************************************************************)
(* The safety of the machine write plane for any number of calls, rows and *)
(* values, through failures, crashes and edits in the browser.             *)
(*                                                                         *)
(* The argument: a token leaves the store for good with the call it        *)
(* starts, which carries the change set shown under it until the journal   *)
(* has an entry for it; and whoever undoes or redoes holds jrMu from the   *)
(* choice of the entry to its mark.  With one caller and no failures the   *)
(* entries of a row also follow on one another.                            *)
(***************************************************************************)
EXTENDS MachineJournal, TLAPS

\* whoever undoes or redoes holds the mutex
HoldsMutex == \A c \in Client : Reversing(c) => jrMu = c

\* every entry was written under a token that was previewed
EntriesWerePreviewed == \A i \in Entries : journal[i].token \in DOMAIN previews

\* what the locals r of a call say about what it has done, when ps are the previews
\* and js the journal
CallKnows(r, ps, js) ==
    /\ r.pc \in {"check", "write", "read", "record"} => r.token \in DOMAIN ps
    /\ r.pc \in {"write", "read"} =>
         r.plan = ps[r.token] /\ r.done \subseteq Changed(r.plan)
    /\ r.pc = "read" => r.done # {}
    /\ r.pc = "record" =>
         /\ DOMAIN r.now = DOMAIN r.prior
         /\ \A x \in DOMAIN r.prior : x \in Changed(ps[r.token]) /\ r.prior[x] = ps[r.token].before[x]
    /\ r.pc \in {"compare", "restore", "mark"} => r.entry \in DOMAIN js /\ r.todo \subseteq Touches(js[r.entry])

CallsKnow == \A c \in Client : CallKnows(calls[c], previews, journal)

JournalInv ==
    /\ TypeOK
    /\ Len(previews) <= MaxPreviews
    /\ TokenBuysOneWrite
    /\ JournaledAsShown
    /\ MarkFindsItsEntry
    /\ HoldsMutex
    /\ EntriesWerePreviewed
    /\ CallsKnow

-----------------------------------------------------------------------------
(* Change sets, entries and the locals of a call *)

\* A dry run shows a change set of transactions (txnBulkPlan).
LEMMA PlanOfIsPlan ==
    ASSUME books \in [Row -> Value], NEW R \in Rows, NEW v \in Value
    PROVE  PlanOf(R, v) \in Plan
<1>1. [r \in R |-> books[r]] \in [R -> Value]
  BY DEF Rows
<1>2. PlanOf(R, v) \in [before : [R -> Value], after : Value]
  BY <1>1 DEF PlanOf
<1> QED BY <1>2 DEF Plan

\* The rows of a change set are transactions, and so are the values.
LEMMA PlanIsOfRows ==
    ASSUME NEW p \in Plan
    PROVE  /\ p.after \in Value
           /\ p.before \in [DOMAIN p.before -> Value]
           /\ Changed(p) \subseteq DOMAIN p.before
           /\ Changed(p) \subseteq Row
<1>1. PICK R \in Rows : p \in [before : [R -> Value], after : Value]
  BY DEF Plan
<1> QED BY <1>1 DEF Rows, Changed

\* An entry records two states of one set of rows (InverseOp of journal.go).
LEMMA EntryIsOfRows ==
    ASSUME NEW e \in Entry
    PROVE  /\ e.undone \in BOOLEAN /\ e.closed \in BOOLEAN
           /\ e.token \in 1 .. MaxPreviews
           /\ Touches(e) \in Rows
           /\ e.prior \in [Touches(e) -> Value]
           /\ e.now \in [Touches(e) -> Value]
<1>1. PICK R \in Rows : e \in [undone : BOOLEAN, prior : [R -> Value], now : [R -> Value],
                               token : 1 .. MaxPreviews, closed : BOOLEAN]
  BY DEF Entry
<1>2. DOMAIN e.prior = R
  BY <1>1
<1> QED BY <1>1, <1>2 DEF Touches

\* Marking an entry leaves an entry.
LEMMA MarkedIsEntry ==
    ASSUME NEW e \in Entry, NEW u \in BOOLEAN, NEW d \in BOOLEAN
    PROVE  /\ [e EXCEPT !.closed = d] \in Entry
           /\ [e EXCEPT !.undone = u, !.closed = d] \in Entry
<1>1. PICK R \in Rows : e \in [undone : BOOLEAN, prior : [R -> Value], now : [R -> Value],
                               token : 1 .. MaxPreviews, closed : BOOLEAN]
  BY DEF Entry
<1> DEFINE E == [undone : BOOLEAN, prior : [R -> Value], now : [R -> Value],
                 token : 1 .. MaxPreviews, closed : BOOLEAN]
<1>2. [e EXCEPT !.closed = d] \in E /\ [e EXCEPT !.undone = u, !.closed = d] \in E
  BY <1>1
<1> QED BY <1>2 DEF Entry

\* The locals of a call at each of its places.
LEMMA CallIsTyped ==
    ASSUME NEW r \in Call
    PROVE  /\ r.pc \in {"idle", "check", "write", "read", "record", "compare", "restore", "mark"}
           /\ r.pc = "check" => r.token \in Nat /\ r.plan \in Plan
           /\ r.pc \in {"write", "read"} =>
                r \in [pc : {"write", "read"}, token : Nat, plan : Plan, done : SUBSET Row]
           /\ r.pc = "record" =>
                r \in [pc : {"record"}, token : Nat, prior : Texts, now : Texts]
           /\ r.pc \in {"compare", "restore", "mark"} =>
                r \in [pc : {"compare", "restore", "mark"}, way : {"undo", "redo"}, entry : Nat, todo : SUBSET Row]
<1>1. CASE r = Idle
  BY <1>1 DEF Idle
<1>2. CASE r \in [pc : {"check"}, token : Nat, plan : Plan]
  BY <1>2
<1>3. CASE r \in [pc : {"write", "read"}, token : Nat, plan : Plan, done : SUBSET Row]
  BY <1>3
<1>4. CASE r \in [pc : {"record"}, token : Nat, prior : Texts, now : Texts]
  BY <1>4
<1>5. CASE r \in [pc : {"compare", "restore", "mark"}, way : {"undo", "redo"}, entry : Nat, todo : SUBSET Row]
  BY <1>5
<1> QED BY <1>1, <1>2, <1>3, <1>4, <1>5 DEF Call

-----------------------------------------------------------------------------
(* One step of one call *)

\* What a call knows stays true while the previews and the journal grow.
LEMMA KnowledgeStays ==
    ASSUME NEW r, NEW ps, NEW qs, NEW js, NEW ks,
           CallKnows(r, ps, js),
           \A t \in DOMAIN ps : t \in DOMAIN qs /\ qs[t] = ps[t],
           \A i \in DOMAIN js : i \in DOMAIN ks /\ ks[i].prior = js[i].prior
    PROVE  CallKnows(r, qs, ks)
BY DEF CallKnows, Touches

\* A step of call c that leaves the journal and the previews alone keeps the
\* invariant, when the new locals r know what they should, and an undo or redo that
\* goes on still holds the mutex and finds its entry.
LEMMA CallStep ==
    ASSUME JournalInv, NEW c \in Client, NEW r \in Call,
           calls' = [calls EXCEPT ![c] = r],
           UNCHANGED <<journal, previews, edited>>,
           books' \in [Row -> Value],
           confirmStore' \subseteq confirmStore,
           CallKnows(r, previews, journal),
           r.pc \in {"write", "read", "record"} =>
             /\ r.token \notin confirmStore'
             /\ \A i \in Entries : journal[i].token # r.token
             /\ \A d \in Client \ {c} : Applying(d) => calls[d].token # r.token,
           r.pc \in {"compare", "restore", "mark"} =>
             jrMu' = c /\ journal[r.entry].undone = (r.way = "redo"),
           jrMu' \in Client \cup {NoClient},
           \A d \in Client \ {c} : Reversing(d) => jrMu' = d
    PROVE  JournalInv'
<1>1. /\ TypeOK /\ TokenBuysOneWrite /\ JournaledAsShown /\ MarkFindsItsEntry
      /\ HoldsMutex /\ EntriesWerePreviewed /\ CallsKnow /\ Len(previews) <= MaxPreviews
  BY DEF JournalInv
<1>2. calls'[c] = r /\ \A d \in Client \ {c} : calls'[d] = calls[d]
  BY <1>1 DEF TypeOK
<1>3. TypeOK'
  BY <1>1 DEF TypeOK
<1>4. TokenBuysOneWrite'
  <2>1. ASSUME NEW d \in Client, Applying(d)'
        PROVE  /\ calls'[d].token \notin confirmStore'
               /\ \A i \in Entries' : journal'[i].token # calls'[d].token
               /\ \A e \in Client \ {d} : Applying(e)' => calls'[e].token # calls'[d].token
    <3>1. CASE d = c
      BY <3>1, <2>1, <1>1, <1>2 DEF Applying, Entries
    <3>2. CASE d # c
      BY <3>2, <2>1, <1>1, <1>2 DEF Applying, Entries, TokenBuysOneWrite
    <3> QED BY <3>1, <3>2
  <2>2. /\ \A i \in Entries' : journal'[i].token \notin confirmStore'
        /\ \A i, j \in Entries' : i # j => journal'[i].token # journal'[j].token
    BY <1>1 DEF TokenBuysOneWrite, Entries
  <2> QED BY <2>1, <2>2 DEF TokenBuysOneWrite
<1>5. JournaledAsShown' /\ EntriesWerePreviewed' /\ (Len(previews) <= MaxPreviews)'
  BY <1>1 DEF JournaledAsShown, EntriesWerePreviewed, Entries
<1>6. MarkFindsItsEntry' /\ HoldsMutex'
  BY <1>1, <1>2 DEF MarkFindsItsEntry, HoldsMutex, Reversing
<1>7. CallsKnow'
  BY <1>1, <1>2 DEF CallsKnow
<1> QED BY <1>3, <1>4, <1>5, <1>6, <1>7 DEF JournalInv

\* A write with a token: the plan is resolved again and the call goes to its check.
LEMMA ResolveStep ==
    ASSUME JournalInv, NEW c \in Client, NEW t \in DOMAIN previews, NEW R \in Rows, NEW v \in Value,
           Resolve(c, t, R, v)
    PROVE  JournalInv'
<1> DEFINE r == [pc |-> "check", token |-> t, plan |-> PlanOf(R, v)]
<1>1. TypeOK /\ HoldsMutex
  BY DEF JournalInv
<1>2. PlanOf(R, v) \in Plan
  BY <1>1, PlanOfIsPlan DEF TypeOK
<1>3. t \in Nat
  BY <1>1 DEF TypeOK
<1>4. r \in Call
  BY <1>2, <1>3 DEF Call
<1>5. CallKnows(r, previews, journal)
  BY DEF CallKnows
<1>6. r.pc = "check" /\ calls' = [calls EXCEPT ![c] = r]
  BY DEF Resolve, Goto
<1> HIDE DEF r
<1> QED
  BY <1>1, <1>4, <1>5, <1>6, CallStep DEF Resolve, TypeOK, HoldsMutex

\* The check of a token ends the call or starts the write the token was shown for,
\* which nobody else can start any more.
LEMMA CheckStep ==
    ASSUME JournalInv, NEW c \in Client, CheckConfirmToken(c)
    PROVE  JournalInv'
<1> DEFINE r == calls[c]
<1>1. TypeOK /\ HoldsMutex /\ CallsKnow /\ TokenBuysOneWrite
  BY DEF JournalInv
<1>2. r \in Call /\ r.pc = "check"
  BY <1>1 DEF TypeOK, CheckConfirmToken, At
<1>3. r.token \in Nat /\ r.plan \in Plan
  BY <1>2, CallIsTyped
<1>4. CASE calls' = [calls EXCEPT ![c] = Idle]
  <2>1. Idle \in Call /\ CallKnows(Idle, previews, journal) /\ Idle.pc = "idle"
    BY DEF Call, CallKnows, Idle
  <2> QED BY <1>1, <1>4, <2>1, CallStep DEF CheckConfirmToken, TypeOK, HoldsMutex
<1>5. CASE /\ r.token \in confirmStore /\ previews[r.token] = r.plan
           /\ calls' = [calls EXCEPT ![c] = Writing(r.token, r.plan)]
  <2> DEFINE w == Writing(r.token, r.plan)
  <2>1. w.pc = "write" /\ w.token = r.token /\ w.plan = r.plan /\ w.done = {}
    BY DEF Writing
  <2>2. w \in Call
    BY <1>3 DEF Call, Writing
  <2>3. CallKnows(w, previews, journal)
    BY <2>1, <1>1, <1>5 DEF CallKnows, TypeOK
  <2>4. /\ w.token \notin confirmStore'
        /\ \A i \in Entries : journal[i].token # w.token
        /\ \A d \in Client \ {c} : Applying(d) => calls[d].token # w.token
    BY <2>1, <1>1, <1>5 DEF CheckConfirmToken, TokenBuysOneWrite
  <2> QED BY <1>1, <1>5, <2>1, <2>2, <2>3, <2>4, CallStep DEF CheckConfirmToken, TypeOK, HoldsMutex
<1> QED BY <1>4, <1>5 DEF CheckConfirmToken, Goto

\* While a call applies its change set, what holds of its token goes on to hold.
LEMMA ApplyingKeepsToken ==
    ASSUME JournalInv, NEW c \in Client, Applying(c)
    PROVE  /\ calls[c].token \notin confirmStore
           /\ \A i \in Entries : journal[i].token # calls[c].token
           /\ \A d \in Client \ {c} : Applying(d) => calls[d].token # calls[c].token
BY DEF JournalInv, TokenBuysOneWrite

\* A call may end at any time (an error return, or a failed database call).
LEMMA EndStep ==
    ASSUME JournalInv, NEW c \in Client,
           calls' = [calls EXCEPT ![c] = Idle],
           UNCHANGED <<books, journal, previews, confirmStore, edited>>,
           (jrMu' = jrMu /\ ~Reversing(c)) \/ (jrMu' = NoClient /\ Reversing(c))
    PROVE  JournalInv'
<1>1. TypeOK /\ HoldsMutex
  BY DEF JournalInv
<1>2. Idle \in Call /\ CallKnows(Idle, previews, journal) /\ Idle.pc = "idle"
  BY DEF Call, CallKnows, Idle
<1>3. \A d \in Client \ {c} : Reversing(d) => jrMu' = d
  BY <1>1 DEF HoldsMutex
<1>4. jrMu' \in Client \cup {NoClient}
  BY <1>1 DEF TypeOK
<1> QED BY <1>1, <1>2, <1>3, <1>4, CallStep DEF TypeOK

\* An upstream call writes some of the rows that are still to change.
LEMMA WriteRowsStep ==
    ASSUME JournalInv, NEW c \in Client, NEW R \in Rows, WriteRows(c, R)
    PROVE  JournalInv'
<1> DEFINE r == calls[c]
           w == [r EXCEPT !.done = @ \cup R, !.pc = IF Todo(c) = R THEN "read" ELSE "write"]
<1>1. TypeOK /\ HoldsMutex /\ CallsKnow
  BY DEF JournalInv
<1>2. r \in Call /\ r.pc = "write" /\ CallKnows(r, previews, journal)
  BY <1>1 DEF TypeOK, WriteRows, At, CallsKnow
<1>3. r \in [pc : {"write", "read"}, token : Nat, plan : Plan, done : SUBSET Row]
  BY <1>2, CallIsTyped
<1>4. R \subseteq Changed(r.plan) /\ R # {} /\ R \subseteq Row /\ r.plan.after \in Value
  <2>1. R \subseteq Changed(r.plan)
    BY DEF WriteRows, Todo
  <2>2. R # {} /\ R \subseteq Row
    BY DEF Rows
  <2>3. r.plan.after \in Value
    BY <1>3, PlanIsOfRows
  <2> QED BY <2>1, <2>2, <2>3
<1>5. /\ w \in [pc : {"write", "read"}, token : Nat, plan : Plan, done : SUBSET Row]
      /\ w.token = r.token /\ w.plan = r.plan /\ w.done = r.done \cup R
  BY <1>3, <1>4
<1>6. w \in Call /\ w.pc \in {"write", "read"}
  BY <1>5 DEF Call
<1>7. CallKnows(w, previews, journal)
  BY <1>2, <1>4, <1>5, <1>6 DEF CallKnows
<1>8. books' \in [Row -> Value]
  BY <1>1, <1>4 DEF WriteRows, TypeOK
<1>9. Applying(c) /\ calls' = [calls EXCEPT ![c] = w]
  BY <1>2 DEF Applying, WriteRows, Goto
<1> QED
  BY <1>1, <1>5, <1>6, <1>7, <1>8, <1>9, ApplyingKeepsToken, CallStep DEF WriteRows, TypeOK, HoldsMutex

\* A failed upstream call ends the write, or lets what was written be journaled.
LEMMA WriteFailsStep ==
    ASSUME JournalInv, NEW c \in Client, WriteFails(c)
    PROVE  JournalInv'
<1> DEFINE r == calls[c]
           w == Finishing(r)
<1>1. TypeOK /\ HoldsMutex /\ CallsKnow
  BY DEF JournalInv
<1>2. r \in Call /\ r.pc = "write" /\ CallKnows(r, previews, journal)
  BY <1>1 DEF TypeOK, WriteFails, At, CallsKnow
<1>3. CASE calls' = [calls EXCEPT ![c] = Idle]
  BY <1>2, <1>3, EndStep DEF WriteFails, Reversing
<1>4. CASE r.done # {} /\ calls' = [calls EXCEPT ![c] = w]
  <2>1. r \in [pc : {"write", "read"}, token : Nat, plan : Plan, done : SUBSET Row]
    BY <1>2, CallIsTyped
  <2>2. /\ w \in [pc : {"write", "read"}, token : Nat, plan : Plan, done : SUBSET Row]
        /\ w.pc = "read" /\ w.token = r.token /\ w.plan = r.plan /\ w.done = r.done
    BY <2>1 DEF Finishing
  <2>3. w \in Call
    BY <2>2 DEF Call
  <2>4. CallKnows(w, previews, journal)
    BY <1>2, <1>4, <2>2 DEF CallKnows
  <2>5. Applying(c)
    BY <1>2 DEF Applying
  <2> QED
    BY <1>1, <1>4, <2>2, <2>3, <2>4, <2>5, ApplyingKeepsToken, CallStep DEF WriteFails, TypeOK, HoldsMutex
<1> QED BY <1>3, <1>4 DEF WriteFails, Goto

\* The rows are read back: the call now holds both states of the rows it wrote.
LEMMA ReadAfterStep ==
    ASSUME JournalInv, NEW c \in Client, ReadAfter(c)
    PROVE  JournalInv'
<1> DEFINE r == calls[c]
           w == [pc |-> "record", token |-> r.token,
                 prior |-> [x \in r.done |-> r.plan.before[x]],
                 now |-> [x \in r.done |-> books[x]]]
<1>1. TypeOK /\ HoldsMutex /\ CallsKnow
  BY DEF JournalInv
<1>2. r \in Call /\ r.pc = "read" /\ CallKnows(r, previews, journal)
  BY <1>1 DEF TypeOK, ReadAfter, At, CallsKnow
<1>3. r \in [pc : {"write", "read"}, token : Nat, plan : Plan, done : SUBSET Row]
  BY <1>2, CallIsTyped
<1>4. r.done \in Rows /\ r.done \subseteq Changed(r.plan) /\ r.plan = previews[r.token]
  <2>1. r.done # {} /\ r.done \subseteq Changed(r.plan) /\ r.plan = previews[r.token]
    BY <1>2 DEF CallKnows
  <2>2. r.done \subseteq Row
    BY <1>3
  <2> QED BY <2>1, <2>2 DEF Rows
<1>5. w.prior \in [r.done -> Value] /\ w.now \in [r.done -> Value]
  BY <1>1, <1>3, <1>4, PlanIsOfRows DEF TypeOK, Rows
<1>6. w.prior \in Texts /\ w.now \in Texts
  BY <1>4, <1>5 DEF Texts
<1>7. w \in Call
  BY <1>3, <1>6 DEF Call
<1>8. CallKnows(w, previews, journal)
  BY <1>2, <1>4 DEF CallKnows
<1>9. Applying(c) /\ calls' = [calls EXCEPT ![c] = w] /\ w.pc = "record" /\ w.token = r.token
  BY <1>2 DEF Applying, ReadAfter, Goto
<1> QED
  BY <1>1, <1>7, <1>8, <1>9, ApplyingKeepsToken, CallStep DEF ReadAfter, TypeOK, HoldsMutex

\* Reading the rows or inserting the entry fails, and the call ends.
LEMMA RecordFailsStep ==
    ASSUME JournalInv, NEW c \in Client, RecordFails(c)
    PROVE  JournalInv'
BY EndStep DEF RecordFails, Goto, At, Reversing

\* Undo and redo choose an entry under the mutex, which nobody held.
LEMMA ChosenStep ==
    ASSUME JournalInv, NEW c \in Client, NEW way \in {"undo", "redo"}, NEW i \in Entries,
           Lock(c),
           journal[i].undone = (way = "redo"),
           calls' = [calls EXCEPT ![c] = Chosen(way, i)],
           UNCHANGED <<books, journal, previews, confirmStore, edited>>
    PROVE  JournalInv'
<1> DEFINE r == Chosen(way, i)
<1>1. TypeOK /\ HoldsMutex
  BY DEF JournalInv
<1>2. i \in Nat /\ journal[i] \in Entry
  BY <1>1 DEF TypeOK, Entries
<1>3. Touches(journal[i]) \subseteq Row
  BY <1>2, EntryIsOfRows DEF Rows
<1>4. r \in Call /\ r.pc = "compare" /\ r.way = way /\ r.entry = i /\ r.todo = Touches(journal[i])
  BY <1>2, <1>3 DEF Chosen, Call
<1>5. CallKnows(r, previews, journal)
  BY <1>4 DEF CallKnows, Entries
<1>6. jrMu' = c /\ \A d \in Client : ~Reversing(d)
  BY <1>1, JournalAssumption DEF Lock, HoldsMutex
<1>7. calls' = [calls EXCEPT ![c] = r]
  OBVIOUS
<1> HIDE DEF r
<1> QED BY <1>1, <1>4, <1>5, <1>6, <1>7, CallStep DEF TypeOK

\* Undo chooses an active entry, redo an undone one.
LEMMA BeginStep ==
    ASSUME JournalInv, NEW c \in Client, BeginUndo(c) \/ BeginRedo(c)
    PROVE  JournalInv'
<1>1. journal \in Seq(Entry)
  BY DEF JournalInv, TypeOK
<1>2. CASE BeginUndo(c)
  <2>1. PICK i \in LatestActive : Goto(c, Chosen("undo", i))
    BY <1>2 DEF BeginUndo
  <2>2. i \in Entries /\ journal[i].undone = ("undo" = "redo")
    <3>1. i \in Entries /\ ~journal[i].undone
      BY DEF LatestActive, Active
    <3>2. journal[i] \in Entry
      BY <1>1, <3>1 DEF Entries
    <3> QED BY <3>1, <3>2, EntryIsOfRows
  <2> QED BY <1>2, <2>1, <2>2, ChosenStep DEF BeginUndo, Goto
<1>3. CASE BeginRedo(c)
  <2>1. PICK i \in RedoCandidate : Goto(c, Chosen("redo", i))
    BY <1>3 DEF BeginRedo
  <2>2. i \in Entries /\ journal[i].undone = ("redo" = "redo")
    <3>1. i \in Entries /\ journal[i].undone
      BY DEF RedoCandidate, RedoStack
    <3>2. journal[i] \in Entry
      BY <1>1, <3>1 DEF Entries
    <3> QED BY <3>1, <3>2, EntryIsOfRows
  <2> QED BY <1>3, <2>1, <2>2, ChosenStep DEF BeginRedo, Goto
<1> QED BY <1>2, <1>3

\* What is known of a call that undoes or redoes: it alone does, and its entry and
\* rows are there.
LEMMA ReversingKnows ==
    ASSUME JournalInv, NEW c \in Client, Reversing(c)
    PROVE  /\ calls[c] \in [pc : {"compare", "restore", "mark"}, way : {"undo", "redo"}, entry : Nat, todo : SUBSET Row]
           /\ CallKnows(calls[c], previews, journal)
           /\ calls[c].entry \in Entries
           /\ calls[c].todo \subseteq Touches(journal[calls[c].entry])
           /\ journal[calls[c].entry] \in Entry
           /\ journal[calls[c].entry].undone = (calls[c].way = "redo")
           /\ jrMu = c
           /\ \A d \in Client \ {c} : ~Reversing(d)
<1>1. TypeOK /\ CallsKnow /\ HoldsMutex /\ MarkFindsItsEntry
  BY DEF JournalInv
<1>2. calls[c] \in Call /\ calls[c].pc \in {"compare", "restore", "mark"}
  BY <1>1 DEF TypeOK, Reversing
<1>3. CallKnows(calls[c], previews, journal)
  BY <1>1 DEF CallsKnow
<1>4. calls[c].entry \in Entries /\ calls[c].todo \subseteq Touches(journal[calls[c].entry])
  BY <1>2, <1>3 DEF CallKnows, Entries
<1>5. journal[calls[c].entry] \in Entry
  BY <1>1, <1>4 DEF TypeOK, Entries
<1>6. jrMu = c /\ \A d \in Client \ {c} : ~Reversing(d)
  BY <1>1 DEF HoldsMutex
<1> QED BY <1>1, <1>2, <1>3, <1>4, <1>5, <1>6, CallIsTyped DEF MarkFindsItsEntry

\* The comparison lets the call go on to restore or ends it.
LEMMA CompareStep ==
    ASSUME JournalInv, NEW c \in Client, CompareRows(c)
    PROVE  JournalInv'
<1> DEFINE r == calls[c]
           w == [r EXCEPT !.pc = "restore"]
<1>1. TypeOK /\ r.pc = "compare" /\ Reversing(c)
  BY DEF JournalInv, CompareRows, At, Reversing
<1>2. CASE calls' = [calls EXCEPT ![c] = w] /\ UNCHANGED jrMu
  <2>1. /\ w \in [pc : {"compare", "restore", "mark"}, way : {"undo", "redo"}, entry : Nat, todo : SUBSET Row]
        /\ w.pc = "restore" /\ w.way = r.way /\ w.entry = r.entry /\ w.todo = r.todo
    BY <1>1, ReversingKnows
  <2>2. w \in Call
    BY <2>1 DEF Call
  <2>3. CallKnows(w, previews, journal)
    BY <1>1, <2>1, ReversingKnows DEF CallKnows, Entries
  <2>4. UNCHANGED <<books, journal, previews, confirmStore, edited>>
    BY DEF CompareRows
  <2> HIDE DEF w
  <2> QED BY <1>1, <1>2, <2>1, <2>2, <2>3, <2>4, ReversingKnows, CallStep DEF TypeOK
<1>3. CASE Unlock(c)
  BY <1>1, <1>3, EndStep DEF CompareRows, Unlock, Goto
<1> QED BY <1>2, <1>3 DEF CompareRows, Goto

\* One row is written back.
LEMMA RestoreStep ==
    ASSUME JournalInv, NEW c \in Client, NEW x \in Row, RestoreRow(c, x)
    PROVE  JournalInv'
<1> DEFINE r == calls[c]
           w == [r EXCEPT !.todo = @ \ {x}, !.pc = IF r.todo = {x} THEN "mark" ELSE "restore"]
<1>1. TypeOK /\ r.pc = "restore" /\ Reversing(c)
  BY DEF JournalInv, RestoreRow, At, Reversing
<1>2. /\ w \in [pc : {"compare", "restore", "mark"}, way : {"undo", "redo"}, entry : Nat, todo : SUBSET Row]
      /\ w.pc \in {"mark", "restore"} /\ w.way = r.way /\ w.entry = r.entry /\ w.todo \subseteq r.todo
  BY <1>1, ReversingKnows
<1>3. w \in Call
  BY <1>2 DEF Call
<1>4. CallKnows(w, previews, journal)
  BY <1>1, <1>2, ReversingKnows DEF CallKnows, Entries
<1>5. Target(r)[x] \in Value
  <2>1. x \in Touches(journal[r.entry])
    BY <1>1, ReversingKnows DEF RestoreRow
  <2> QED BY <1>1, <2>1, ReversingKnows, EntryIsOfRows DEF Target
<1>6. books' \in [Row -> Value]
  BY <1>1, <1>5 DEF RestoreRow, TypeOK
<1>7. calls' = [calls EXCEPT ![c] = w] /\ UNCHANGED <<journal, previews, confirmStore, jrMu, edited>>
  BY DEF RestoreRow, Goto
<1> HIDE DEF w
<1> QED BY <1>1, <1>2, <1>3, <1>4, <1>6, <1>7, ReversingKnows, CallStep DEF TypeOK

\* A failure of undo or redo ends it and gives up the mutex.
LEMMA UndoFailsStep ==
    ASSUME JournalInv, NEW c \in Client, UndoFails(c)
    PROVE  JournalInv'
BY EndStep DEF UndoFails, Unlock, Goto, At, Reversing

-----------------------------------------------------------------------------
(* The steps that write the journal, and those around the plane *)

\* RecordJournal appends the entry of the call; the other entries stay as they are but
\* for the closing of those undone before.
LEMMA RecordAppends ==
    ASSUME JournalInv, NEW c \in Client, RecordJournal(c)
    PROVE  /\ Len(journal) \in Nat /\ Entries = 1 .. Len(journal)
           /\ journal' \in Seq(Entry) /\ Entries' = 1 .. Len(journal) + 1
           /\ journal'[Len(journal) + 1].prior = calls[c].prior
           /\ journal'[Len(journal) + 1].now = calls[c].now
           /\ journal'[Len(journal) + 1].token = calls[c].token
           /\ ~journal'[Len(journal) + 1].undone
           /\ \A i \in Entries : /\ journal'[i].undone = journal[i].undone
                                 /\ journal'[i].prior = journal[i].prior
                                 /\ journal'[i].now = journal[i].now
                                 /\ journal'[i].token = journal[i].token
<1> DEFINE r == calls[c]
           entry == [undone |-> FALSE, prior |-> r.prior, now |-> r.now,
                     token |-> r.token, closed |-> FALSE]
           old == [i \in Entries |-> [journal[i] EXCEPT !.closed = journal[i].undone \/ @]]
           n == Len(journal)
<1>1. TypeOK /\ CallsKnow /\ Len(previews) <= MaxPreviews
  BY DEF JournalInv
<1>2. r \in Call /\ r.pc = "record" /\ CallKnows(r, previews, journal)
  BY <1>1 DEF TypeOK, RecordJournal, At, CallsKnow
<1>3. entry \in Entry
  <2>1. r \in [pc : {"record"}, token : Nat, prior : Texts, now : Texts]
    BY <1>2, CallIsTyped
  <2>2. PICK R \in Rows : r.prior \in [R -> Value]
    BY <2>1 DEF Texts
  <2>3. PICK Q \in Rows : r.now \in [Q -> Value]
    BY <2>1 DEF Texts
  <2>4. Q = R
    BY <1>2, <2>2, <2>3 DEF CallKnows
  <2>5. r.token \in 1 .. MaxPreviews
    BY <1>1, <1>2, JournalAssumption DEF CallKnows, TypeOK
  <2>6. entry \in [undone : BOOLEAN, prior : [R -> Value], now : [R -> Value],
                   token : 1 .. MaxPreviews, closed : BOOLEAN]
    BY <2>2, <2>3, <2>4, <2>5
  <2> QED BY <2>6 DEF Entry
<1>4. n \in Nat /\ Entries = 1 .. n /\ \A i \in Entries : journal[i] \in Entry
  BY <1>1 DEF TypeOK, Entries
<1>5. \A i \in Entries : old[i] \in Entry
  BY <1>4, EntryIsOfRows, MarkedIsEntry
<1>6. old \in Seq(Entry) /\ Len(old) = n
  BY <1>4, <1>5
<1>7. journal' = Append(old, entry)
  BY DEF RecordJournal
<1> HIDE DEF entry, old
<1>8. /\ journal' \in Seq(Entry)
      /\ Entries' = 1 .. n + 1
      /\ journal'[n + 1] = entry
      /\ \A i \in Entries : journal'[i] = old[i]
  BY <1>3, <1>4, <1>6, <1>7 DEF Entries
<1>9. \A i \in Entries : /\ journal'[i].undone = journal[i].undone
                         /\ journal'[i].prior = journal[i].prior
                         /\ journal'[i].now = journal[i].now
                         /\ journal'[i].token = journal[i].token
  <2>1. ASSUME NEW i \in Entries
        PROVE  LET o == [journal[i] EXCEPT !.closed = journal[i].undone \/ @]
               IN  o.undone = journal[i].undone /\ o.prior = journal[i].prior /\ o.now = journal[i].now /\ o.token = journal[i].token
    <3>1. PICK R \in Rows : journal[i] \in [undone : BOOLEAN, prior : [R -> Value], now : [R -> Value],
                                            token : 1 .. MaxPreviews, closed : BOOLEAN]
      BY <1>4 DEF Entry
    <3> QED BY <3>1
  <2> QED BY <1>8, <2>1 DEF old
<1>10. entry.prior = r.prior /\ entry.now = r.now /\ entry.token = r.token /\ ~entry.undone
  BY DEF entry
<1> QED BY <1>4, <1>8, <1>9, <1>10

\* RecordJournal inserts the entry of the call's token, the first of that token, and
\* the call ends; entries undone before are closed.
LEMMA RecordStep ==
    ASSUME JournalInv, NEW c \in Client, RecordJournal(c)
    PROVE  JournalInv'
<1> DEFINE r == calls[c]
           n == Len(journal)
           entry == journal'[n + 1]
<1>1. /\ TypeOK /\ TokenBuysOneWrite /\ JournaledAsShown /\ MarkFindsItsEntry
      /\ HoldsMutex /\ EntriesWerePreviewed /\ CallsKnow /\ Len(previews) <= MaxPreviews
  BY DEF JournalInv
<1>2. r \in Call /\ r.pc = "record" /\ CallKnows(r, previews, journal) /\ Applying(c) /\ ~Reversing(c)
  BY <1>1 DEF TypeOK, RecordJournal, At, CallsKnow, Applying, Reversing
<1>4. n \in Nat /\ Entries = 1 .. n
  BY RecordAppends
<1>7. /\ calls' = [calls EXCEPT ![c] = Idle]
      /\ UNCHANGED <<books, previews, confirmStore, jrMu, edited>>
  BY DEF RecordJournal, Goto
<1>8. /\ journal' \in Seq(Entry)
      /\ Entries' = 1 .. n + 1
      /\ journal'[n + 1] = entry
  BY RecordAppends
<1>9. \A i \in Entries : /\ journal'[i].undone = journal[i].undone
                         /\ journal'[i].prior = journal[i].prior
                         /\ journal'[i].token = journal[i].token
  BY RecordAppends
<1>10. entry.prior = r.prior /\ entry.now = r.now /\ entry.token = r.token
  BY RecordAppends
<1> HIDE DEF entry
<1>11. calls'[c] = Idle /\ \A d \in Client \ {c} : calls'[d] = calls[d]
  BY <1>1, <1>7 DEF TypeOK
<1>12. TypeOK'
  BY <1>1, <1>7, <1>8 DEF TypeOK, Call
<1>13. TokenBuysOneWrite'
  <2>1. r.token \notin confirmStore /\ \A i \in Entries : journal[i].token # r.token
    BY <1>2, ApplyingKeepsToken
  <2>2. ASSUME NEW i \in Entries'
        PROVE  journal'[i].token \notin confirmStore'
    <3>1. CASE i \in Entries
      BY <1>1, <1>7, <1>9, <3>1 DEF TokenBuysOneWrite
    <3>2. CASE i = n + 1
      BY <1>7, <1>8, <1>10, <2>1, <3>2
    <3> QED BY <1>4, <1>8, <3>1, <3>2
  <2>3. \A i, j \in Entries' : i # j => journal'[i].token # journal'[j].token
    <3>1. \A i \in Entries' : i \in Entries \/ i = n + 1
      BY <1>4, <1>8
    <3>2. journal'[n + 1].token = r.token
      BY <1>8, <1>10
    <3>3. \A i \in Entries : journal'[i].token = journal[i].token /\ journal'[i].token # r.token
      BY <1>9, <2>1
    <3>4. \A i, j \in Entries : i # j => journal[i].token # journal[j].token
      BY <1>1 DEF TokenBuysOneWrite
    <3> QED BY <3>1, <3>2, <3>3, <3>4
  <2>4. ASSUME NEW d \in Client, Applying(d)'
        PROVE  /\ calls'[d].token \notin confirmStore'
               /\ \A i \in Entries' : journal'[i].token # calls'[d].token
               /\ \A e \in Client \ {d} : Applying(e)' => calls'[e].token # calls'[d].token
    <3>1. d # c /\ calls'[d] = calls[d] /\ Applying(d)
      BY <1>11, <2>4 DEF Applying, Idle
    <3>2. /\ calls[d].token \notin confirmStore
          /\ \A i \in Entries : journal[i].token # calls[d].token
          /\ \A e \in Client \ {d} : Applying(e) => calls[e].token # calls[d].token
      BY <3>1, ApplyingKeepsToken
    <3>3. \A i \in Entries' : journal'[i].token # calls'[d].token
      BY <1>2, <1>4, <1>8, <1>9, <1>10, <3>1, <3>2
    <3>4. \A e \in Client \ {d} : Applying(e)' => calls'[e].token # calls'[d].token
      BY <1>11, <3>1, <3>2 DEF Applying, Idle
    <3>5. calls'[d].token \notin confirmStore'
      BY <1>7, <3>1, <3>2
    <3> QED BY <3>3, <3>4, <3>5
  <2> QED BY <2>2, <2>3, <2>4 DEF TokenBuysOneWrite
<1>14. JournaledAsShown'
  <2>1. \A x \in Touches(entry) : x \in Changed(previews[entry.token]) /\ entry.prior[x] = previews[entry.token].before[x]
    BY <1>2, <1>10 DEF CallKnows, Touches
  <2>2. \A i \in Entries' : i \in Entries \/ i = n + 1
    BY <1>4, <1>8
  <2>3. ASSUME NEW i \in Entries', NEW x \in Touches(journal'[i])
        PROVE  x \in Changed(previews[journal'[i].token]) /\ journal'[i].prior[x] = previews[journal'[i].token].before[x]
    BY <1>1, <1>8, <1>9, <2>1, <2>2, <2>3 DEF JournaledAsShown, Touches
  <2> QED BY <1>7, <2>3 DEF JournaledAsShown
<1>15. EntriesWerePreviewed' /\ (Len(previews) <= MaxPreviews)'
  <2>1. r.token \in DOMAIN previews
    BY <1>2 DEF CallKnows
  <2>2. \A i \in Entries' : journal'[i].token \in DOMAIN previews
    <3>1. \A i \in Entries : journal'[i].token \in DOMAIN previews
      BY <1>1, <1>9 DEF EntriesWerePreviewed
    <3>2. \A i \in Entries' : i \in Entries \/ i = n + 1
      BY <1>4, <1>8
    <3> QED BY <1>8, <1>10, <2>1, <3>1, <3>2
  <2> QED BY <1>1, <1>7, <2>2 DEF EntriesWerePreviewed
<1>16. MarkFindsItsEntry' /\ HoldsMutex'
  <2>1. ASSUME NEW d \in Client, Reversing(d)'
        PROVE  journal'[calls'[d].entry].undone = (calls'[d].way = "redo") /\ jrMu' = d
    <3>1. d # c /\ calls'[d] = calls[d] /\ Reversing(d)
      BY <1>11, <2>1 DEF Reversing, Idle
    <3>2. /\ calls[d].entry \in Entries /\ jrMu = d
          /\ journal[calls[d].entry].undone = (calls[d].way = "redo")
      BY <3>1, ReversingKnows
    <3>3. journal'[calls[d].entry].undone = journal[calls[d].entry].undone
      BY <1>9, <3>2
    <3> QED BY <1>7, <3>1, <3>2, <3>3
  <2> QED BY <2>1 DEF MarkFindsItsEntry, HoldsMutex
<1>17. CallsKnow'
  <2>1. CallKnows(Idle, previews', journal')
    BY DEF CallKnows, Idle
  <2>2. \A i \in DOMAIN journal : i \in DOMAIN journal' /\ journal'[i].prior = journal[i].prior
    BY <1>4, <1>8, <1>9 DEF Entries
  <2>3. \A d \in Client \ {c} : CallKnows(calls[d], previews', journal')
    BY <1>1, <1>7, <2>2, KnowledgeStays DEF CallsKnow
  <2> QED BY <1>11, <2>1, <2>3 DEF CallsKnow
<1> QED BY <1>12, <1>13, <1>14, <1>15, <1>16, <1>17 DEF JournalInv

\* jrMarkUndone turns the entry the call chose, and no other.
LEMMA MarkTurns ==
    ASSUME JournalInv, NEW c \in Client, MarkUndone(c)
    PROVE  /\ journal' \in Seq(Entry)
           /\ Entries' = Entries
           /\ journal'[calls[c].entry].undone = (calls[c].way = "undo")
           /\ \A i \in Entries \ {calls[c].entry} : journal'[i].undone = journal[i].undone
           /\ \A i \in Entries : /\ journal'[i].prior = journal[i].prior
                                 /\ journal'[i].now = journal[i].now
                                 /\ journal'[i].token = journal[i].token
<1> DEFINE r == calls[c]
           k == r.entry
           undone == r.way = "undo"
           marked == [journal[k] EXCEPT !.undone = undone, !.closed = FALSE]
<1>1. TypeOK
  BY DEF JournalInv
<1>2. Reversing(c)
  BY DEF MarkUndone, At, Reversing
<1>3. k \in Entries /\ journal[k] \in Entry /\ journal[k].undone = (r.way = "redo") /\ r.way \in {"undo", "redo"}
  BY <1>2, ReversingKnows
<1>4. /\ marked \in Entry /\ marked.undone = undone /\ marked.prior = journal[k].prior
      /\ marked.now = journal[k].now /\ marked.token = journal[k].token
  <2>1. undone \in BOOLEAN
    OBVIOUS
  <2>2. PICK R \in Rows : journal[k] \in [undone : BOOLEAN, prior : [R -> Value], now : [R -> Value],
                                          token : 1 .. MaxPreviews, closed : BOOLEAN]
    BY <1>3 DEF Entry
  <2> QED BY <1>3, <2>1, <2>2, MarkedIsEntry
<1>5. journal' = [journal EXCEPT ![k] = marked]
  <2>1. journal' = [journal EXCEPT ![k] = IF journal[k].undone = undone THEN journal[k] ELSE marked]
    BY DEF MarkUndone
  <2>2. journal[k].undone # undone
    BY <1>3
  <2> QED BY <2>1, <2>2
<1> HIDE DEF marked
<1> QED BY <1>1, <1>3, <1>4, <1>5 DEF TypeOK, Entries

\* The mark turns the entry the call chose, which is as it was chosen, and the call
\* gives up the mutex.
LEMMA MarkStep ==
    ASSUME JournalInv, NEW c \in Client, MarkUndone(c)
    PROVE  JournalInv'
<1> DEFINE r == calls[c]
           k == r.entry
<1>1. /\ TypeOK /\ TokenBuysOneWrite /\ JournaledAsShown /\ MarkFindsItsEntry
      /\ HoldsMutex /\ EntriesWerePreviewed /\ CallsKnow /\ Len(previews) <= MaxPreviews
  BY DEF JournalInv
<1>2. Reversing(c)
  BY DEF MarkUndone, At, Reversing
<1>3. k \in Entries /\ \A d \in Client \ {c} : ~Reversing(d)
  BY <1>2, ReversingKnows
<1>6. /\ journal' \in Seq(Entry)
      /\ Entries' = Entries
      /\ \A i \in Entries : journal'[i].prior = journal[i].prior /\ journal'[i].token = journal[i].token
  BY MarkTurns
<1>7. /\ calls' = [calls EXCEPT ![c] = Idle] /\ jrMu' = NoClient
      /\ UNCHANGED <<books, previews, confirmStore, edited>>
  BY DEF MarkUndone, Unlock, Goto
<1>8. calls'[c] = Idle /\ \A d \in Client \ {c} : calls'[d] = calls[d]
  BY <1>1, <1>7 DEF TypeOK
<1>9. TypeOK'
  BY <1>1, <1>6, <1>7 DEF TypeOK, Call
<1>10. TokenBuysOneWrite'
  <2>1. ASSUME NEW d \in Client, Applying(d)'
        PROVE  /\ calls'[d].token \notin confirmStore'
               /\ \A i \in Entries' : journal'[i].token # calls'[d].token
               /\ \A e \in Client \ {d} : Applying(e)' => calls'[e].token # calls'[d].token
    <3>1. d # c /\ calls'[d] = calls[d] /\ Applying(d)
      BY <1>8, <2>1 DEF Applying, Idle
    <3>2. /\ calls[d].token \notin confirmStore
          /\ \A i \in Entries : journal[i].token # calls[d].token
          /\ \A e \in Client \ {d} : Applying(e) => calls[e].token # calls[d].token
      BY <3>1, ApplyingKeepsToken
    <3>3. calls'[d].token \notin confirmStore'
      BY <1>7, <3>1, <3>2
    <3>4. \A i \in Entries' : journal'[i].token # calls'[d].token
      BY <1>6, <3>1, <3>2
    <3>5. \A e \in Client \ {d} : Applying(e)' => calls'[e].token # calls'[d].token
      BY <1>8, <3>1, <3>2 DEF Applying, Idle
    <3> QED BY <3>3, <3>4, <3>5
  <2>2. \A i \in Entries' : journal'[i].token \notin confirmStore'
    BY <1>1, <1>6, <1>7 DEF TokenBuysOneWrite
  <2>3. \A i, j \in Entries' : i # j => journal'[i].token # journal'[j].token
    BY <1>1, <1>6 DEF TokenBuysOneWrite
  <2> QED BY <2>1, <2>2, <2>3 DEF TokenBuysOneWrite
<1>11. JournaledAsShown'
  BY <1>1, <1>6, <1>7 DEF JournaledAsShown, Touches
<1>12. EntriesWerePreviewed' /\ (Len(previews) <= MaxPreviews)'
  BY <1>1, <1>6, <1>7 DEF EntriesWerePreviewed
<1>13. MarkFindsItsEntry' /\ HoldsMutex'
  <2>1. \A d \in Client : ~Reversing(d)'
    BY <1>3, <1>8 DEF Reversing, Idle
  <2> QED BY <2>1 DEF MarkFindsItsEntry, HoldsMutex
<1>14. CallsKnow'
  <2>1. CallKnows(Idle, previews', journal')
    BY DEF CallKnows, Idle
  <2>2. \A i \in DOMAIN journal : i \in DOMAIN journal' /\ journal'[i].prior = journal[i].prior
    BY <1>6 DEF Entries
  <2>3. \A d \in Client \ {c} : CallKnows(calls[d], previews', journal')
    BY <1>1, <1>7, <2>2, KnowledgeStays DEF CallsKnow
  <2> QED BY <1>8, <2>1, <2>3 DEF CallsKnow
<1> QED BY <1>9, <1>10, <1>11, <1>12, <1>13, <1>14 DEF JournalInv

\* A dry run adds a preview and a token nobody has used.
LEMMA PreviewStep ==
    ASSUME JournalInv, NEW c \in Client, NEW R \in Rows, NEW v \in Value, Preview(c, R, v)
    PROVE  JournalInv'
<1> DEFINE p == PlanOf(R, v)
           n == Len(previews)
<1>1. /\ TypeOK /\ TokenBuysOneWrite /\ JournaledAsShown /\ MarkFindsItsEntry
      /\ HoldsMutex /\ EntriesWerePreviewed /\ CallsKnow
  BY DEF JournalInv
<1>2. p \in Plan
  BY <1>1, PlanOfIsPlan DEF TypeOK
<1>3. /\ n < MaxPreviews
      /\ previews' = Append(previews, p)
      /\ confirmStore' = confirmStore \cup {n + 1}
      /\ UNCHANGED <<books, journal, jrMu, calls, edited>>
  BY DEF Preview
<1> HIDE DEF p
<1>4. /\ n \in Nat /\ DOMAIN previews = 1 .. n /\ DOMAIN previews' = 1 .. n + 1 /\ Len(previews') = n + 1
      /\ previews' \in Seq(Plan)
      /\ \A t \in DOMAIN previews : previews'[t] = previews[t]
  BY <1>1, <1>2, <1>3 DEF TypeOK
<1>5. TypeOK' /\ (Len(previews) <= MaxPreviews)'
  BY <1>1, <1>3, <1>4, JournalAssumption DEF TypeOK
<1>6. n + 1 \notin DOMAIN previews
  BY <1>4
<1>7. TokenBuysOneWrite'
  <2>1. \A i \in Entries : journal[i].token # n + 1
    BY <1>1, <1>6 DEF EntriesWerePreviewed
  <2>2. \A d \in Client : Applying(d) => calls[d].token # n + 1
    BY <1>1, <1>6 DEF CallsKnow, CallKnows, Applying
  <2> QED BY <1>1, <1>3, <2>1, <2>2 DEF TokenBuysOneWrite, Applying, Entries
<1>8. JournaledAsShown' /\ EntriesWerePreviewed'
  BY <1>1, <1>3, <1>4 DEF JournaledAsShown, EntriesWerePreviewed, Entries
<1>9. MarkFindsItsEntry' /\ HoldsMutex'
  BY <1>1, <1>3 DEF MarkFindsItsEntry, HoldsMutex, Reversing
<1>10. CallsKnow'
  <2>1. \A t \in DOMAIN previews : t \in DOMAIN previews' /\ previews'[t] = previews[t]
    BY <1>4
  <2>2. \A d \in Client : CallKnows(calls[d], previews', journal)
    BY <1>1, <2>1, KnowledgeStays DEF CallsKnow
  <2> QED BY <1>3, <2>2 DEF CallsKnow
<1> QED BY <1>5, <1>7, <1>8, <1>9, <1>10 DEF JournalInv

\* Tokens that expire, edits in the browser and steps of nobody leave the journal, the
\* previews and the calls alone.
LEMMA AsideStep ==
    ASSUME JournalInv,
           confirmStore' \subseteq confirmStore,
           books' \in [Row -> Value],
           edited' \subseteq Row,
           UNCHANGED <<journal, previews, jrMu, calls>>
    PROVE  JournalInv'
<1>1. /\ TypeOK /\ TokenBuysOneWrite /\ JournaledAsShown /\ MarkFindsItsEntry
      /\ HoldsMutex /\ EntriesWerePreviewed /\ CallsKnow /\ Len(previews) <= MaxPreviews
  BY DEF JournalInv
<1>2. TypeOK' /\ (Len(previews) <= MaxPreviews)'
  BY <1>1 DEF TypeOK
<1>3. TokenBuysOneWrite'
  BY <1>1 DEF TokenBuysOneWrite, Applying, Entries
<1>4. JournaledAsShown' /\ EntriesWerePreviewed' /\ MarkFindsItsEntry' /\ HoldsMutex' /\ CallsKnow'
  BY <1>1 DEF JournaledAsShown, EntriesWerePreviewed, Entries, MarkFindsItsEntry, HoldsMutex, Reversing, CallsKnow
<1> QED BY <1>2, <1>3, <1>4 DEF JournalInv

\* A crash ends every call, and keeps the books and the journal.
LEMMA CrashStep ==
    ASSUME JournalInv, Crash
    PROVE  JournalInv'
<1>1. /\ TypeOK /\ TokenBuysOneWrite /\ JournaledAsShown /\ EntriesWerePreviewed /\ Len(previews) <= MaxPreviews
  BY DEF JournalInv
<1>2. \A c \in Client : calls'[c].pc = "idle" /\ calls'[c] = Idle
  BY DEF Crash, Idle
<1>3. TypeOK' /\ (Len(previews) <= MaxPreviews)'
  BY <1>1 DEF TypeOK, Crash, Call
<1>4. TokenBuysOneWrite'
  BY <1>1, <1>2 DEF TokenBuysOneWrite, Applying, Entries, Crash
<1>5. JournaledAsShown' /\ EntriesWerePreviewed'
  BY <1>1 DEF JournaledAsShown, EntriesWerePreviewed, Entries, Crash
<1>6. MarkFindsItsEntry' /\ HoldsMutex' /\ CallsKnow'
  BY <1>2 DEF MarkFindsItsEntry, HoldsMutex, CallsKnow, CallKnows, Reversing
<1> QED BY <1>3, <1>4, <1>5, <1>6 DEF JournalInv

-----------------------------------------------------------------------------
(* The theorems *)

\* The invariant holds at the start: nothing was previewed, written or journaled.
LEMMA JournalInit == Init => JournalInv
<1> SUFFICES ASSUME Init PROVE JournalInv
  OBVIOUS
<1>1. TypeOK /\ Len(previews) <= MaxPreviews
  BY JournalAssumption DEF Init, TypeOK, Call
<1>2. Entries = {} /\ confirmStore = {} /\ \A c \in Client : calls[c] = Idle
  BY DEF Init, Entries
<1>3. TokenBuysOneWrite /\ JournaledAsShown /\ MarkFindsItsEntry /\ HoldsMutex /\ EntriesWerePreviewed
  BY <1>2 DEF TokenBuysOneWrite, JournaledAsShown, MarkFindsItsEntry, HoldsMutex, EntriesWerePreviewed,
              Applying, Reversing, Idle
<1>4. CallsKnow
  <2>1. CallKnows(Idle, previews, journal)
    BY DEF CallKnows, Idle
  <2> QED BY <1>2, <2>1 DEF CallsKnow
<1> QED BY <1>1, <1>3, <1>4 DEF JournalInv

\* Every step of the plane keeps the invariant.
LEMMA JournalStep == JournalInv /\ [Next]_vars => JournalInv'
<1> SUFFICES ASSUME JournalInv, [Next]_vars PROVE JournalInv'
  OBVIOUS
<1>1. TypeOK
  BY DEF JournalInv
<1>2. ASSUME NEW c \in Client,
             \/ \E R \in Rows, v \in Value : Preview(c, R, v) \/ \E t \in DOMAIN previews : Resolve(c, t, R, v)
             \/ CheckConfirmToken(c)
             \/ \E R \in Rows : WriteRows(c, R)
             \/ WriteFails(c) \/ ReadAfter(c) \/ RecordJournal(c) \/ RecordFails(c)
      PROVE  JournalInv'
  BY <1>2, PreviewStep, ResolveStep, CheckStep, WriteRowsStep, WriteFailsStep, ReadAfterStep, RecordStep, RecordFailsStep
<1>3. ASSUME NEW c \in Client,
             \/ BeginUndo(c) \/ BeginRedo(c) \/ CompareRows(c)
             \/ \E x \in Row : RestoreRow(c, x)
             \/ MarkUndone(c) \/ UndoFails(c)
      PROVE  JournalInv'
  BY <1>3, BeginStep, CompareStep, RestoreStep, MarkStep, UndoFailsStep
<1>4. CASE \E t \in DOMAIN previews : Expire(t)
  BY <1>1, <1>4, AsideStep DEF Expire, TypeOK
<1>5. ASSUME NEW x \in Row, NEW v \in Value, Edit(x, v)
      PROVE  JournalInv'
  BY <1>1, <1>5, AsideStep DEF Edit, TypeOK
<1>6. CASE Crash
  BY <1>6, CrashStep
<1>7. CASE UNCHANGED vars
  BY <1>1, <1>7, AsideStep DEF vars, TypeOK
<1> QED BY <1>2, <1>3, <1>4, <1>5, <1>6, <1>7 DEF Next

\* JournalInv holds in every reachable state of the machine write plane.
THEOREM JournalIsInductive == Spec => []JournalInv
<1>1. Init => JournalInv
  BY JournalInit
<1>2. JournalInv /\ [Next]_vars => JournalInv'
  BY JournalStep
<1> QED BY <1>1, <1>2, PTL DEF Spec

\* The books, the journal and the locals of every call are what they should be.
THEOREM JournalIsTyped == Spec => []TypeOK
<1>1. JournalInv => TypeOK
  BY DEF JournalInv
<1> QED BY <1>1, JournalIsInductive, PTL

\* One preview pays for one write (RunWrite and checkConfirmToken).
THEOREM JournalTokensBuyOneWrite == Spec => []TokenBuysOneWrite
<1>1. JournalInv => TokenBuysOneWrite
  BY DEF JournalInv
<1> QED BY <1>1, JournalIsInductive, PTL

\* What a write journals is what its preview showed (txnBulkFinish).
THEOREM JournalRecordsWhatWasShown == Spec => []JournaledAsShown
<1>1. JournalInv => JournaledAsShown
  BY DEF JournalInv
<1> QED BY <1>1, JournalIsInductive, PTL

\* The mark that ends an undo or redo finds its entry as it was chosen (jrMarkUndone).
THEOREM JournalMarksWhatWasChosen == Spec => []MarkFindsItsEntry
<1>1. JournalInv => MarkFindsItsEntry
  BY DEF JournalInv
<1> QED BY <1>1, JournalIsInductive, PTL

-----------------------------------------------------------------------------
(* One writer: the active entries chain *)

\* the entries of a journal js, not undone, that touched row x
About(js, x) == {i \in DOMAIN js : ~js[i].undone /\ x \in Touches(js[i])}

\* the newest of them left the row with value v
NewestLeft(js, x, v) ==
    \A i \in About(js, x) : (\A j \in About(js, x) : j <= i) => v = js[i].now[x]

\* each of them found the row as the one before it had left it
Linked(js, x) ==
    \A i \in About(js, x) : \A j \in About(js, x) :
        j < i /\ (\A k \in About(js, x) : k <= j \/ i <= k) => js[i].prior[x] = js[j].now[x]

Halfway(r) == r.pc \in {"restore", "mark"}

\* the value of row x, now b, before the call with locals r began to change it
Was(r, x, b) ==
    IF r.pc \in {"write", "read"} /\ x \in r.done THEN r.plan.before[x]
    ELSE IF r.pc = "record" /\ x \in DOMAIN r.prior THEN r.prior[x]
    ELSE IF Halfway(r) /\ x \in Touches(journal[r.entry]) THEN Expected(r)[x]
    ELSE b

\* what the call knows of row x, which nobody edits
RowKnown(r, x, b) ==
    /\ r.pc = "check" /\ x \in DOMAIN r.plan.before => b = r.plan.before[x]
    /\ r.pc = "write" /\ x \in Changed(r.plan) \ r.done => b = r.plan.before[x]
    /\ r.pc = "record" /\ x \in DOMAIN r.prior => b = r.now[x]
    /\ Halfway(r) /\ x \in Touches(journal[r.entry]) =>
         b = IF x \in r.todo THEN Expected(r)[x] ELSE Target(r)[x]

\* an undo chose the newest active entry, a redo one above every active entry
OnTop(r) ==
    /\ r.pc \in {"compare", "restore", "mark"} =>
         /\ journal[r.entry].undone = (r.way = "redo")
         /\ \A j \in Active : j <= r.entry
    /\ r.pc = "compare" => r.todo = Touches(journal[r.entry])
    /\ r.pc = "mark" => r.todo = {}

RowInv(c, x) ==
    /\ Linked(journal, x)
    /\ NewestLeft(journal, x, Was(calls[c], x, books[x]))
    /\ RowKnown(calls[c], x, books[x])

ChainInv(c) ==
    /\ OnTop(calls[c])
    /\ \A x \in Row \ edited : RowInv(c, x)

\* Entries that keep their rows and their states keep the chain.
LEMMA ChainStays ==
    ASSUME NEW js, NEW ks, NEW x, NEW v,
           About(ks, x) = About(js, x),
           \A i \in About(js, x) : ks[i].prior = js[i].prior /\ ks[i].now = js[i].now,
           Linked(js, x), NewestLeft(js, x, v)
    PROVE  Linked(ks, x) /\ NewestLeft(ks, x, v)
BY DEF Linked, NewestLeft

\* An entry that comes to be active on top of the others, and found the row as the newest
\* of them had left it, is a link of the chain (RecordJournal, redo).
LEMMA ChainGrows ==
    ASSUME NEW js, NEW ks, NEW x, NEW k \in Int,
           About(js, x) \subseteq Int,
           About(ks, x) = About(js, x) \cup {k},
           \A i \in About(js, x) : i < k,
           \A i \in About(js, x) : ks[i].prior = js[i].prior /\ ks[i].now = js[i].now,
           Linked(js, x), NewestLeft(js, x, ks[k].prior[x])
    PROVE  Linked(ks, x) /\ NewestLeft(ks, x, ks[k].now[x])
<1> DEFINE A == About(js, x)
<1>1. ASSUME NEW i \in A \cup {k}, NEW j \in A \cup {k},
             j < i, \A m \in A \cup {k} : m <= j \/ i <= m
      PROVE  ks[i].prior[x] = ks[j].now[x]
  <2>1. j \in A
    BY <1>1
  <2>2. CASE i = k
    <3>1. \A m \in A : m <= j
      BY <1>1, <2>2
    <3> QED BY <2>1, <2>2, <3>1 DEF NewestLeft
  <2>3. CASE i \in A
    BY <1>1, <2>1, <2>3 DEF Linked
  <2> QED BY <1>1, <2>2, <2>3
<1>2. \A i \in A \cup {k} : (\A j \in A \cup {k} : j <= i) => i = k
  OBVIOUS
<1> QED BY <1>1, <1>2 DEF Linked, NewestLeft

\* When the newest entry is undone, the entry before it is the newest, and had left the
\* row as the undone one found it.
LEMMA ChainShrinks ==
    ASSUME NEW js, NEW ks, NEW x, NEW k \in Int,
           About(js, x) \subseteq Int,
           k \in About(js, x),
           About(ks, x) = About(js, x) \ {k},
           \A i \in About(js, x) : i <= k,
           \A i \in About(js, x) : ks[i].prior = js[i].prior /\ ks[i].now = js[i].now,
           Linked(js, x)
    PROVE  Linked(ks, x) /\ NewestLeft(ks, x, js[k].prior[x])
<1> DEFINE A == About(js, x)
<1>1. Linked(ks, x)
  BY DEF Linked
<1>2. ASSUME NEW i \in A \ {k}, \A j \in A \ {k} : j <= i
      PROVE  js[k].prior[x] = ks[i].now[x]
  <2>1. i < k /\ \A m \in A : m <= i \/ k <= m
    BY <1>2
  <2> QED BY <2>1 DEF Linked
<1> QED BY <1>1, <1>2 DEF NewestLeft

\* What is known of the only writer, and of the rows and entries.
LEMMA WriterKnows ==
    ASSUME JournalInv, NEW c, Client = {c}
    PROVE  /\ calls[c] \in Call
           /\ CallKnows(calls[c], previews, journal)
           /\ Entries \subseteq Int
           /\ \A i \in Entries : journal[i] \in Entry
           /\ \A x : About(journal, x) \subseteq Entries
           /\ \A r : calls' = [calls EXCEPT ![c] = r] => calls'[c] = r
BY DEF JournalInv, TypeOK, CallsKnow, Entries, About

\* A step that leaves the journal alone keeps the chain, when what the row was before the
\* call stays the same.
LEMMA ChainRowStep ==
    ASSUME NEW c, NEW x, RowInv(c, x), UNCHANGED journal,
           Was(calls'[c], x, books'[x]) = Was(calls[c], x, books[x]),
           RowKnown(calls'[c], x, books'[x])
    PROVE  RowInv(c, x)'
<1>1. Was(calls[c], x, books[x])' = Was(calls'[c], x, books'[x])
  BY DEF Was, Halfway, Expected, Touches
<1>2. RowKnown(calls[c], x, books[x])' = RowKnown(calls'[c], x, books'[x])
  BY DEF RowKnown, Halfway, Expected, Target, Touches
<1> QED BY <1>1, <1>2 DEF RowInv, Linked, NewestLeft, About

\* A step of the writer that leaves the journal alone keeps the chain, when its new
\* locals say of every row what they should.
LEMMA ChainStep ==
    ASSUME NEW c, ChainInv(c),
           UNCHANGED <<journal, edited>>,
           OnTop(calls'[c]),
           \A x \in Row \ edited :
             RowKnown(calls[c], x, books[x]) =>
               /\ Was(calls'[c], x, books'[x]) = Was(calls[c], x, books[x])
               /\ RowKnown(calls'[c], x, books'[x])
    PROVE  ChainInv(c)'
<1>1. OnTop(calls[c])'
  BY DEF OnTop, Active, Entries, Touches
<1>2. ASSUME NEW x \in Row \ edited
      PROVE  RowInv(c, x)'
  BY <1>2, ChainRowStep DEF ChainInv, RowInv
<1> QED BY <1>1, <1>2 DEF ChainInv

\* The plan of a write is resolved: it shows the rows as they are.
LEMMA ChainResolve ==
    ASSUME JournalInv, NEW c, Client = {c}, ChainInv(c),
           NEW t \in DOMAIN previews, NEW R \in Rows, NEW v \in Value, Resolve(c, t, R, v)
    PROVE  ChainInv(c)'
<1>1. /\ calls[c].pc = "idle" /\ UNCHANGED <<books, journal, edited>>
      /\ calls'[c] = [pc |-> "check", token |-> t, plan |-> PlanOf(R, v)]
  BY WriterKnows DEF Resolve, At, Goto
<1>2. PlanOf(R, v).before = [x \in R |-> books[x]]
  BY DEF PlanOf
<1>3. OnTop(calls'[c])
  BY <1>1 DEF OnTop
<1>4. \A x : /\ Was(calls'[c], x, books'[x]) = Was(calls[c], x, books[x])
             /\ RowKnown(calls'[c], x, books'[x])
  BY <1>1, <1>2 DEF Was, RowKnown, Halfway
<1> QED BY <1>1, <1>3, <1>4, ChainStep

\* The check of the token starts the write of the plan, or ends the call.
LEMMA ChainCheck ==
    ASSUME JournalInv, NEW c, Client = {c}, ChainInv(c), CheckConfirmToken(c)
    PROVE  ChainInv(c)'
<1> DEFINE r == calls[c]
<1>1. r.pc = "check" /\ UNCHANGED <<books, journal, edited>>
  BY DEF CheckConfirmToken, At
<1>2. calls'[c] = Idle \/ calls'[c] = Writing(r.token, r.plan)
  BY WriterKnows DEF CheckConfirmToken, Goto
<1>3. Changed(r.plan) \subseteq DOMAIN r.plan.before
  BY DEF Changed
<1>4. OnTop(calls'[c])
  BY <1>2 DEF OnTop, Idle, Writing
<1>5. ASSUME NEW x, RowKnown(r, x, books[x])
      PROVE  /\ Was(calls'[c], x, books'[x]) = Was(r, x, books[x])
             /\ RowKnown(calls'[c], x, books'[x])
  BY <1>1, <1>2, <1>3, <1>5 DEF Was, RowKnown, Halfway, Idle, Writing
<1> QED BY <1>1, <1>4, <1>5, ChainStep

\* An upstream call writes rows as its plan found them.
LEMMA ChainWriteRows ==
    ASSUME JournalInv, NEW c, Client = {c}, ChainInv(c), NEW R \in Rows, WriteRows(c, R)
    PROVE  ChainInv(c)'
<1> DEFINE r == calls[c]
           s == [r EXCEPT !.done = @ \cup R, !.pc = IF Todo(c) = R THEN "read" ELSE "write"]
<1>1. /\ r.pc = "write" /\ R \subseteq Changed(r.plan) \ r.done
      /\ books' = [x \in Row |-> IF x \in R THEN r.plan.after ELSE books[x]]
      /\ calls' = [calls EXCEPT ![c] = s]
      /\ UNCHANGED <<journal, edited>>
  BY DEF WriteRows, At, Todo, Goto
<1>2. r \in [pc : {"write", "read"}, token : Nat, plan : Plan, done : SUBSET Row]
  BY <1>1, WriterKnows, CallIsTyped
<1>3. s.pc \in {"write", "read"} /\ s.done = r.done \cup R /\ s.plan = r.plan
  BY <1>2
<1>4. calls'[c] = s
  BY <1>1, WriterKnows
<1> HIDE DEF s
<1>5. OnTop(calls'[c])
  BY <1>3, <1>4 DEF OnTop
<1>6. ASSUME NEW x \in Row, RowKnown(r, x, books[x])
      PROVE  /\ Was(calls'[c], x, books'[x]) = Was(r, x, books[x])
             /\ RowKnown(calls'[c], x, books'[x])
  <2>1. CASE x \in R
    BY <1>1, <1>3, <1>4, <1>6, <2>1 DEF Was, RowKnown, Halfway
  <2>2. CASE x \notin R
    <3>1. books'[x] = books[x]
      BY <1>1, <2>2
    <3> QED BY <1>1, <1>3, <1>4, <1>6, <2>2, <3>1 DEF Was, RowKnown, Halfway
  <2> QED BY <2>1, <2>2
<1> QED BY <1>1, <1>5, <1>6, ChainStep

\* The state after the write is read, and becomes what the entry restores.
LEMMA ChainReadAfter ==
    ASSUME JournalInv, NEW c, Client = {c}, ChainInv(c), ReadAfter(c)
    PROVE  ChainInv(c)'
<1> DEFINE r == calls[c]
           s == [pc |-> "record", token |-> r.token,
                 prior |-> [x \in r.done |-> r.plan.before[x]],
                 now |-> [x \in r.done |-> books[x]]]
<1>1. /\ r.pc = "read" /\ calls' = [calls EXCEPT ![c] = s]
      /\ UNCHANGED <<books, journal, edited>>
  BY DEF ReadAfter, At, Goto
<1>2. calls'[c] = s
  BY <1>1, WriterKnows
<1>3. /\ s.pc = "record" /\ DOMAIN s.prior = r.done
      /\ \A x \in r.done : s.prior[x] = r.plan.before[x] /\ s.now[x] = books[x]
  OBVIOUS
<1> HIDE DEF s
<1>4. OnTop(calls'[c])
  BY <1>2, <1>3 DEF OnTop
<1>5. \A x : /\ Was(calls'[c], x, books'[x]) = Was(r, x, books[x])
             /\ RowKnown(calls'[c], x, books'[x])
  BY <1>1, <1>2, <1>3 DEF Was, RowKnown, Halfway
<1> QED BY <1>1, <1>4, <1>5, ChainStep

\* Undo chooses the newest active entry, redo one above every active entry.
LEMMA ChainBegin ==
    ASSUME JournalInv, NEW c, Client = {c}, ChainInv(c), BeginUndo(c) \/ BeginRedo(c)
    PROVE  ChainInv(c)'
<1>1. calls[c].pc = "idle" /\ UNCHANGED <<books, journal, edited>>
  BY DEF BeginUndo, BeginRedo, At
<1>2. PICK way \in {"undo", "redo"} : \E i \in Entries :
        /\ Goto(c, Chosen(way, i))
        /\ journal[i].undone = (way = "redo")
        /\ \A j \in Active : j <= i
  <2>1. CASE BeginUndo(c)
    <3>1. PICK i \in LatestActive : Goto(c, Chosen("undo", i))
      BY <2>1 DEF BeginUndo
    <3>2. i \in Entries /\ ~journal[i].undone /\ \A j \in Active : j <= i
      BY DEF LatestActive, Active
    <3>3. journal[i].undone = FALSE
      BY <3>2, WriterKnows, EntryIsOfRows
    <3> QED BY <3>1, <3>2, <3>3
  <2>2. CASE BeginRedo(c)
    <3>1. PICK i \in RedoStack : Goto(c, Chosen("redo", i))
      BY <2>2 DEF BeginRedo, RedoCandidate
    <3>2. i \in Entries /\ journal[i].undone /\ \A j \in Active : j < i
      BY DEF RedoStack
    <3>3. Active \subseteq Int /\ i \in Int /\ journal[i].undone = TRUE
      BY <3>2, WriterKnows, EntryIsOfRows DEF Active
    <3>4. \A j \in Active : j <= i
      BY <3>2, <3>3
    <3> QED BY <3>1, <3>2, <3>3, <3>4
  <2> QED BY <2>1, <2>2
<1>3. PICK i \in Entries :
        /\ Goto(c, Chosen(way, i))
        /\ journal[i].undone = (way = "redo")
        /\ \A j \in Active : j <= i
  BY <1>2
<1>4. calls'[c] = Chosen(way, i)
  BY <1>3, WriterKnows DEF Goto
<1>5. OnTop(calls'[c])
  BY <1>3, <1>4 DEF OnTop, Chosen
<1>6. \A x : /\ Was(calls'[c], x, books'[x]) = Was(calls[c], x, books[x])
             /\ RowKnown(calls'[c], x, books'[x])
  BY <1>1, <1>4 DEF Was, RowKnown, Halfway, Chosen
<1> QED BY <1>1, <1>5, <1>6, ChainStep

\* Undo and redo go on only when every row is as the entry expects it.
LEMMA ChainCompare ==
    ASSUME JournalInv, NEW c, Client = {c}, ChainInv(c), CompareRows(c)
    PROVE  ChainInv(c)'
<1> DEFINE r == calls[c]
           s == [r EXCEPT !.pc = "restore"]
<1>1. r.pc = "compare" /\ UNCHANGED <<books, journal, edited>>
  BY DEF CompareRows, At
<1>2. CASE (\A x \in r.todo : books[x] = Expected(r)[x]) /\ Goto(c, s)
  <2>1. s.pc = "restore" /\ s.way = r.way /\ s.entry = r.entry /\ s.todo = r.todo
    BY <1>1, ReversingKnows DEF Reversing
  <2>2. calls'[c] = s
    BY <1>2, WriterKnows DEF Goto
  <2>3. OnTop(r) /\ r.todo = Touches(journal[r.entry])
    BY <1>1 DEF ChainInv, OnTop
  <2> HIDE DEF s
  <2>4. OnTop(calls'[c])
    BY <1>1, <2>1, <2>2, <2>3 DEF OnTop
  <2>5. \A x : /\ Was(calls'[c], x, books'[x]) = Was(r, x, books[x])
               /\ RowKnown(calls'[c], x, books'[x])
    BY <1>1, <1>2, <2>1, <2>2, <2>3 DEF Was, RowKnown, Halfway, Expected, Target
  <2> QED BY <1>1, <2>4, <2>5, ChainStep
<1>3. CASE Unlock(c)
  <2>1. calls'[c] = Idle
    BY <1>3, WriterKnows DEF Unlock, Goto
  <2>2. OnTop(calls'[c])
    BY <2>1 DEF OnTop, Idle
  <2>3. \A x : /\ Was(calls'[c], x, books'[x]) = Was(r, x, books[x])
               /\ RowKnown(calls'[c], x, books'[x])
    BY <1>1, <2>1 DEF Was, RowKnown, Halfway, Idle
  <2> QED BY <1>1, <2>2, <2>3, ChainStep
<1> QED BY <1>2, <1>3 DEF CompareRows

\* A row is written back.
LEMMA ChainRestore ==
    ASSUME JournalInv, NEW c, Client = {c}, ChainInv(c), NEW y \in Row, RestoreRow(c, y)
    PROVE  ChainInv(c)'
<1> DEFINE r == calls[c]
           s == [r EXCEPT !.todo = @ \ {y}, !.pc = IF r.todo = {y} THEN "mark" ELSE "restore"]
<1>1. /\ r.pc = "restore" /\ y \in r.todo
      /\ books' = [books EXCEPT ![y] = Target(r)[y]]
      /\ calls' = [calls EXCEPT ![c] = s]
      /\ UNCHANGED <<journal, edited>>
  BY DEF RestoreRow, At, Goto
<1>2. /\ s.pc \in {"restore", "mark"} /\ s.way = r.way /\ s.entry = r.entry /\ s.todo = r.todo \ {y}
      /\ s.pc = "mark" => r.todo = {y}
  BY <1>1, ReversingKnows DEF Reversing
<1> HIDE DEF s
<1>3. calls'[c] = s
  BY <1>1, WriterKnows
<1>4. OnTop(calls'[c])
  BY <1>1, <1>2, <1>3 DEF ChainInv, OnTop
<1>5. y \in Touches(journal[r.entry])
  BY <1>1, ReversingKnows DEF Reversing
<1>6. books \in [Row -> Value]
  BY DEF JournalInv, TypeOK
<1>7. ASSUME NEW x \in Row, RowKnown(r, x, books[x])
      PROVE  /\ Was(calls'[c], x, books'[x]) = Was(r, x, books[x])
             /\ RowKnown(calls'[c], x, books'[x])
  <2>0. Expected(s) = Expected(r) /\ Target(s) = Target(r)
    BY <1>2 DEF Expected, Target
  <2>1. CASE x = y
    <3>1. books'[x] = Target(r)[x]
      BY <1>1, <1>6, <2>1
    <3> QED BY <1>1, <1>2, <1>3, <1>5, <2>0, <2>1, <3>1 DEF Was, RowKnown, Halfway
  <2>2. CASE x # y
    <3>1. books'[x] = books[x]
      BY <1>1, <1>6, <2>2
    <3> QED BY <1>1, <1>2, <1>3, <1>7, <2>0, <2>2, <3>1 DEF Was, RowKnown, Halfway
  <2> QED BY <2>1, <2>2
<1> QED BY <1>1, <1>4, <1>7, ChainStep

\* The newest link is the entry of the write that ends: it restores what the entry before
\* it had left, and what the write left is there.
LEMMA ChainRecord ==
    ASSUME JournalInv, NEW c, Client = {c}, ChainInv(c), RecordJournal(c)
    PROVE  ChainInv(c)'
<1> DEFINE r == calls[c]
           n == Len(journal)
           k == n + 1
<1>1. r.pc = "record" /\ UNCHANGED <<books, edited>> /\ calls'[c] = Idle
  BY WriterKnows DEF RecordJournal, At, Goto
<1>2. /\ n \in Nat /\ Entries = 1 .. n /\ Entries' = 1 .. k
      /\ journal'[k].prior = r.prior /\ journal'[k].now = r.now /\ ~journal'[k].undone
      /\ \A i \in Entries : /\ journal'[i].undone = journal[i].undone
                            /\ journal'[i].prior = journal[i].prior
                            /\ journal'[i].now = journal[i].now
  BY RecordAppends
<1>3. OnTop(calls[c])'
  BY <1>1 DEF OnTop, Idle
<1>4. ASSUME NEW x \in Row \ edited
      PROVE  RowInv(c, x)'
  <2>1. Linked(journal, x) /\ NewestLeft(journal, x, Was(r, x, books[x])) /\ RowKnown(r, x, books[x])
    BY <1>4 DEF ChainInv, RowInv
  <2>2. Was(calls[c], x, books[x])' = books[x] /\ RowKnown(calls[c], x, books[x])'
    BY <1>1 DEF Was, RowKnown, Halfway, Idle
  <2>3. About(journal, x) \subseteq Entries /\ About(journal, x) \subseteq Int
    BY <1>2 DEF About, Entries
  <2>4. \A i \in About(journal, x) : journal'[i].prior = journal[i].prior /\ journal'[i].now = journal[i].now
    BY <1>2, <2>3
  <2>5. CASE x \in DOMAIN r.prior
    <3>1. About(journal', x) = About(journal, x) \cup {k}
      BY <1>2, <2>5 DEF About, Entries, Touches
    <3>2. Was(r, x, books[x]) = journal'[k].prior[x] /\ books[x] = journal'[k].now[x]
      BY <1>1, <1>2, <2>1, <2>5 DEF Was, RowKnown
    <3>3. k \in Int /\ \A i \in About(journal, x) : i < k
      BY <1>2, <2>3
    <3>4. NewestLeft(journal, x, journal'[k].prior[x])
      BY <2>1, <3>2
    <3> HIDE DEF k
    <3>5. Linked(journal', x) /\ NewestLeft(journal', x, journal'[k].now[x])
      BY <2>1, <2>3, <2>4, <3>1, <3>3, <3>4, ChainGrows
    <3> QED BY <1>1, <2>2, <3>2, <3>5 DEF RowInv
  <2>6. CASE x \notin DOMAIN r.prior
    <3>1. About(journal', x) = About(journal, x)
      BY <1>2, <2>6 DEF About, Entries, Touches
    <3>2. Was(r, x, books[x]) = books[x]
      BY <1>1, <2>6 DEF Was, Halfway
    <3>3. Linked(journal', x) /\ NewestLeft(journal', x, books[x])
      BY <2>1, <2>4, <3>1, <3>2, ChainStays
    <3> QED BY <2>2, <3>3 DEF RowInv
  <2> QED BY <2>5, <2>6
<1> QED BY <1>1, <1>3, <1>4 DEF ChainInv

\* The mark takes the newest link away when its rows are what it found, and puts it back
\* when they are what it left.
LEMMA ChainMark ==
    ASSUME JournalInv, NEW c, Client = {c}, ChainInv(c), MarkUndone(c)
    PROVE  ChainInv(c)'
<1> DEFINE r == calls[c]
           k == r.entry
<1>1. r.pc = "mark" /\ UNCHANGED <<books, edited>> /\ calls'[c] = Idle
  BY WriterKnows DEF MarkUndone, At, Goto, Unlock
<1>2. Reversing(c) /\ r.way \in {"undo", "redo"} /\ k \in Entries /\ Entries \subseteq Int
  BY <1>1, ReversingKnows, WriterKnows DEF Reversing
<1>3. /\ Entries' = Entries
      /\ journal'[k].undone = (r.way = "undo")
      /\ \A i \in Entries \ {k} : journal'[i].undone = journal[i].undone
      /\ \A i \in Entries : journal'[i].prior = journal[i].prior /\ journal'[i].now = journal[i].now
  BY MarkTurns
<1>4. r.todo = {} /\ journal[k].undone = (r.way = "redo") /\ \A j \in Active : j <= k
  BY <1>1 DEF ChainInv, OnTop
<1>5. OnTop(calls[c])'
  BY <1>1 DEF OnTop, Idle
<1> HIDE DEF k
<1>6. ASSUME NEW x \in Row \ edited
      PROVE  RowInv(c, x)'
  <2>1. Linked(journal, x) /\ NewestLeft(journal, x, Was(r, x, books[x])) /\ RowKnown(r, x, books[x])
    BY <1>6 DEF ChainInv, RowInv
  <2>2. Was(calls[c], x, books[x])' = books[x] /\ RowKnown(calls[c], x, books[x])'
    BY <1>1 DEF Was, RowKnown, Halfway, Idle
  <2>3. /\ About(journal, x) \subseteq Entries /\ About(journal, x) \subseteq Int
        /\ \A i \in About(journal, x) : i <= k
    BY <1>2, <1>4 DEF About, Entries, Active
  <2>4. \A i \in About(journal, x) : journal'[i].prior = journal[i].prior /\ journal'[i].now = journal[i].now
    BY <1>3, <2>3
  <2>5. CASE x \in Touches(journal[k]) /\ r.way = "undo"
    <3>1. About(journal', x) = About(journal, x) \ {k} /\ k \in About(journal, x)
      BY <1>2, <1>3, <1>4, <2>5 DEF About, Entries, Touches
    <3>2. books[x] = journal[k].prior[x]
      BY <1>1, <1>4, <2>1, <2>5 DEF RowKnown, Halfway, Target, k
    <3>3. Linked(journal', x) /\ NewestLeft(journal', x, journal[k].prior[x])
      BY <1>2, <2>1, <2>3, <2>4, <3>1, ChainShrinks
    <3> QED BY <2>2, <3>2, <3>3 DEF RowInv
  <2>6. CASE x \in Touches(journal[k]) /\ r.way = "redo"
    <3>1. About(journal', x) = About(journal, x) \cup {k} /\ k \notin About(journal, x)
      BY <1>2, <1>3, <1>4, <2>6 DEF About, Entries, Touches
    <3>2. books[x] = journal'[k].now[x] /\ Was(r, x, books[x]) = journal'[k].prior[x]
      BY <1>1, <1>2, <1>3, <1>4, <2>1, <2>6 DEF RowKnown, Was, Halfway, Target, Expected, k
    <3>3. k \in Int /\ \A i \in About(journal, x) : i < k
      BY <1>2, <2>3, <3>1
    <3>4. Linked(journal', x) /\ NewestLeft(journal', x, journal'[k].now[x])
      BY <2>1, <2>3, <2>4, <3>1, <3>2, <3>3, ChainGrows
    <3> QED BY <1>1, <2>2, <3>2, <3>4 DEF RowInv
  <2>7. CASE x \notin Touches(journal[k])
    <3>1. About(journal', x) = About(journal, x)
      BY <1>2, <1>3, <2>7 DEF About, Entries, Touches
    <3>2. Was(r, x, books[x]) = books[x]
      BY <1>1, <2>7 DEF Was, Halfway, k
    <3>3. Linked(journal', x) /\ NewestLeft(journal', x, books[x])
      BY <2>1, <2>4, <3>1, <3>2, ChainStays
    <3> QED BY <2>2, <3>3 DEF RowInv
  <2> QED BY <1>2, <2>5, <2>6, <2>7
<1> QED BY <1>1, <1>5, <1>6 DEF ChainInv

\* Steps beside the writer leave the rows that nobody ever edited alone.
LEMMA ChainAside ==
    ASSUME NEW c, ChainInv(c), UNCHANGED <<journal, calls>>, edited \subseteq edited',
           \A x \in Row \ edited' : books'[x] = books[x]
    PROVE  ChainInv(c)'
<1>1. OnTop(calls[c])'
  BY DEF ChainInv, OnTop, Active, Entries, Touches
<1>2. ASSUME NEW x \in Row \ edited'
      PROVE  RowInv(c, x)'
  <2>1. RowInv(c, x) /\ books'[x] = books[x]
    BY <1>2 DEF ChainInv
  <2> QED BY <2>1, ChainRowStep DEF RowInv
<1> QED BY <1>1, <1>2 DEF ChainInv

\* With one writer and no failures every step keeps the chain.
LEMMA ChainNext ==
    ASSUME JournalInv, NEW c, Client = {c}, ~Failures, ChainInv(c), [Next]_vars
    PROVE  ChainInv(c)'
<1>1. ASSUME NEW R \in Rows, NEW v \in Value,
             Preview(c, R, v) \/ \E t \in DOMAIN previews : Resolve(c, t, R, v)
      PROVE  ChainInv(c)'
  <2>1. CASE Preview(c, R, v)
    BY <2>1, ChainAside DEF Preview
  <2> QED BY <1>1, <2>1, ChainResolve
<1>2. ASSUME \/ CheckConfirmToken(c)
             \/ \E R \in Rows : WriteRows(c, R)
             \/ ReadAfter(c) \/ RecordJournal(c)
             \/ BeginUndo(c) \/ BeginRedo(c) \/ CompareRows(c)
             \/ \E x \in Row : RestoreRow(c, x)
             \/ MarkUndone(c)
      PROVE  ChainInv(c)'
  BY <1>2, ChainCheck, ChainWriteRows, ChainReadAfter, ChainRecord, ChainBegin, ChainCompare, ChainRestore, ChainMark
<1>3. ~WriteFails(c) /\ ~RecordFails(c) /\ ~UndoFails(c) /\ ~Crash
  BY DEF WriteFails, RecordFails, UndoFails, Crash
<1>4. CASE \E t \in DOMAIN previews : Expire(t)
  BY <1>4, ChainAside DEF Expire
<1>5. ASSUME NEW y \in Row, NEW v \in Value, Edit(y, v)
      PROVE  ChainInv(c)'
  <2>1. \A x \in Row \ edited' : books'[x] = books[x]
    BY <1>5 DEF Edit, JournalInv, TypeOK
  <2> QED BY <1>5, <2>1, ChainAside DEF Edit
<1>6. CASE UNCHANGED vars
  BY <1>6, ChainAside DEF vars
<1> QED BY <1>1, <1>2, <1>3, <1>4, <1>5, <1>6 DEF Next

\* With one writer, and when no database call fails, a row the operator never edited is
\* between calls what the newest active entry about it left, through any sequence of
\* writes, undos and redos (jrLatestActive, jrRedoCandidate, txnCheckRows): undo never
\* refuses because of it.
THEOREM JournalEntriesChain ==
    ASSUME NEW CONSTANT c, Client = {c}, ~Failures
    PROVE  Spec => []ActiveEntriesChain
<1>1. Init => ChainInv(c)
  <2> SUFFICES ASSUME Init PROVE ChainInv(c)
    OBVIOUS
  <2>1. calls[c] = Idle /\ \A x : About(journal, x) = {}
    BY DEF Init, About
  <2>2. OnTop(calls[c]) /\ \A x : RowKnown(calls[c], x, books[x])
    BY <2>1 DEF OnTop, RowKnown, Halfway, Idle
  <2> QED BY <2>1, <2>2 DEF ChainInv, RowInv, Linked, NewestLeft
<1>2. JournalInv /\ ChainInv(c) /\ [Next]_vars => ChainInv(c)'
  BY ChainNext
<1>3. JournalInv /\ ChainInv(c) => ActiveEntriesChain
  <2> SUFFICES ASSUME ChainInv(c), calls[c].pc = "idle", NEW x \in Row \ edited
               PROVE  LET about == {i \in Active : x \in Touches(journal[i])}
                      IN  \A i \in about : (\A j \in about : j <= i) => books[x] = journal[i].now[x]
    BY DEF ActiveEntriesChain, At
  <2>1. {i \in Active : x \in Touches(journal[i])} = About(journal, x)
    BY DEF Active, Entries, About
  <2>2. Was(calls[c], x, books[x]) = books[x]
    BY DEF Was, Halfway
  <2> QED BY <2>1, <2>2 DEF ChainInv, RowInv, NewestLeft
<1> QED BY <1>1, <1>2, <1>3, JournalIsInductive, PTL DEF Spec
=============================================================================
