# Verification of ezBookkeeping

TLA+ models of the state-keeping core of this repository (the Go server of a double-entry
bookkeeping program with a "machine plane" for scripted writes), TLC configurations that check
them on small instances, and TLAPS proofs, for every size, of every safety property those configurations check: of the
ledger and its balances, the id generator, the machine plane's journal, the statement ingest and the server.

Every definition was read from `src/`; `PROJECT.json` names the lines behind each of them.

## The system

| component | state | operations | hard behaviour | status |
|---|---|---|---|---|
| **Ledger** (`pkg/services/transactions.go`, `accounts.go`) | tables `account` (with a stored balance), `transaction` (soft-deleted rows stay), `transaction_tag_index` | create, edit, delete, bulk clear, move all between accounts, batch tag; create, hide, delete account | two rows per transfer mirrored column by column; balances corrected by deltas in branches on old and new type; unique transaction times in seconds of 1000 slots; int64 overflow; copies of times in the tag index | `Ledger` |
| **Id generator** (`pkg/uuid`) | one atomic 64-bit counter per id type | `GenerateUuid(s)` | lock-free add and compare-and-swap, clock set back, batches that carry | `UuidGenerator` |
| **Machine write plane** (`pkg/machine/confirm.go`, `journal.go`, `routes_journal.go`, bulk part of `routes_transactions.go`) | confirm tokens (memory), table `machine_journal`, mutex `jrMu` | dry run, apply with token, undo, redo, batch | check and write apart, retried and doubled requests, failures between upstream calls, crashes, edits in the browser meanwhile | `MachineJournal` (batch planned) |
| **Machine ingest** (`pkg/machine/ingest_*`, `routes_ingest.go`) | table `machine_import_record`, journal entries of runs, mutex `ingApplyMu` | merge statements, plan, apply in batches, undo | plans that others overtook, batches without records, failing take-backs, crashes in an undo, the operator's deletions | `StatementDedupe`, `Ingest` |
| Machine credentials and gates | key file, lock file | mint, revoke, arm | two processes rewriting one file | not modelled |
| **Duplicate checker** (`pkg/duplicatechecker`) | in-memory cache of remarks and running info | look up, remember, expire | check before, store after the write; lost with the process | `DuplicateChecker`, `Server` |
| **Cron** (`pkg/cron`, `CreateScheduledTransactions`) | the scheduler's plan, running info | start a run, create scheduled rows | late timers, slow and dropped runs, restarts, runs from the command line | `Server` |
| Tokens, users, two-factor, OAuth | tables | login, revoke, recovery codes | single use of a code | planned |
| Categories, tags, templates | tables | create, edit, delete | use checks before deletion | planned; tag use is in `Ledger` |
| Pictures and object storage | files and rows | upload, adopt, drop | orphaned files | planned with the handlers |
| HTTP handlers of the ledger (`pkg/api`) | none of its own | validate, build rows, answer | two requests on one row or account, a form submitted again | `Server`; type rules are in `Ledger`'s guards |
| Statistics, exchange rates, converters, language models, mail, error files, settings, maintenance commands, `ezbk`, MCP, web front end | no protocol state of the books | | | not modelled |

How they interact: a browser request or a machine-plane request reaches the same services. The
machine plane calls the HTTP handlers in-process (`CallUpstream`), one call per row or per chunk
of rows, and each call runs in **one database transaction** of the datastore
(`Database.DoTransaction`). So the ledger sees atomic operations, while the machine plane sees
*sequences* of them with room in between. Both draw ids from the id generator.
That is why the project has several models, each with the state its questions need: `Ledger` takes the
operations as atomic and asks whether they keep the books consistent; `TransactionSessions` splits an
operation at the read its writes are computed from, and `Server` composes it with the duplicate checker,
the scheduler and the requests of the web front end; `MachineJournal` takes the books as opaque rows and
asks what happens between the operations; `Ingest` does so for the statement pipeline; `UuidGenerator` justifies `Ledger`'s `Fresh`, that an id is never
one in use and that later rows have greater ids.

What makes each correct:

- *Ledger*: the stored balance is the sum of the rows; transfers have two mirrored halves, in
  order; no two rows share a time; the opening balance is the first row; no live row names a closed
  account; hidden accounts and deleted rows do not change; tag indexes follow their rows.
- *Id generator*: ids of one type grow, so none is handed out twice, whatever races and however the clock jumps.
- *Machine write plane*: a preview pays for one write; what is journaled is what was previewed;
  undo and redo act on the entry they chose and leave the rows as the journal says.
- *Machine ingest*: overlapping statements multiply no row, unless a document dates it outside of its own period; a line of the statements enters the books
  once; the operator's deletion of it stands until he asks for the line again; an undone run leaves nothing.
- *Server*: sessions on different rows keep the balances whole; a form that is submitted again creates
  nothing; a scheduled row is created once for its window, and missed only
  by a run that was not on time or that failed.

## Modules

| module | role |
|---|---|
| `Ledger` | the ledger's tables and every operation of the two services on them |
| `MCLedger` | currencies, row ids and symmetries of its small instances |
| `LedgerProofs` | its inductive invariant and ten theorems |
| `SumProofs` | sums over finite sets: that they exist, and how they change and compare |
| `LedgerBalanceProofs` | balances are sums of rows, opening balances are their amounts |
| `IdAllocator` | abstract: a sequence of ids, each above all ids of its type handed out before |
| `UuidGenerator` | `GenerateUuids`, one step per atomic operation, implements `IdAllocator` |
| `MCUuidGenerator`, `UuidProofs` | its instance; its invariant, the refinement and that no id repeats, proved |
| `MachineJournal` | tokens, bulk writes, the journal, undo and redo, failures, crashes, browser edits |
| `MCMachineJournal`, `JournalProofs` | its symmetry; its inductive invariant and six theorems |
| `StatementDedupe`, `DedupeProofs` | pure: which rows of overlapping statements count (`ingLayerOne`); what it keeps and loses |
| `ImportRegister` | abstract: what the pipeline promises of each line of the statements |
| `Ingest` | plan, apply, journal and undo over `StatementDedupe`, implements `ImportRegister` |
| `MCIngest`, `IngestProofs` | its statements; its inductive invariants, the refinement, undo and the rows of a line, proved |
| `TransactionSessions` | modify, delete and move from the row or balance their session read |
| `DuplicateChecker` | the cache of submission remarks and running info |
| `Server` | the handlers, the scheduler and crashes, over both |
| `MCServer`, `ServerProofs` | its instance; five theorems |

A comment that begins with "Mutant" marks an operator that no specification uses: it is a
plausible slip in the definition that follows it, and shows that the run would notice.

### Ledger

| model | code |
|---|---|
| `status`, `hidden`, `balance` | table `account`: row present / `deleted`, `hidden`, `balance` |
| `rows` | table `transaction`: `Posting` writes the columns, `Deleted`, `Dated`, `Priced` are the later UPDATEs |
| `tagIndex` | table `transaction_tag_index`, live rows |
| a time `[sec, slot]` | `transaction_time` = unix second * 1000 + slot; `Slots` stands for 1000 |
| `CreatedAt`, `MovedTo`, `AfterLatest` | the three ways a time is found: `doCreateTransaction`, `ModifyTransaction` and the move, the receiving half |
| `UpdateBalances` | the UPDATEs of an operation in the code's order, each with the check for int64 overflow |
| `CreateEntry`, `CreateTransfer`, `CreateBalanceModification` | `CreateTransaction`, by type |
| `ModifyBalanceModification`, `ModifyToEntry`, `ModifyEntryToTransfer`, `ModifyTransfer` | `ModifyTransaction`, by old and new type |
| `DeleteTransaction`, `DeleteAllTransactions` | the same |
| `MoveAllTransactionsBetweenAccounts` | the same, with `MergeOpenings` and `MoveOpening` for the opening balances |
| `BatchAddTags`, `BatchRemoveTags` | the same |
| `CreateAccount`, `HideAccount`, `DeleteAccount` | the same |

A refused request leaves the state alone, so an error return is the negation of a guard.
Sub-accounts, pictures, categories, comments, names and the permission to edit old rows are left
out: no property modelled depends on them. The batch and scheduled forms of creation run
`doCreateTransaction` for each row.

### UuidGenerator

`uuidSeqNumbers[type]` is the 64-bit counter as a pair (second, number) with carry and borrow;
`calls[c]` are a goroutine's locals and its place in the loop: `clock` (read the time), `add` (the atomic
add), `swap` (the compare-and-swap into a new second). `Return` joins the loop that assembles the batch to the
step that won the numbers, since it reads nothing but locals. `handed` is the history: a sequence with one place for each
time an id is handed out, so that handing one out again is a step of its own. `SetBack` sets the clock to any earlier
time. The model is one lifetime of a process: the counters start at zero and nothing in the code
keeps them across a restart; a repeated id would meet the primary key. That the loop ends is not
claimed: no code bounds how far the clock is behind.

### MachineJournal

| model | code |
|---|---|
| `books` | the transactions; a row's value stands for all its fields |
| `previews`, `confirmStore` | change sets shown under a token; the tokens still in `confirmStore` |
| `Preview`, `Resolve`, `CheckConfirmToken` | `RunWrite`: plan, plan again on apply, `checkConfirmToken` under its own lock |
| `WriteRows`, `WriteFails` | `txnApplyBulkStatesVisible`: upstream calls in turn; a failure journals what was written before it |
| `ReadAfter`, `RecordJournal`, `RecordFails` | `txnBulkFinish` and `RecordJournal` |
| `BeginUndo`, `BeginRedo` | `jrHandleUndo`, `jrHandleRedo`: take `jrMu`, choose the entry |
| `CompareRows`, `RestoreRow` | `txnCheckRows`, `txnExecRestore` |
| `MarkUndone`, `UndoFails` | `jrMarkUndone`; an error return that gives up the mutex |
| `Edit`, `Crash`, `Expire` | the browser; the end of the process; the age of a token |

Every database call is a step of its own and may fail. Simplified: one user and one route (tokens are kept per user
and route, so others do not interfere); one op per entry, as
the bulk routes write; reading the rows of one plan is one snapshot; a row that is deleted is a row
that differs; the guard `journal_id` and the change ceiling only refuse more; the visibility
of accounts is not modelled. Fields `token` and `closed` of an entry and the variable `edited` are
history for the properties.

### StatementDedupe and Ingest

| model | code |
|---|---|
| `Distinct`, `RanksAbove` | `ingLayerOne`'s duplicates and empty files; `ingRankLess`, whose last three rules only break ties and are the order of paths here |
| `Lowest` | the order `sort.SliceStable` puts the statements in, from its end |
| `Against`, `Take` | one turn of the loop over accepted statements: window, multisets, touching, subset, conflict |
| `Compared`, `Accept`, `LayerOne` | that loop for one statement; its outcome; the loop over all of them |
| `Merged`, `Blocked`, `Refused` | the rows that count; the months of a conflict; the statements a conflict drops |
| `Line`, `LinesOf` | import ids (`ingAssignIds`): the key of a row and its ordinal |
| `txns`, `records` | tables `transaction` and `machine_import_record` |
| `Plan` | `ingHandleApply` up to `ingApplyChanges`: `ingEvaluate` without a lock |
| `Lock` .. `RecordJournalFails` | `ingApplyChanges`: `ingApplyMu`, batches, records, take-back, links, journal |
| `BeginUndo` .. `UndoFails` | `jrHandleUndo` with `ingUndoImport`, under `jrMu` |
| `EnterByHand`, `EditByHand`, `DeleteByHand` | the operator in the browser |

Every database transaction is a step and may fail; a crash forgets the calls and the mutexes. A batch
takes any number of lines, where the code takes 500 in order. The transactions look alike when their
keys are equal; an edit changes the look of a row and its update time. (An edit within the very second of
the import does not change the time and undo deletes the row: not modelled.) Left out: scan, parse and
manifest, categories, transfers matched across two accounts, bank ids, the confirm token. `reasked`, `raced`, `left` and
`matched` are history for the properties.

`ImportRegister` is what `src/pm/apis.mdx:1972-1992` promises of the record table: a registered line is not
registered again, "a deletion is a decision", "an undo is not a deletion". `Standing` maps a line to
absent (no record), present or deleted (by the state of the transaction its record names).

### TransactionSessions, DuplicateChecker and Server

| model | code |
|---|---|
| `Insert`, `Update`, `Remove`, `MoveAll` | the writes of `CreateTransaction`, `ModifyTransaction`, `DeleteTransaction` and `MoveAllTransactionsBetweenAccounts` |
| `ReadRow`, `ReadBalance`, `Write` | the unlocked read at the head of a session; its writes and commit |
| `Submit`, `Create`, `Remember` | `TransactionCreateHandler`: `GetSubmissionRemark`, `CreateTransaction`, `SetSubmissionRemark` |
| `Forget` | `duplicate_submissions_interval` (300 s by default) has passed |
| `runningUntil` | the running info of the job, which lasts its interval less a second |
| `next`, `PlanNext`, `Start` | gocron's plan at full quarters of an hour; `doRun`, in singleton mode with rescheduling |
| `NoAddress` | `doRun`'s return on a host without an address that is neither loopback nor link-local |
| `QueryFails` | the query for the templates fails and ends the run for all of them |
| `CreateScheduled`, `ScheduledFails` | the loop of `CreateScheduledTransactions`, one database transaction per template |
| `RunByHand` | `ezbookkeeping cron run`, a process of its own with a checker of its own |
| `Tick`, `Crash` | the clock, a sleeping machine; the end of the process and its start at once or later |

A write is one step: the UPDATEs of a move are not told apart, because a row booked between them is
lost from the sum exactly as one booked between the read and the first of them. SQLite (the
default) refuses the session that was overtaken, which is `Fail`; MySQL and PostgreSQL let it commit. A row
here is an income; what the other types do to two accounts is `Ledger`'s. A window is one interval of time;
which days a template's frequency names is the set `Due`. A commit whose acknowledgement is lost (the row is there and the
request answered with an error) is not modelled: a session commits and goes on, or fails and leaves nothing. Nor are pictures: a form
with pictures that is submitted again is refused for them (`api/transactions.go:1250-1263`, before the remark is looked up), which creates nothing either.

The history variables `mixed`, `together`, `forgotten`, `delayed`, `failed` and `byHand` record the
circumstances under which the code does *not* keep a promise. Each is needed: with any one of them left out
of its property the run finds a violation. Read the other way round, they are a list of what the code does not protect against.

## Runs

Deadlock is checked except in `ingest` and `server`, which stop when their bounds on events, rows and time are used up.

Fairness is assumed in `ingest` only: `WF_vars(Step(c))`, a call that runs goes on (a goroutine is scheduled, a database call
answers or fails), and `SF_vars(Lock(c))`, a goroutine waiting for `ingApplyMu` gets it in the end (Go's mutex hands over
to a waiter that starves). Nothing promises that a request is ever sent, so beginnings are not fair. The other
modules claim no liveness: the only loop (`GenerateUuids`) ends only if the clock is kind, and a missed window is never made up.

| run | instance | question | result |
|---|---|---|---|
| `edits` | 2 accounts, 4 rows, 1 second of 3 slots, amounts 1 and 2, int64 = -3..2 | do balances equal the rows, halves mirror, hidden accounts stand, through every sequence of operations | pass |
| `dates` | 3 rows, 2 neighbouring seconds, 1 tag | do times stay unique and in order while slots run out and carry, do tag indexes follow and deleted rows stay | pass |
| `moves` | 3 accounts, one foreign, signed amounts | do moves between accounts settle the opening balances, and does each side of a transfer keep its own amount | pass |
| `spill` | 4 rows, 1 second | do the halves of a transfer share a second | **violated** |
| `tag_in_use` | 1 tag | does a tag in use tag something | **violated** |
| `uuid` | 3 goroutines, numbers 0..4 of which 0..2 fit an id, batches of 1 or 2, 2 seconds | is the allocator implemented | pass |
| `races` | 2 calls, 2 rows, 2 values, 2 previews, failures and crashes | is a preview applied at most once and journaled as shown; does undo mark the entry it chose | pass |
| `chain` | 1 call, browser edits | do the active entries describe the rows nobody edited | pass |
| `late_edit` | 1 call, 3 values, browser edits | does undo overwrite only what the write wrote | **violated** |
| `redo_order` | 1 call, 3 previews | does redo re-apply only entries no newer write closed | **violated** |
| `ingest` | 5 folders of 8 statements of 6 keys, 2 calls, 3 transactions, 2 entries, 2 events | does the merge multiply no row and lose none but third copies, blocked months and refused statements; is the register implemented, has a line one row, does an undo leave nothing, does every call end | pass |
| `server` | 2 requests, 1 form, 2 templates, 3 windows of 2 seconds, 2 events | are balances, retries and scheduled rows right but for the circumstances named | pass |

Why these bounds are enough to see the interesting cases:

- Three slots are the least for which slot 0 can be free, taken below 998, at 998 and at 999: all
  branches of the time search. Two seconds let slot 999 carry into a second that is used.
- Four rows hold two transfers, or a transfer, an opening balance and an entry. Row ids are never used
  again, so deleted rows use the bound up too, as they do their times.
- An int64 of -3..2 makes every balance update refusable within two postings.
- Numbers 0..4 of which 0..2 fit: a batch can fit, be too large, and carry into the next second. Two
  seconds and three goroutines: one swaps while another adds and a third reads an older clock.
- Two calls with two tokens: same token twice, different tokens on one row, undo against undo, undo
  against write. A third call would repeat these. Three previews are what a redo past a closed entry
  needs.
- In `ingest` the statements are a month, a year that contains part of it, a month with a row twice, one that disagrees
  and reaches into the next month, and two cycles of a card, the second saved twice, with a row that its stated period leaves out, and a year of the card:
  subset both ways, a row held by three statements, a conflict that blocks one of two months, duplicates, rows compared with nothing, and a preference. Only one key's rows are imported, as two lines, so that batches, ties
  and ordinals occur; two calls are an apply against an apply or an undo; two events are a failure and a second failure, an edit, or a crash.
  The ASSUME of `MCIngest` types the merged rows of the folders once, so that TLC keeps them as tables; no proof uses it.
- In `server` two requests are what it takes to overtake one; a window of two seconds has a start on time and a late one;
  the third window shows what a late run does to the next; two events are a late timer and a crash,
  a run that fails and one that is late, or a read each for two sessions.

## Findings

1. `spill`: an income or expense edited into a transfer in a second whose slot 999 is taken dates the
   receiving half in the **next** second (`transactions.go:1254` refuses 998 only), which creation and the
   transfer-to-transfer edit refuse.
2. `tag_in_use`: deleting an account (or merging an opening balance, or a transfer that a move leaves within one account)
   deletes rows and keeps their tag index, so the tag can never be deleted.
3. `late_edit`: the state undo compares with is read from the database *after* the write; a browser
   edit in between is taken for the write's own, and undo overwrites it. `apis.mdx` promises a conflict.
4. `redo_order`: redo derives its stack from the order of journal ids. After write 1, undo, write 2,
   undo, it re-applies entry 1, which write 2 had closed, although its documentation says it is available only until a newer write lands.

Met in the ingest pipeline, as exceptions in the properties that had to be stated:

- *A row held by three statements.* `OnlyThirdCopiesAreLost`: each better statement claims the row anew, so when a key occurs twice in the
  lowest statement and once in each of two better ones, both occurrences are claimed and one real row is lost, although
  "the fuller one wins" (`ingest_dedupe.go:18-24`).
- *A statement that disagrees is dropped whole.* A conflict "blocks that account-month and names both files" (`ingest_dedupe.go:23-24`), but
  the loop goes on without any row of the lower statement (`ingest_dedupe.go:348-367`): its rows of months that are *not* blocked are lost too, and
  no counter shows them. `OnlyThirdCopiesAreLost` names these statements (`Refused`).
- *A stated period that is too short.* A statement's own period is believed (`ingest_dedupe.go:93`); rows outside it are compared with nothing
  and count once per statement that has them, so two card cycles that hold one row count it twice (`TestIngCycleDatedCardFeedsOneMonth`, `ingest_test.go:174-182`,
  keeps such a row twice). `NoLineMultiplied` counts these rows besides (`Besides`), and run `ingest` contains two such cycles.
- *A row that two plans know.* `OneRowPerLine` first said that two live rows of a line mean an edit or a lost race. Proving it showed that
  more is needed: a row that a crash left without a record may be linked to *another* line as an accepted match, and when the journal entry of that run
  fails and another plan imports that line again, its record moves on and nothing points at the row any more. `matched` remembers such rows; no small instance had found it.
- *Two stale applies that re-import.* The update of a record does not ask what it points at (`ingest_record.go:224`), so two applies planned
  from the same deleted line both create a row and relink; `OneRowPerLine` leaves re-imported lines out. `src/pm/apis.mdx:2311-2314` says the plane
  "additionally serialises its own writes at concurrency 1"; the code holds a mutex for applies, one for undo and redo, and plans outside both.
- Existing rows are read only for the days of *new* lines (`ingest_plan.go:886-900`), so a plan that only re-imports looks for no possible match.
- `accept_matches` may link two lines to one transaction, because each is checked against the records alone (`ingest_plan.go:982`).

Met in the server, likewise: the lost updates of overtaken sessions, the double submission, the run locked out by one that started late, the run on a host
without an address (`cron_job.go:28-33`) or with a failing query, which lose their window for good with a line in the log, and
the double creation by a run from the command line (all in `Server`'s properties).

Also seen, without a run: an entry may be *edited* into the very second of its account's opening
balance, where *creation* refuses it (its slot still comes after, so `OpeningBalanceFirst` holds); and
a restore op that fails halfway leaves the rows it had already restored, although the comment above `jrRunUndoOps`
says that the books are left as before.

## Proofs

`LedgerProofs`, from `LedgerAssumption` alone (the zero account id is no account; ids, seconds and limits are naturals, amounts fit int64; a second has
more than two times; the ids of rows are finitely many, as 64-bit numbers are):

- `LedgerInv == TypeOK /\ RowsInv` is inductive. None of its parts is so alone.
  The edit of a transfer trusts `relId`, so typing of an edited table needs `TransferHalvesMirror`;
  the mirror keeps an account's rows visible from both sides, which `DeleteAccount` (it searches one column
  only) needs for `RowsNameOpenAccounts`; `OpeningBalanceFirst` through a move needs `UniqueTimes`, which makes
  the order of rows total, and `SentBeforeReceived` through re-dating needs it too.
- A lemma per helper (what times `CreatedAt`, `MovedTo`, `SecondBefore` give; what inserting, dropping, re-pricing
  a row or a pair keeps; what the settled opening balances are), then one lemma per action,
  then `NextKeeps`.
- Theorems: `LedgerIsInductive`, `LedgerIsTyped`, `LedgerTimesAreUnique`, `LedgerTransfersMirror`, `LedgerSendsFirst`,
  `LedgerOpensFirst`, `LedgerNamesOpenAccounts`, `LedgerTagsFollow`, and the action properties `LedgerDeletedRowsStay`
  and `LedgerHiddenAccountsStand`.
- `LedgerHiddenAccountsStand` rests on the mirror: the edit of a transfer asks whether the account in the column
  `related_account_id` is hidden, and only `TransferHalvesMirror` makes that the account of the other half.
- `LedgerTagsFollow` adds `TagInv` to the invariant: an index row points at a row that was written and is never
  the receiving half of a transfer, so that neither a new row nor a rewritten half finds an index it did not ask for.
  Opening balances are the exception in the property because a move dates them anew and leaves their index alone; they never change type, so the exception stays with them.

`SumProofs` and `LedgerBalanceProofs`, from the same assumption:

- A sum is a recursive function on the subsets of a finite set. The prover has no induction over data, but it has well-founded sets: a claim about all
  subsets is proved by taking a smallest subset that breaks it. So the function is shown to exist, the order of picking not to matter, and the sum to change as its one or two
  changed members do.
- `LedgerBalancesAreSums`: a row's *share* of an account is what it books on it, 0 when it is deleted or another account's. Each operation changes a balance by
  the shares of the rows it writes. Moving all rows needs two lemmas more: the transfers between the two accounts vanish in pairs that cancel (which rests on the mirror),
  and of two opening balances one is deleted and the other re-priced by as much.
- `LedgerOpeningsAreAmounts` follows from the same invariant.

`UuidProofs`, from `UuidAssumption` (the counter has room for the numbers of an id and one batch more,
2^19 + 2^16 <= 2^32):

- `UuidInv == TypeOK /\ CounterCoversIds /\ SwapsMoveForward` is inductive. The heart is `AcceptedBatch`: if a
  batch ends just past a carry, its first numbers borrow from the second before and are near 2^32, too large
  for an id, so the batch is refused as a whole; an accepted batch lies in one second.
- `UuidImplementsAllocator`: with that, every step appends nothing to the history, or a batch whose ids are each above all ids of its type before it, in
  the batch or earlier.
- `UuidRepeatsNoId`: what the allocator allows keeps the history `Growing` at any two places of one type, so no id has two places.

`JournalProofs`, from `JournalAssumption` (nobody is no client; the switches are Booleans), for any number of calls,
rows, values and previews, with failures, crashes and edits:

- `JournalInv` is inductive: the four properties of run `races`, and what they rest on. `HoldsMutex`: whoever undoes
  or redoes holds `jrMu`, so no other mark comes between its choice and its mark. `CallsKnow`: the locals of a call
  still say what was checked (its change set is the one shown under its token; the rows it wrote are rows of it; the rows
  it still has to restore are rows of its entry). `EntriesWerePreviewed`: every entry's token was issued, so a new token is new.
- `CallStep` does the common part of the eleven actions that change the locals of one call and neither the journal nor the previews;
  `RecordStep`, `MarkStep`, `PreviewStep` and `CrashStep` treat the rest.
- `JournalEntriesChain`, for one caller and without failures, as in run `chain`: with two callers, or a failure between a write and its entry, it is false.
  `ChainInv` says of every row nobody edited that its active entries follow on one another, and of a call in the middle of its rows which of
  them already have the new value.

`IngestProofs`, from `IngestAssumption`, for any statements, calls, failures and crashes:

- `IngestInv == TypeOK /\ CallsKnow /\ JournalKnows` is inductive. `CallsKnow` follows a plan through its call: only lines that were asked for again
  have a prior transaction, the batch is made of lines to create, and an undo that has come to the records has no row of its run alive.
  `JournalKnows` keeps the same of the journal.
- `IngestImplementsRegister`: a record is overwritten only for a line with a prior transaction, hence asked for, and an insert is refused where the line is taken; so
  every step asks, registers, deletes, withdraws or stutters.
- `IngestUndoesWhole` needs the order of the undo: rows first, then records, then the mark.
- `IngestCreatesOneRow` rests on a second invariant, `RowsInv`. Call a row *clean* that is live and that nobody edited or linked. A clean row has a record, or belongs to a
  batch under way, or a failure left it. A plan creates a row for a line only when it saw no candidate; so two clean rows of a line come from plans
  that overtook one another, and of those the primary key refuses one, whose row stays only if its take-back fails.

`DedupeProofs`, from `DedupeAssumption` (finitely many keys, statements of a folder finitely many and of different paths), and two theorems of `IngestProofs`:

- Both loops of `ingLayerOne` are folds in the order of rank, which is shown to be total on the statements of a folder. An invariant of a loop is again proved by a smallest
  set of statements that breaks it.
- `ComparedClaims`, the inner loop: without a conflict every better statement stands, on the days both cover, for what both have; where only one better statement has a row, no more than it has is claimed.
- `IngestMultipliesNoLine`, the outer loop: the rows kept of a key are at most those of one accepted statement that covers its day, and those of every accepted
  statement that does not cover it (`Bounded`, by `OneBesides` statement by statement). It assumes nothing of the periods.
- `IngestLosesOnlyThirdCopies`: where at most two statements have a key, the kept rows are at least those of each. It assumes that equal hashes mean equal rows.

`ServerProofs`, from `ServerAssumption` (the interval has at least two seconds; forms are not scheduled rows), for any number of requests, forms, templates and any interval:

- `RetryInv`: while a form is neither forgotten nor submitted twice at a time, a row of it is remembered or about to be.
- `PlanInv`, `OnceInv`: the scheduler always plans the beginning of a later window than any row it created, which is what makes a restart safe.
- `OnTimeInv`: the running info ends before the planned second unless the run before started late.
- `BooksAddUp`: an insert, and a session that nothing overtook, change a balance and the sum of the rows alike; a session that was overtaken leaves the accounts
  it writes, and the one its row had meanwhile moved to, in `mixed`, and changes no row of any other account.

Only model-checked: `EveryCallEnds`. Liveness under fairness and ENABLED are out of the prover's reach. Each theorem about a property has the
hypotheses named above and no others; where a property is about one caller (`ActiveEntriesChain`) or assumes something of the statements, so does its theorem.

## Plan

In this order:

1. The batch (`POST /batch`): entries of several ops, the rollback in reverse order, merging, and the restore op that
   fails halfway; account visibility around a write.
2. Transfers in `Ingest` (one create with two lines) and in `TransactionSessions` (two accounts of one row).
3. Tokens, recovery codes and two-factor authorization: single use of a code by two requests; categories and templates with their use checks.
4. Which days a scheduled template's frequency names, as a pure definition against a reference.
5. Proofs about the batch and about transfers, along the arguments that exist: the mirror, the shares, the clean rows.

## What is not modelled

Pure input and output: converters of bank formats, exchange rates, mail, language models, the web front end, the
`ezbk` and MCP clients. Read-only parts: statistics, explorers, analytics. Configuration and logging. The key file of the machine plane,
whose protocol rests on the file system. These are most of the repository's lines, and they keep no state of the books; the models
cover the parts that do, and of those the control and not the formatting.
