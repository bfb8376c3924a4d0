------------------------------- MODULE Server -------------------------------
(***************************************************************************)
(* The server at work: the handlers that create, modify, delete and move   *)
(* transactions for the forms of the web front end, each in a database     *)
(* session of its own, with the duplicate checker before and after a       *)
(* create; the job that creates scheduled transactions every Interval;     *)
(* retries, expiry, late timers, failing database calls and crashes.       *)
(*                                                                         *)
(* A form is submitted with its client session id and may be submitted     *)
(* again.  Time passes in seconds; a window is one Interval of them.       *)
(***************************************************************************)
EXTENDS TransactionSessions, DuplicateChecker

CONSTANTS
    Submission,    \* client session ids of forms
    Form,          \* [Submission -> [account, amount]]
    Template,      \* scheduled templates
    Plan,          \* [Template -> [account, amount]]
    Due,           \* <<template, window>> for the windows a template is scheduled in
    Client,        \* bound: requests in flight at one time
    MaxRows,       \* bound: rows at which no more forms are submitted
    MaxEvents,     \* bound: edits, late timers, slow runs, failures of the job, runs by
                   \* hand and crashes
    LastSecond     \* bound: time

ASSUME ServerAssumption ==
    /\ Interval \in Nat \ {0, 1} /\ Never = -1
    /\ {MaxRows, MaxEvents, LastSecond} \subseteq Nat
    /\ Form \in [Submission -> [account : Account, amount : Amount]]
    /\ Plan \in [Template -> [account : Account, amount : Amount]]
    /\ Amount \subseteq Int /\ Due \subseteq Template \X Nat
    /\ Submission \cap (Template \X Nat) = {}

VARIABLES
    calls,         \* [Client -> the locals of its request]
    now,           \* the second
    next,          \* the second the scheduler plans to start the job
    job,           \* the run of the job: window, templates to do
    events,        \* events so far
    forgotten,     \* history: submissions whose remark expired or was lost
    together,      \* history: submissions with two requests in flight at one time
    delayed,       \* history: windows whose run was overdue, whose run before was started
                   \* late or still went on, or that the server slept through
    failed,        \* history: scheduled rows not created for a failure: of their create, of
                   \* the query for their templates, or of the search for a local address
    byHand         \* history: windows in which the job was run from the command line

books == <<rows, balance, mixed>>
checker == <<remarks, runningUntil>>
scheduler == <<now, next, job, delayed, failed, byHand>>
vars == <<rows, balance, mixed, remarks, runningUntil, calls, now, next, job, events,
          forgotten, together, delayed, failed, byHand>>

Idle == [pc |-> "idle"]
At(c, pc) == calls[c].pc = pc
Goto(c, call) == calls' = [calls EXCEPT ![c] = call]
Creating(c, s) == calls[c].pc \in {"create", "remember"} /\ calls[c].of = s
Event == events < MaxEvents /\ events' = events + 1
Window(second) == second \div Interval
\* Mutant: the row before the one that was added.
RowBefore == Len(rows)
NextRow == Len(rows) + 1

-----------------------------------------------------------------------------
(* Creating what a form says *)

Pending == {c \in Client : At(c, "create")}

\* TransactionCreateHandler up to the create; a remark that is found is the answer
Submit(c, s) ==
    /\ At(c, "idle")
    /\ ~Found(s)
    /\ Len(rows) + Cardinality(Pending) < MaxRows
    /\ Goto(c, [pc |-> "create", of |-> s])
    /\ together' = together \cup {x \in {s} : \E d \in Client : Creating(d, s)}
    /\ UNCHANGED <<books, checker, scheduler, events, forgotten>>

Create(c) ==
    LET s == calls[c].of
    IN  /\ At(c, "create")
        /\ Insert(Form[s].account, Form[s].amount, s)
        /\ Goto(c, [pc |-> "remember", of |-> s, row |-> NextRow])
        /\ UNCHANGED <<checker, scheduler, events, forgotten, together>>

Remember(c) ==
    /\ At(c, "remember")
    /\ SetSubmissionRemark(calls[c].of, calls[c].row)
    /\ Goto(c, Idle)
    /\ UNCHANGED <<books, scheduler, events, forgotten, together>>

\* duplicate_submissions_interval has passed
Forget(s) ==
    /\ Found(s)
    /\ Expire(s)
    /\ forgotten' = forgotten \cup {s}
    /\ UNCHANGED <<books, calls, scheduler, events, together>>

-----------------------------------------------------------------------------
(* Modifying, deleting and moving *)

ReadRow(c, t) ==
    /\ Event
    /\ At(c, "idle")
    /\ rows[t].live
    /\ \/ \E a \in Account, v \in Amount :
            /\ <<a, v>> # <<rows[t].account, rows[t].amount>>
            /\ Goto(c, [pc |-> "modify", row |-> t, read |-> rows[t], account |-> a, amount |-> v])
       \/ Goto(c, [pc |-> "delete", row |-> t, read |-> rows[t]])
    /\ UNCHANGED <<books, checker, scheduler, forgotten, together>>

ReadBalance(c, from, to) ==
    /\ Event
    /\ At(c, "idle")
    /\ from # to
    /\ Goto(c, [pc |-> "move", from |-> from, to |-> to, read |-> balance[from]])
    /\ UNCHANGED <<books, checker, scheduler, forgotten, together>>

Write(c) ==
    LET r == calls[c]
    IN  /\ \/ At(c, "modify") /\ Update(r.row, r.read, r.account, r.amount)
           \/ At(c, "delete") /\ Remove(r.row, r.read)
           \/ At(c, "move") /\ MoveAll(r.from, r.to, r.read)
        /\ Goto(c, Idle)
        /\ UNCHANGED <<checker, scheduler, events, forgotten, together>>

\* the row is gone, the database refuses a session that another overtook, or a call fails
Fail(c) ==
    /\ calls[c].pc \in {"create", "modify", "delete", "move"}
    /\ Goto(c, Idle)
    /\ UNCHANGED <<books, checker, scheduler, events, forgotten, together>>

-----------------------------------------------------------------------------
(* The scheduled job *)

NoJob == [window |-> 0, todo |-> {}]
Scheduled(w) == {t \in Template : <<t, w>> \in Due}
Boundary(w) == w * Interval
Resting == job.todo = {}

\* Mutant: a restart starts the job at once.
PlanAtOnce(second) == second
\* the scheduler plans the next full interval, also after a restart
PlanNext(second) == Boundary(Window(second) + 1)

Overdue == next <= now

\* doRun on a host that has only loopback and link-local addresses: the run ends before the
\* duplicate checker is asked, and its rows are not made up later
NoAddress ==
    /\ Event
    /\ Overdue
    /\ Resting
    /\ next' = PlanNext(now)
    /\ failed' = failed \cup {<<t, Window(now)>> : t \in Scheduled(Window(now))}
    /\ UNCHANGED <<books, checker, calls, now, job, forgotten, together, delayed, byHand>>

\* doRun with an address; in singleton mode a run that is due while another goes on is dropped, and so is
\* one that finds running info
Start ==
    /\ Overdue
    /\ next' = PlanNext(now)
    /\ IF Resting /\ ~CronJobRunning(now)
       THEN SetCronJobRunning(now) /\ job' = [window |-> Window(now), todo |-> Scheduled(Window(now))]
       ELSE UNCHANGED <<checker, job>>
    /\ UNCHANGED <<books, calls, now, events, forgotten, together, delayed, failed, byHand>>

\* the query for the templates fails, and with it the run before its first template
QueryFails ==
    /\ Event
    /\ ~Resting
    /\ job.todo = Scheduled(job.window)
    /\ job' = [job EXCEPT !.todo = {}]
    /\ failed' = failed \cup {<<t, job.window>> : t \in job.todo}
    /\ UNCHANGED <<books, checker, calls, now, next, forgotten, together, delayed, byHand>>

\* CreateScheduledTransactions, template by template
CreateScheduled(t) ==
    /\ t \in job.todo
    /\ Insert(Plan[t].account, Plan[t].amount, <<t, job.window>>)
    /\ job' = [job EXCEPT !.todo = @ \ {t}]
    /\ UNCHANGED <<checker, calls, now, next, events, forgotten, together, delayed, failed, byHand>>

\* a create that fails is logged and the next template taken
ScheduledFails(t) ==
    /\ Event
    /\ t \in job.todo
    /\ job' = [job EXCEPT !.todo = @ \ {t}]
    /\ failed' = failed \cup {<<t, job.window>>}
    /\ UNCHANGED <<books, checker, calls, now, next, forgotten, together, delayed, byHand>>

\* "ezbookkeeping cron run" is a process with a checker of its own, and a session per
\* template
RunByHand(t) ==
    /\ Event
    /\ t \in Scheduled(Window(now))
    /\ Insert(Plan[t].account, Plan[t].amount, <<t, Window(now)>>)
    /\ byHand' = byHand \cup {Window(now)}
    /\ UNCHANGED <<checker, calls, now, next, job, forgotten, together, delayed, failed>>

Crossed(later) == Window(now) + 1 .. Window(later)

\* time passes; over a run that should start, or that goes on, only when the machine was
\* asleep or the run is slow
Tick ==
    LET onTime == ~Overdue /\ Resting
    IN  /\ now < LastSecond
        /\ now' = now + 1
        /\ \/ onTime /\ UNCHANGED events
           \/ ~onTime /\ Event
        /\ delayed' = delayed
             \cup (IF Overdue THEN {Window(now) + 1} \cup {w \in {Window(now)} : Window(now + 1) # w} ELSE {})
             \cup (IF Resting THEN {} ELSE Crossed(now + 1))
        /\ UNCHANGED <<books, checker, calls, next, job, forgotten, together, failed, byHand>>

\* the server stops, and starts again at once or later
Crash ==
    /\ Event
    /\ ForgetAll
    /\ calls' = [c \in Client |-> Idle]
    /\ forgotten' = forgotten \cup {s \in Submission : Found(s) \/ \E c \in Client : Creating(c, s)}
    /\ job' = NoJob
    /\ failed' = failed \cup {<<t, job.window>> : t \in job.todo}
    /\ \E later \in now .. LastSecond :
         /\ now' = later
         /\ next' = PlanNext(later)
         /\ delayed' = delayed \cup Crossed(later) \cup {w \in {Window(now)} : Overdue}
    /\ UNCHANGED <<books, together, byHand>>

Init ==
    /\ rows = <<>>
    /\ balance = [a \in Account |-> 0]
    /\ mixed = {}
    /\ remarks = <<>>
    /\ runningUntil = Never
    /\ calls = [c \in Client |-> Idle]
    /\ now = 0
    /\ next = 0
    /\ job = NoJob
    /\ events = 0
    /\ forgotten = {}
    /\ together = {}
    /\ delayed = {}
    /\ failed = {}
    /\ byHand = {}

Next ==
    \/ \E c \in Client :
         \/ \E s \in Submission : Submit(c, s)
         \/ Create(c)
         \/ Remember(c)
         \/ \E t \in Ids : ReadRow(c, t)
         \/ \E from, to \in Account : ReadBalance(c, from, to)
         \/ Write(c)
         \/ Fail(c)
    \/ \E s \in Submission : Forget(s)
    \/ NoAddress
    \/ Start
    \/ QueryFails
    \/ \E t \in Template : CreateScheduled(t) \/ ScheduledFails(t) \/ RunByHand(t)
    \/ Tick
    \/ Crash

Spec == Init /\ [][Next]_vars

-----------------------------------------------------------------------------
(* Properties *)

Origin == Submission \cup (Template \X Nat)
Row == [account : Account, amount : Amount, live : BOOLEAN, of : Origin]

Call ==
    {Idle}
    \cup [pc : {"create"}, of : Submission]
    \cup [pc : {"remember"}, of : Submission, row : Ids]
    \cup [pc : {"modify"}, row : Ids, read : Row, account : Account, amount : Amount]
    \cup [pc : {"delete"}, row : Ids, read : Row]
    \cup [pc : {"move"}, from : Account, to : Account, read : Int]

\* Types; a row that a request or the checker refers to exists.
TypeOK ==
    /\ rows \in Seq(Row)
    /\ balance \in [Account -> Int]
    /\ DOMAIN remarks \subseteq Submission /\ \A s \in DOMAIN remarks : remarks[s] \in Ids
    /\ calls \in [Client -> Call]
    /\ {now, next, events} \subseteq Nat /\ runningUntil \in Int
    /\ job \in [window : Nat, todo : SUBSET Template]
    /\ {forgotten, together} \subseteq SUBSET Submission
    /\ {delayed, byHand} \subseteq SUBSET Nat
    /\ failed \subseteq Template \X Nat
    /\ mixed \subseteq Account

\* A form that is submitted again creates nothing and is answered with the row it created
\* (TransactionCreateHandler), unless its remark expired or was lost with the process, or
\* two of its requests were under way together: the remark is looked up before the create
\* and stored after it.
RetryCreatesNothing ==
    \A s \in Submission \ (forgotten \cup together) :
        /\ \A t, u \in Ids : rows[t].of = s /\ rows[u].of = s => t = u
        /\ Found(s) => rows[remarks[s]].of = s

\* Every scheduled row of a window that has passed was created (doRun,
\* CreateScheduledTransactions), unless its create or the query for the templates failed,
\* the host had no address but loopback and link-local ones when the run was due, or the
\* run was overdue or still goes on: a run that starts on time is never locked out by the
\* running info of the one before, but one that starts a second late locks out the next.
PunctualRunsMissNothing ==
    \A w \in 0 .. Window(now) - 1 : \A t \in Scheduled(w) :
        \/ \E u \in Ids : rows[u].of = <<t, w>>
        \/ w \in delayed
        \/ <<t, w>> \in failed
        \/ job.window = w /\ t \in job.todo

\* A scheduled row is created once for a window, crashes, restarts and late timers
\* included, unless the job was run from the command line in that window, whose process
\* does not see the server's running info (runCronJob).
ScheduledOnce ==
    \A u, v \in Ids :
        rows[u].of = rows[v].of /\ rows[u].of \in Template \X (Nat \ byHand) => u = v
=============================================================================
