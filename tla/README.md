# Verification of Talk2Data

TLA+ models of Talk2Data (`src/src/talk2data`), the TLC runs that check them on
small instances, and the TLAPS proofs that hold for every instance. The models
are translated from the code; documents are quoted only where the code disagrees
with them. `PROJECT.json` lists the components, the runs, the mutants that show a
property can fail, the source lines of every definition, and the hazards the
properties are aimed at.

## 1. The system

A user asks a question in business words. The program decides whether the
question may be answered, turns it into a plan over approved definitions,
executes that plan on a governed source, certifies the rows and answers with a
receipt. Around this pipeline stand a journal of runs, workers that execute
them, a review process for the definitions, and sessions and files that expire
or are refreshed.

| Component | State it keeps | Operations | Hard behaviour |
|---|---|---|---|
| Single-process run store and coordinator (`run_store`, `run_coordinator`) | SQLite rows: conversations with a revision, runs, one event per write; in memory one task per run | create, enqueue, start, progress, finish, cancel, delete, recover, close | a task against cancellations, shutdown, crash between two transactions, a failing transaction |
| Shared run store and workers (`postgres_runs`, `distributed_runs`) | the same journal in PostgreSQL with a fence, a lease and an authority for each run; each worker's coroutines; the row locks of each session's transaction | enqueue, claim (which sweeps expired runs), heartbeat, progress, finish, cancel, close | competing workers, leases that run out under a slow worker, lost acknowledgements, authority that changes; counts that one statement takes and a later one relies on, locks taken in several orders |
| Retention (`operations/retention`) | a reviewed preview | preview, apply | the application serves, crashes and recovers between the two |
| Definition governance | a stream of publications, drafts, events and withdrawals; handlers hold copies of it | draft, submit, review, publish, revoke, resolve | overlapping read-change-save handlers, effective times, four eyes; withdrawal while an answer is computed, released and read |
| CSV workspace | sessions in memory, checkpoints and conversations in SQLite | create, visit, upload or chat under a lease, submit, clear, prune | expiry during an operation, a crash between two transactions or a failure of one of them, capacity, lookups in the thread pool |
| Browser client (`useWorkspace.ts`, `runs.ts`) | its session and the pending request in the tab's session storage; the run on display | ask, follow the event stream, resume, reload, cancel | answers lost, submissions delivered late or twice, a session that expires or a server that restarts under it |
| Parquet snapshots | a data file and a manifest; in each API process the manifest it loaded | extract, replace twice, load, verify, answer | two replacements that are not one, refresh under a process that starts or runs |
| Agent pipeline (`agent_runtime`, `demo_chat`, `claude_interpreter`, `gemini_interpreter`) | the report of a request: steps, usage, status; its interpretation, plan and receipt | five specialists, each with a start, an end and a notification | two timers, cancellation, retries, budgets, an observer that raises |
| Reference chat (`api/routes/chat`, `demo_chat`, `session_store`) | durable sessions with their questions, decisions and plans | open or continue a session, interpret, record, plan, record, execute, certify, answer | a write, the local model or the source may fail between the records |
| Interpretation, admissibility, compilation, policy, certification | none | pure algorithms | the order of gates; authority checked in five places over four representations |
| Connectors (BigQuery view, uploaded CSV, SQLite seed, PostgreSQL table) | none of their own | acceptance of a plan, time windows, SELECT, checks of rows | calendar edges, incomplete periods, groups cut by LIMIT, four ways to restrict rows to a scope |
| Backups, runtime packages, identity, configuration | see `PROJECT.json` | | not modelled: copying of files, rendering, verification of tokens, wiring |

How they interact:

- An API handler *enqueues* a run in a transaction; the coordinator (one process)
  starts a task for it, or a worker (shared profile) claims it by polling. Both
  call the same operation, the agent pipeline, and write its progress and its
  outcome back to the journal.
- The pipeline reads the current publication of the definitions before it starts
  and resolves it again before it releases the answer.
- The pipeline's observer writes to the journal; when that write fails the error
  surfaces inside the pipeline.
- The CSV workspace owns conversations of the single-process store and removes
  them when a session expires. A tab talks to it through a network that may lose
  or delay any call.
- Retention works on the same SQLite file while the application is down.
- Governance and the journal of runs are two databases: nothing makes the check
  of a publication and the release of an answer one step.
- Snapshot refresh and serving share nothing but a directory.

What makes each part correct, in one line each: a question is executed at most
once and settled exactly once; readers replay a journal that never lies; a
publication continues the one it was reviewed against; an idle session survives
a restart; a question is executed once however often it is submitted; a limit
counted is a limit kept; a withdrawn answer is shown to no reader; an answer names
the data it was computed from; an answer is the total the question asks for, over
data the requester may see, within its deadline.

## 2. The modules

| Module | Models | Proofs |
|---|---|---|
| `RunLifecycle` | what either journal promises to its readers (abstract) | |
| `SharedRuns` | PostgreSQL store, workers, heartbeats; refines `RunLifecycle` | `SharedRunsProofs` |
| `SharedTransactions` | the same store statement by statement, under row locks and timeouts; refines `RunLifecycle` | `SharedTransactionsProofs` |
| `LocalRuns` | SQLite store and coordinator; refines `RunLifecycle` | `LocalRunsProofs` |
| `RetainedRuns` | `LocalRuns` with the retention command (extends it) | `LocalRunsProofs` |
| `Publications` | what governance promises to readers (abstract) | |
| `DefinitionGovernance` | drafts, reviews, publications over compare-and-swap; refines `Publications` | `DefinitionGovernanceProofs` |
| `GovernedAnswers` | runs pinned to publications, with every check between admission and reader (extends `DefinitionGovernance`) | `DefinitionGovernanceProofs` |
| `CsvWorkspace` | sessions, checkpoints, expiry | `CsvBrowserProofs` |
| `CsvBrowser` | a tab, its network and the journal of its runs, composed with `CsvWorkspace` (extends it) | `CsvBrowserProofs` |
| `CsvLookups` | the lookup of a session, split at its database calls | `CsvLookupsProofs` |
| `ParquetSnapshots` | refresh commands and serving processes | `ParquetSnapshotsProofs` |
| `Periods` | the calendar and the windows of `demo_sqlite` | `AgentPipelineProofs` |
| `Catalog` | approved definitions, identities, policy checks | `AgentPipelineProofs` |
| `Interpretation` | rules, the catalog a provider sees, grounding of its proposal, merge of a local model's (extends `Catalog`) | `AgentPipelineProofs` |
| `Admissibility` | the gates of a question, in order (extends `Interpretation`) | `AgentPipelineProofs` |
| `QueryCompiler` | from question to plan (extends `Admissibility`, `Periods`) | `AgentPipelineProofs` |
| `AnalyticalSource` | what each kind of source accepts, reads and returns; certification (extends `QueryCompiler`) | `AgentPipelineProofs` |
| `AgentPipeline` | one request through all of these, supervised with its timers and budgets or in the reference chat with its session (extends `AnalyticalSource`) | `AgentPipelineProofs` |

`MC*` modules give the constants of a module values for TLC.

### State and actions against the code

**Runs.** `status`, `events`, `answered`, `revision`, `expected` are columns of
the journal; a store method is one transaction and therefore one action
(`Enqueue`, `Claim`, `Renew`, `Finish`, ...). In `SharedRuns`, `pc[<<w, r>>]` is
where worker *w*'s coroutine for run *r* stands between two awaits, `monitor`
where its heartbeat stands, `pending` the outcomes it still tries to write (a
lost acknowledgement makes it ask for a second one), `grant` and `lease` what is
left of the run's authority and of its claim. In `LocalRuns`, `task` is the
asyncio task, `cancelled` whether CancelledError was thrown into it, `mode` the
life of the process. Handlers that commit twice are two actions with a crash
possible in between. Any transaction of a task may fail, its `start` included:
`Handle(r, s, n)` is the exception handler that then reports outcome *s* after *n*
failures, and may fail as well. `stranded` remembers the active runs that such
failures left without a task and without a cancel handler.

**Transactions.** `SharedRuns` takes a store method as one step;
`SharedTransactions` does not. A session has one connection and `tx[s]` is the
transaction on it: which rows it has yet to lock and which of its checks it
passed. `Begin`, `Lock`, the statement that counts, the statement that writes and
the commit are steps of their own, `holder` says who has a row locked, and what
is written appears to others with the commit. `Rollback` stands for a lock
timeout, a statement timeout and a lost connection, at any point. The two modules
share the abstract journal: each refines `RunLifecycle`.

**Retention.** `Preview` and `Apply` run while the process is down, since both
take the worker's lock file. `plan` is the reviewed listing, with what was written
since to the conversations it knew; `Matches` is the comparison of the plan's hash.

**Governance.** `store` is the committed stream. A handler reads it, changes its
copy (`proposal[h]`) and later saves it if the revision is still the one it read:
`CreateDraft`, `Submit`, `Review`, `Publish`, `Revoke` prepare, `Save` commits or
loses. `Admit` pins a publication to a run. In `GovernedAnswers` a run then
advances through the checks the code makes (before the work, when the answer is
composed, before it is released), is released in another database, read, and
checked again before the reader gets it (`Read`, `Show`). The cancel endpoint goes
the other way round: it checks first (`CheckCaller`) and then cancels, which returns
a run released meanwhile with its answer (`Cancel`). `client` is such a request,
"overtaken" once the publication is withdrawn between its check and its
cancellation. `late` remembers the runs released after their publication was
withdrawn.

**CSV workspace.** `held`, `busy`, `version` are memory, `conv`, `saved`,
`active` the database; every operation prunes first, so its action begins with
the pruned state. `step` is a handler between two transactions. A transaction may
fail without the process dying (`Fails`): a session is then in memory without its
conversation, and its token in nobody's hands (`lost`), a change is in memory and not
on disk (`behind`), a run is enqueued whose session stays busy with no task to release
it (`stuck`, `Withdraw` settles the run), a cleared session keeps its checkpoint, or
pruning stops half way (`PruneFails`) and the operation it precedes is refused.
`Dropped` is a visit that takes the answer of a withdrawn definition out of memory
and saves nothing. `CsvLookups`
looks closer at one function, `get`: the run endpoints call it in threads of
FastAPI's pool, which change at its database calls. There `sessions` is the
dictionary and an item is an object with an identity, because two objects can
stand for one session; `at[c]` is where a thread or the event loop stands.

**Browser.** `stored` and `pending` are the tab's session storage, `page`, `call`,
`current` and `shown` the page, `stale` the answer to a cancellation that is on its
way. `posts` are the submissions in the network: the tab may give up waiting for
one (`GiveUp`) that is delivered later, and send it again (`ResumeRequest`).
`Deliver` is the workspace's `submit_run` with the answer to the tab, if it still
waits; `Receive` is one event of the stream, `Recheck` the snapshot that follows
it. Each run of the journal is reduced to the number of its events and whether the
last one settled it. Everything the workspace does by itself or for others is
`Serve` and `Elsewhere`.

**Parquet.** `file`, `manifest` and `age` are the directory; `approved[s]` is the
manifest process *s* read. Starting a process takes a step for each of its accesses
to the directory, between which a refresh may come: it reads the manifest
(`ReadManifest`), hashes the data file (`HashFile`), opens that file again to count
its rows (`CountRows`; `RowCount` says which versions agree in it), and takes the
manifest into use (`TakeUp`).

**Pipeline.** `DemoChatService.answer` is one function with two lives, and so is
the model. A request of the internal profile (source `VIEW`) or of a CSV
workspace (`CSV`) is `Supervised`: an `AgentRun` accompanies it, each specialist
has a `Start...` action (`_start`: deadline, step budget, notification) and one or
more actions for its work, and `Fail` and `Succeed` end a step and include the
notification that follows, which may raise. A request of the reference
application (`SEED`, `TABLE`) has no run; its steps are silent, and instead it
opens a session (`Open`) and records its question (`Note`) and its plan (`File`),
each a transaction of the session store that may fail. `Onward` says where such a
request goes where a supervised one starts its next specialist. `stored` is what
its session holds of it.

`pc` is the place of the task; it stands still only in an await (`Awaiting`), and
only there may a timer or a cancellation reach it. `Consult`, `Count`, `Respond`,
`CallFails` and `Wake` are a hosted model's call with its retry (Claude; Gemini
counts, reserves and validates in the same order), `Propose` the local model's,
whose failure is overcome by the rules unless it is `required`; `Query`, `Execute`
and `SourceFails` are the source. Interpretation, admissibility, compilation,
policy and certification are operators evaluated inside these actions; a question
is a record of what the rules find in its text.

**Sources.** A job is a plan executed for an identity on a source in some world,
and a world is a set of facts with a metric, the days they speak of, a region,
further dimensions, a unit, an amount and a validity. `Accepts` is a connector's
`validate_plan`, `Part` the rows of one period its SELECT sums (`Visible` is how
it restricts them to the scope of the identity, which each kind does
differently), `SourceStatus` what it makes of them, `Receipt` and `Verified` the
merge of two periods and the certification. `Viewed`, `Imported` and `Synthetic`
say which worlds a kind of source can be in, from what its loader enforces; an
instance that puts another world behind it violates `WorldsAssumption`.

Modelling decisions worth knowing:

- `asyncio.wait_for` runs its coroutine in the calling task (Python 3.12), so the
  resolver by rules never suspends.
- Two timers bound an await, the inner one of `async_step` and the outer one of
  `finish`. The inner step may read FAILED or CANCELLED; the run is
  RUN_DEADLINE either way. A cancellation that arrives as well wins.
- A failed attempt of the provider is taken to consume nothing or all it
  reserved. Codes the code distinguishes but no property does are folded:
  PROVIDER_INCOMPLETE into PROVIDER_SCHEMA, RETRY_AFTER_INVALID into
  RETRY_DELAY_LIMIT, other provider codes into PROVIDER_UNAVAILABLE; and an
  unknown tenant pack into the session that is not found.
- A connector that asks for one period after the other may fail after the first;
  `reads` is then taken to hold both, which only makes `ReadsAreAuthorised`
  harder to satisfy.
- A source that raises outside a connector's own error ends an unsupervised chat
  as FAILED, which stands for the error response of the route.
- The default window of a metric may be any of the thirteen presets. `CUSTOM` has no
  dates to go by: the validator of the time window raises, no plan is compiled
  (`RAISED` in `Refusal`), and the request ends as RUN_FAILED, or with an error
  response in the reference application.
- Metrics are sums. A RATIO metric divides two sums of the same rows.
- Time windows use real dates: `Periods` computes with ordinals and month
  lengths, weeks begin on Monday.

## 3. The runs

| Run | Instance | Shows |
|---|---|---|
| `shared_safety` | 1 conversation, 2 questions, 2 workers, 1 crash or shutdown, lease of 1 tick, authority of 2 | valid journal, at most one dispatch, no late answer, refinement of `RunLifecycle` (one active question, answers never change) |
| `shared_transactions` | 2 sessions, 3 conversations, 2 questions, every limit at its smallest | no cycle of waiting sessions, no interleaving of statements exceeds an admission limit, the committed rows refine `RunLifecycle` |
| `shared_liveness` | 1 question, 2 workers, 1 crash | every admitted run settles; work on a run settled by someone else is stopped |
| `local_runs` | 2 conversations, 2 questions in one of them, 3 crashes or shutdowns, 2 failing transactions, the retention command | valid journal, refinement, an active run has someone to settle it unless a transaction failed for it, only what was reviewed is removed, cancellations and interrupted runs settle |
| `definitions` | 2 people, one of whom edits and reviews, 2 drafts, 2 overlapping handlers, 2 instants, 1 run that is answered, read and cancelled | publications continue their base, four eyes, pins resolve, a withdrawn answer is shown to no reader, refinement of `Publications` |
| `csv_browser` | 2 sessions for 1 place, life of 1 tick, 2 versions, 1 crash, 1 failing transaction, 2 questions, runs of 2 events | a run keeps its conversation, an idle session is durable, capacity, a question is executed once, what is shown is a prefix of its run |
| `csv_expiry` | 2 sessions | **violated**: a session that expires while it is busy blocks all later pruning |
| `csv_lookups` | 2 sessions, 2 threads, 4 items, 1 restart | a session of this process has no operation on an item that other requests do not find, and stays cleared |
| `parquet_refresh` | 1 refresh command, 2 processes, 3 versions, two of which have as many rows | a completed refresh repairs, a process serves data its manifest does not describe only when a refresh overtook it since it hashed the file |
| `parquet_receipt` | 1 refresh command, 1 process | **violated**: a receipt cites data it was not computed from |
| `agent_pipeline` | 1628 requests over 6 metrics, 2 dimensions, 4 kinds of source, 12 worlds of facts, 11 identities, 17 anchor days | see below |
| `table_coverage` | the same requests | **violated**: a table with a month missing answers for the quarter |

The pipeline run checks that whatever the source reads the requester may see
(`ReadsAreAuthorised`), that a released answer is, group by group, the total over
complete periods the question asks for and compares with (`AnswerIsTrue`, stated
over the facts and the question and not over the plan), that windows and
comparison periods are what the calendar says (`PeriodsMatchCalendar`), that an
account of tokens that calls itself complete is the provider's and no run
proceeds to data beyond its budget (`UsageIsHonest`), that a report's steps agree
with the outcome (`StepsTellTheRun`), that a durable session holds the question
of every response and the plan of everything read, and nothing of a question that
was turned away or of somebody else's session (`SessionTellsTheChat`), that no
answer is composed after the
deadline, and that every request settles.

### Bounds, and why they are enough

Every bound is a constant of its module, named in the `.cfg`.

- *Two competitors* (workers, handlers, questions of one conversation) are what
  every race here needs: the code's mutual exclusion is a row lock, a fence or a
  revision, and a third competitor meets the same check. The proofs remove this
  bound for every module they cover. In `SharedTransactions` two sessions already
  close a cycle of waiting, since a session waits for one row at a time while it
  holds at least one.
- *One to three crashes* let a second process recover what a first one left, and
  be interrupted itself; with three, retention can be previewed, the application
  can serve, and the plan be applied. *Two failing transactions* put a fault at any
  commit of a run and another at the report of the first.
- *Leases and authorities of one or two ticks*: only "still live" and "run out"
  are compared; a grant longer than a lease lets each run out first.
- *An event budget of 3* reaches the point where progress is refused and only the
  cancellation and the outcome may still be written.
- *Two sessions for one place, two versions*: eviction and refusal at capacity,
  and a checkpoint that is older than memory. Two questions let the second one
  follow a run that is still unknown to the tab, and two events separate a run's
  progress from its end. `MCBounds` keeps what goes wrong at once within reach of
  TLC: without a question, a crash and a failing transaction together; with sessions
  that change, a question alone; with sessions that do not, a question with either,
  and two questions with a crash. The proofs have no such bound. `CsvWorkspaceExpiry`
  has two places and two tokens, so that the blocked session and the one that suffers
  differ.
- *Three versions of the source*, of which the first two have the same number of
  rows: a refresh that the row count notices and one that it does not.
- *Four items for two sessions and two threads*: a busy item, its replacement and
  one to come; more callers than threads and the event loop cannot stand between
  the reading of a row and the insertion.
- *Worlds of facts* of at most 22 rows: complete, empty, a missing day in one
  group, an invalid observation, values out of bounds, zeros to divide by, a file
  that lacks a column; for tables monthly rows, one that straddles two months, a
  month that is missing, a NULL amount and a NULL dimension. Row limit 3 lies
  between the groups of one dimension (2) and of two (4), so answers are cut or
  refused. Anchors include 29 February, year ends and quarter starts; budgets run
  from one step and two tokens to ample. Identities include an administrator
  without explicit scope, a scope that is mapped to two regions, one that is
  mapped to none and one that is mapped in part.
- *A local model* may propose any of 96 combinations of metrics, dimensions and
  intent, among them a metric the question does not name.

### Fairness

- `LocalRuns`: the event loop schedules every task (`Execute`), and a supervisor
  restarts the process (`Restart`). Operations are not fair: they need never
  return.
- `SharedRuns`: the database clock runs; each worker polls (`Claim`), a closing
  worker finishes closing, a crashed one is restarted, and each coroutine and
  each monitor is scheduled. Users, operations and lost messages are unfair.
- `AgentPipeline`: the event loop gets on with a task that awaits nothing
  (`GetsOn`), the deadline arrives (`Expire`) and a timer that is due fires
  (`DeadlineFires`). Under supervision the provider and the source owe nothing.
  In the reference application, which has no deadline, `GetsOn` also covers the
  awaits: the timeouts of httpx and of PostgreSQL and SQLite's busy handler end
  them. `GetsOn` states that one of the synchronous actions moves the task, and
  is weakly fair on `pc`.
- Governance, CSV, the browser, `SharedTransactions` and Parquet have no liveness
  property and no fairness: a tab waits for its user, and a transaction that is
  not begun owes nothing. That transactions do not wait for one another for ever
  is the invariant `NoDeadlock`.

`CHECK_DEADLOCK FALSE` stands where a bounded system really may stop: all runs
settled with the crash budget spent, all tokens issued and expired, or the last
draft published, all questions asked, all items in use.

## 4. What is proved

Assumptions are the named `ASSUME`s of each module: types of the constants, a
null that is no worker and room for an admission and a claim in a run's events
(`SharedAssumption`; the code has 60) or that is no session (`TransactionsAssumption`,
which also takes the sets of conversations and requests to be finite), a seed
that is no draft (`GovernanceAssumption`), what the validators of a definition
pack accept (`PackContract` in `CatalogAssumption`), what the loaders of the
sources enforce (`SourceAssumption`, `WorldsAssumption`), and the shape of a
request (`RequestsAssumption`). TLC evaluates all of them. The inductive
invariants named below were checked by TLC before they were proved.

**`SharedRunsProofs`**, for any number of conversations, requests and workers and
any limits: `TypeCorrect`, `OneActiveAlways`, `AtMostOnce` (no redispatch),
`NoLateAnswerEver`, `JournalValidAlways` and `ImplementsLifecycle`. At-most-once is not inductive: the
argument is `DispatchInv`, which says that a run not yet claimed has left no trace
at any worker, that a claimed run is in the hands of one worker, and that the
stage of its coroutine tells how often its operation was started. A sweep makes
an expired run terminal, never queued again, so no later claim can find it. The
journal's validity follows from `JournalInv`: the last event of a run is its
status, a conversation with runs is open, and its revision numbers them.

**`SharedTransactionsProofs`**, for any number of sessions and from any
interleaving of statements: `TypeCorrect`, `NeverDeadlocked`, `LimitsHold` and
`ImplementsJournal`. The rows have no global order, so the absence of deadlock is
not a lock order but a witness: a session that others wait for and that waits
itself always holds the admission row (`LockInv`), there is one such row, and so
no cycle closes. For the limits, `Held` says which rows a session has locked at
each stage and `Room` that what it counted still leaves room: whoever could use
that room up needs a row that the counting session has. Both are part of `IInv`,
with the types, the lock invariant and what holds of committed rows (`RowInv`).

**`LocalRunsProofs`**, for any conversations, requests, crashes and faults:
`TypeCorrect`, `NoOrphanAlways`, `JournalValidAlways`, `ImplementsLifecycle`, and
`RetentionReviewed` for the composition with retention. `Supervised` relates a
task's stage to the status of its row and says who is left to settle a run in each
mode of the process, or that a failed transaction is why nobody is (`stranded`); `JournalInv` numbers the runs of a conversation by its
revisions; `PlanInv` says that a reviewed preview lists just what is old, untouched
and settled.

**`DefinitionGovernanceProofs`**, for any people, drafts, handlers and clock:
`TypeCorrect`, `FourEyesAlways`, `PinnedAlways`, `NeverRegresses`,
`PublicationChainAlways` and `ImplementsPublications`. Because handlers hold copies, the invariant speaks of
every copy about to be saved as well as of the store: each is well formed, at
most one revision ahead, and if it is exactly one ahead of the store it is one
step from it and keeps every pin resolvable. The chain of publications needs the
same of its history: in the store and in every copy, each publication is *traced*
to a base that precedes it and *told* by the events (`ChainInv`). For runs pinned to
publications, `WithdrawnNeverShownEver` holds since withdrawals are never undone by
any copy that may still be saved: a reader is checked after reading, and who cancels
is given an answer released after its withdrawal only if that withdrawal fell between
the check and the cancellation (`LateInv`).

**`CsvBrowserProofs`**, for any number of sessions, questions, versions, places,
crashes and failing transactions: of the workspace `WorkspaceTypeCorrect`, `RunKeepsConversationAlways`,
`IdleIsDurableAlways` and `WithinCapacityAlways`, from `WInv`, which says what is on
disk and in memory at each stage of a handler that commits twice, also when one of
the two fails;
`ClientOfWorkspace`, that the composition with the tab implements the workspace, so
that these theorems hold for it too; `ExpiredPrunedUnlessOvertaken`, on what makes
pruning fail (see 5), whose hypotheses are that a busy session lives (`BusyLives`),
that no crash interrupts `clear` (`ClearsThrough`) and that no transaction fails but
those that save a session (`OnlySavesFail`); and of the composition `BrowserTypeCorrect`,
`AskedOnceAlways` and `ShownIsHistoryAlways`. The last two rest on `LogInv` (a
question has one request and one session, whatever copies of it are still in the
network; only the last run of a session may be unsettled) and `ViewInv` (what the
tab has seen of a run was admitted, so that a late copy of its request is answered
with that run and not accepted again).

**`AgentPipelineProofs`**, for any catalog, identities, questions and content of
the sources: `TypeCorrect`, `ReadsAuthorisedAlways`, `SessionTellsTheChatAlways`,
`AnswersInTimeAlways`, `StepsTellTheRunAlways`, `UsageIsHonestAlways`,
`PeriodsMatchCalendarAlways`, `AnswerIsTrueAlways`, `ViewsAndFilesCover` and
`EveryStepAdvances`. The second follows from `AuthorityKept`: an interpretation
that reached planning is *sound* (it keeps the metrics the question names and
includes the domain of everything it reads, but for a metric only the local model
names) and *cleared*; a plan that reached execution has the *authority* of its
interpretation; a query is sent only for an *accepted* plan; nothing is read
before. Soundness must be part of it because the domain of a metric is checked
before the plan exists and the source does not check it again. `VerdictMeans`
rests on `FirstGate`: the first gate that holds decides, and so a verdict that
proceeds has passed the earlier ones. The third follows from `SessionInv`, which
says for each place of an unsupervised task what its session already holds; the
places are ordered by what must have been recorded before them.

A report is a *ladder*: steps that succeeded and at most one more, whose height and
last rung the place of the task determines (`StepsInv`). It is *backed* when its
status has the steps behind it that it claims, and *closed* when no step of a run
that is over still reads RUNNING; `StepsTellTheRun` is what is left of this at a
settled task. `UsageIsHonest` is not inductive: an attempt in flight may consume
what it reserved, so `SpendInv` bounds what was consumed together with what this
attempt may still consume by the reservation, and the reservation by the budget.

`PeriodsMatchCalendarAlways` is mostly about `Periods`: a day has one year, month and
day of the month (`DateIs`) and every day from two years before the epoch has one
(`DateExists`; the year is the last that begins by that day), months follow each
other by their index (`MonthsOrdered`), and so each named window is `Exact`: all the
days it asks for and neither the one before nor the one after. It speaks of every
default a metric may have; one whose default is `CUSTOM` gets no plan. Only `Plan` leads to
the places where a plan waits (`OnlyPlanCompiles`).

`AnswerIsTrueAlways` rests on `AnswerInv`, which says what each place of the task has
behind it: a meaning that groups by what the question asks to group by, a *faithful*
plan, which is what that meaning compiles to, a receipt that is what the source
makes of this plan, and its verification. That such a receipt is true
(`ReceiptIsTrue`) is then a matter of the operators: the WHERE clause keeps the facts
wanted (`MatchesWanted`), a source that yields rows found every group whole
(`ViewRows`, `CsvRows`), as many days as a period has within it are all of its days
(`CompleteIsEveryDay`), and a view, which labels a day of two overlapping periods
current, finds the group of the other period incomplete (`ComparedGroup`). What a sum
of amounts is is not opened: the theorem says which facts it is the total of. From
the same invariant, `ViewsAndFilesCover`: for views and files the property that
`table_coverage` refutes for tables is a theorem.

`EveryStepAdvances` gives a bound on what a request can still go through: the places
of the task are ranked, a call of the model weighs two, the deadline and a
cancellation one each, and every step, whoever takes it, lowers the sum. No retry
starts the work over, and a request takes at most fifteen steps and two for each
call it was allowed. What `RunEnds` adds to this, that some step can always be taken
and is, is left to TLC.

**`CsvLookupsProofs`**, for any sessions, threads, items and restarts:
`TypeCorrect`, `FreshIsExclusiveAlways` and `ClearedIsGoneAlways`. `LookupOK` says
what a caller between two database calls may still believe: it looks only for
sessions somebody was given, never restores one that this process created, and
misses one only after it was cleared. `LoopOK` says the same of the event loop while
it creates or clears; `Owned` that every item stands for its own session, and `Kept`
that a session created here leaves memory only by being cleared.

**`ParquetSnapshotsProofs`**, for any refresh commands, processes and versions:
`TypeCorrect`, `OnlyRefreshesDivergeAlways` and `RefreshRepairsAlone`. The last has a
hypothesis, that no two refresh commands are ever at work at once (`Alone`), and
needs it: with two commands the file of one is paired with the manifest of the other
within seven steps. The command takes no lock, so this is the operator's part of the
protocol. `ReceiptsTellUndisturbed` has another, that a refresh replaces the data
file only while no process relies on it (`Undisturbed`): a process relies on what it
found from the moment it hashed the file (`Relies`), not only once it serves.
`parquet_receipt` shows what happens otherwise.

Only model-checked: the liveness properties (`EveryRunSettles`, `OrphanWorkStops`,
`CancellationSettles`, `RestartSettles`, `RunEnds`), which are out of the prover's
reach, and what the value of a sum is (`Total` is a fold, which no installed prover
can compute).
Where a type invariant is a theorem, most runs do not repeat it.

## 5. Disagreements found

Three runs end in a violation; the traces are short.

1. `csv_expiry`: `prune_checkpoints` deletes the rows of an expired session that
   is busy in memory; the lease then writes the checkpoint back, and from then on
   pruning fails for every session until a restart. A crash between the two
   transactions of `clear` has the same effect later: the checkpoint that is left is
   restored without its conversation (with a crash allowed, TLC finds it in six
   steps). So has a transaction that fails in a process that goes on: the creation of
   the conversation leaves a session in memory that has none, a failing `clear` or
   pruning leaves a checkpoint that has none, and a run that cannot be settled keeps
   its conversation from being deleted. `ExpiredPrunedUnlessOvertaken` proves that there
   is no fourth way: without these three, whatever is in memory or on disk of a session
   has its conversation (`Rooted`). A failing save is harmless here.
2. `parquet_receipt`: a process reads the data file by name on every query and
   cites the manifest it loaded at startup. A process that starts hashes the file and
   opens it again to count the rows, so that a refresh with as many rows may also come
   in between. `ReceiptsTellUndisturbed` proves that replacing the file under a process
   that has hashed it is the only cause.
3. `table_coverage`: the PostgreSQL connector takes the first and the last day of
   a metric for its coverage, so a period inside that lacks days or a whole month
   is answered with the total of the rest; rows that straddle the end of a period
   are left out without a word. `ViewsAndFilesCover` proves that a view and a file
   keep what the documents say.

Four more are built into a property as the exception it makes:

- `POST /v1/internal/queries/{request_id}/cancel` cancels the task of a durable
  run directly; the run goes from RUNNING to CANCELLED in one write, where
  `DURABLE_CONVERSATIONS.md` says a request is persisted first. The contract of
  `LocalRuns` allows that edge where the endpoint is served (`QueryEndpoint`), and
  `ImplementsLifecycle` shows that there is none without it.
- The start of a run is a transaction of its own; when it fails, the handler of the
  task writes FAILED over QUEUED, an edge that the state diagram of
  `DURABLE_CONVERSATIONS.md` does not have. The contract of `LocalRuns` allows it, and
  `ImplementsLifecycle` shows that only a step in which a transaction failed takes it.
- `POST /runs/{id}/cancel` of the shared profile checks who calls and what the run is
  pinned to, and then returns the run as it is stored. A definition withdrawn between
  the two does not hold back an answer released meanwhile, where
  `DURABLE_CONVERSATIONS.md` has the endpoint return a terminal snapshot like those
  that are reauthorized. `WithdrawnNeverShown` makes that exception, for a withdrawal
  that overtakes the handler and for no other.
- After a restart, a run endpoint's thread that has read a session's checkpoint may
  replace the item that an upload, a chat or a definition change is busy with; the
  second item is idle, and another operation is admitted, where
  `DEFINITION_GOVERNANCE.md` says that concurrent operations are blocked. In the
  same way a session cleared meanwhile comes back into memory. `FreshIsExclusive`
  and `ClearedIsGone` speak of the sessions the process created itself, which are
  never looked up on disk; without `fresh`, TLC finds either case in some twelve steps.

Observed while modelling and part of the models as the code behaves, but not
stated as runs: an enqueued run whose `accepted()` callback raises stays QUEUED
without a task until it is cancelled or the process restarts; a crash between
`create_conversation` and the first checkpoint leaves a conversation no session
owns; a failure between the two replacements of a refresh leaves files that do
not belong together until the next refresh; staleness of a snapshot is checked
only at startup; a connector's own query timeout is reported as RUN_DEADLINE; a
report may briefly say CANCELLED before the outer timer makes it FAILED; a value
of a dimension the metric does not have is passed over without a word, so that
`FILTER_DIMENSION_NOT_ALLOWED_FOR_METRIC` is unreachable from a question; the
domain classification of a filtered dimension is not checked; year-over-year of
a complete February after a leap year leaves out 29 February; no gate looks at
the intent of a question, so that a question for causes that names an available
metric is answered with its value; the domain of a metric that only the local
model names is not held against the requester's clearance (`ReadsAreAuthorised`
makes that exception); the seed adds no predicate on the region for an identity
whose regions are all unknown to it; `SQLiteSessionStore` orders the entries
of a session by their time and then by a random identifier, so that a question
and its decision, which carry the same time, may be listed in either order; a publication withdrawn between the last check and
the release does not stop the release, only the readers after it; a submission that
repeats a request returns its run as stored after the check in the same way as the
cancellation does (outside the model); a metric whose default window is `CUSTOM`
fails every question that names no dates, as RUN_FAILED or with an error response;
the answer to a cancellation in the browser may set the display back to an older
snapshot until the next refresh; every failure in the middle of an event stream is
reported as lost access, upon which the tab drops its session; and a submission
delivered after the tab forgot it runs without disabling the tab's controls until
the latest run is looked up.

## 6. Not modelled, and why

The text of questions (matching, prompts), SQL text, RATIO metrics, the
Transformers provider, the language budget of a CSV session, a view whose
dimensions are NULL, a connector missing from the registry, memory and PostgreSQL
session stores, reading sessions back, HTTP routing, formatting and settings:
without state of their own, or data the properties do not tell apart. The cap of 16
conversations for one owner on the shared profile is one more limit of the kind
`WithinLimits` checks, counted under the same lock. Custom
windows of more than a year compared with the year before overlap their
comparison; a view then labels shared days as current. No instance asks for it, but
`AnswerIsTrueAlways` includes it.

Of the browser: the internal client, which resumes in the same way under a verified
identity, and several tabs with one session. Backups copy files. Verification of
tokens and the entitlement file appear only as changes of authority in
`SharedRuns`. `CsvLookups` leaves out expiry: two prunings that find the same
expired session may fail the second request, which loses nothing. Runtime packages
render a package of definitions deterministically and keep nothing.

One hazard has no property: overlapping refresh commands, which the documents
exclude by asking for one scheduled command. `RefreshRepairs` is proved for any
number of commands that do not overlap, and is false of two that do.

## 7. Plan

Done in this order: run journals and workers with their lifecycle; governance;
CSV workspace; Parquet snapshots; the pipeline with the algorithms it calls; the
reference chat and the other three connectors; the transactions of the shared
store; answers under governance; retention; the browser; lookups.

To extend the model: the internal browser client under identities that change;
backup and restore against a live journal; expiry in `CsvLookups`.

To prove further: bounds of the same kind as `EveryStepAdvances` for a durable run
and for a transaction of its store.
