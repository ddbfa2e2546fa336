# ScaledTest in TLA+

A verification development for ScaledTest, a test-result platform written in Go: an HTTP API over
PostgreSQL that ingests test reports, runs tests as Kubernetes Jobs, splits them among workers, measures
reports against quality gates, triages failures with an LLM, calls webhooks and streams progress over
WebSockets, for the members of teams who are invited, sign in and hold tokens. The modules below model
that server where goroutines, requests, processes and partial failures meet; TLC checks them on small
instances and TLAPS proves most of their safety properties for every instance. Paths are those of the
repository.

## 1. Inventory

The server is one process (`cmd/server`). It keeps almost no state of its own: rows in PostgreSQL, the
slots of two semaphores, the clients of one hub. Everything hard comes from that: a handler is a sequence
of separate statements and external calls, other handlers and background goroutines run between any two
of them, and the process may end in between.

| Part | State | Operations | Met by |
|---|---|---|---|
| **Executions API** (`handler/executions.go`, `store/executions.go`) | `test_executions`: status, `started_at`, Job and Secret names, `report_id` | Create (INSERT, Secret, Job, UPDATE of the names), Cancel (UPDATE, delete Job, delete Secret), UpdateStatus, list, get, three progress callbacks | users, workers |
| **Kubernetes** (`k8s/k8s.go`) | Jobs, Pods, Secrets in the cluster | CreateJob, DeleteJob, DeleteSecret, GetJobStatus | Create, Cancel, the reconciler; the TTL controller and eviction on their own |
| **Worker** (`cmd/worker`) | a process in the Job's pod | report "running", run the command, upload the report, report the verdict; SIGTERM | the API, over HTTP that may lose or delay |
| **Reconciler** (`k8s.Reconciler`) | nothing but the snapshot of its pass | every interval: list running rows, look each Job up, fail the row, delete the Secret | all of the above |
| **Report ingest** (`handler/reports.go`, `store/reports.go`, `store/durations.go`, `ctrf`) | `test_reports`, `test_results`, `test_duration_history`, `test_executions.report_id` | Create: one transaction, then triage, gates, webhooks; Delete; Compare | workers, CI |
| **Quality gates** (`quality`, `handler/quality_gates.go`, `store/quality_gates.go`) | `quality_gates`, `quality_gate_evaluations` | create, update, delete, evaluate six rules, in ingest or on request | ingest, users |
| **Triage** (`triage/job.go`, `triage/engine.go`, `store/triage.go`, `handler/reports.go`) | `triage_results`, its clusters and classifications, `test_reports.triage_status`, a semaphore | ingest, enqueue, claim, persist, settle, retry, read, delete | report ingest, users |
| **Sharding** (`shard`, `handler/sharding.go`) | none: the client holds the plan | enrich with history, group by dependencies, three strategies, rebalance | users |
| **Webhooks** (`webhook/webhook.go`, `handler/webhooks.go`, two stores) | `webhooks`, `webhook_deliveries`, a semaphore | Notify, Send with retries, Record, create, update, delete, retry of a delivery | Executions and reports call Notify |
| **WebSocket hub** (`ws/ws.go`) | the clients, each with a buffered channel and two goroutines, behind one `sync.RWMutex` | HandleConnect, Broadcast, Shutdown | the execution handlers broadcast |
| **Accounts** (`handler/auth.go`, `handler/oauth.go`, `store/auth.go`, `store/oauth.go`, `auth`) | `users`, `oauth_accounts`, `sessions`, the claims of issued tokens | Register (the first user is the owner), Login, Refresh, Logout, ChangePassword, OAuth callback | everybody |
| **Teams and invitations** (`handler/teams.go`, `handler/invitations.go`, their stores, `store/api_tokens.go`) | `teams`, `user_teams`, `api_tokens`, `invitations` | create and delete teams and tokens, invite, revoke, accept | users |
| **Mailer, GitHub, Telegram clients** | none | one call with bounded retries | invitations, ingest, CI |
| Analytics, audit log, LLM client, middleware, configuration, database pool, frontend, deployment | none of interest here | | |

How the parts interact: Create hands a token to the worker in a Secret and its name to the row; the worker
and the reconciler both write the row's status, neither reads it first; ingest links a report to an
execution, feeds the duration history that shard plans are made from, and then calls `Runner.Enqueue`,
the gates and `Notify`, in that order; RetryTriage calls `Enqueue` too; UpdateStatus calls `Notify`;
the progress callbacks call `Hub.Broadcast`; deleting a report, a gate or a team takes rows of the
other parts along by ON DELETE CASCADE.

What is hard, and what makes each part correct:

* **Executions.** A row, a Job, a Secret and a process tell one story in four places, changed by
  four actors with no transaction between them. Correct means: "completed" is never invented, both
  verdicts are never announced, a stale snapshot neither kills a live execution nor takes the Secret of
  a pod that has still to start, cancellation leaves nothing running, a crashed worker is noticed.
* **Ingest and gates.** Transactions of several submissions lock the rows of the same tests in the order of
  their payloads; after the commit each handler reads and writes in separate statements while gates are
  edited and reports deleted. Correct means: no run is lost from the history, a submission ends, what is
  refused leaves no trace, no evaluation outlives its gate or report, a failed gate is announced, and
  no report excuses its own failures.
* **Triage.** Several jobs may hold the same report. Correct means: one at a time works on it, a complete
  triage has its output, any answer of the LLM can be stored, verdicts stand until a retry, slots are
  given back, triages end.
* **Sharding.** Maps are walked in any order and the sort is not stable. Correct means: every test in
  exactly one shard, tests that depend on each other together, the load within the greedy bound, and no test
  lost, run twice or given twice while one worker after another fails.
* **Webhooks.** Correct means: no slot leaks, no endpoint is called again once it has answered, at most
  `maxRetries` requests per call, the log tells no lies, notifications end.
* **Hub.** Correct means: no send on a closed channel and no double close (both end the process), no
  reordering and no growth when clients are slow, broadcasts end, no goroutine outlives its client.
* **Accounts and teams.** A handler checks in one statement and writes in a later one. Correct means: one
  owner of the instance and never two, no sign-up lost to that race, tokens that tell the truth about
  their holder, roles that somebody granted, and nothing left of a team that is deleted meanwhile.

The hazards, each at its line, with the properties that cover it, are in `PROJECT.json`.

## 2. Modules

| Module | Role |
|---|---|
| `Executions` | handlers, cluster, workers and reconciler in one module: they share the row |
| `QualityGates` | rules, the table of gates and its handlers, evaluations |
| `Reports` | ingest, evaluations and deletion; extends `QualityGates`, composed with `Triage` |
| `Life` | the abstract specification that `Executions` implements: what users may see of an execution and its worker |
| `Triage` | the pool of jobs, the triage rows and the handlers around them; the abstract view that `Reports` implements |
| `Engine` | what the triage engine makes of the LLM's answer and which rows it becomes; pure functions |
| `TriageEngine` | the jobs together with what they persist |
| `Sharding` | union-find, strategies and rebalancing over the life of a plan |
| `Webhooks` | Notify, its pool, Send, the log and the retry handler |
| `Hub` | clients, writers, broadcasts and Shutdown around the lock |
| `Feed` | the abstract specification that `Hub` implements: a bounded, ordered feed that may drop |
| `Accounts` | users, provider links, sessions and the requests around them |
| `Teams` | teams, members, tokens and invitations; extends `Accounts` |
| `MC_*` | sets for the instances TLC checks |
| `*_proofs` | theorems and proofs, each for the module of that name (`Triage_proofs` for `TriageEngine`) |
| `Sums` | lemmas on least elements, finite sets and sums over them, for the proofs |

All of them have the same shape: an action is one call with an effect outside the goroutine (a statement,
a transaction, a request to Kubernetes or an endpoint, taking a lock) or one iteration of a loop, so the
handlers interleave exactly where the program's do. A goroutine's position is a string ("secret", "job",
"record"), named for the call it is about to make. Operators with a suffix (`Upsert_Unlocked`) are
variants with a plausible mistake; no specification uses them, they show that a property
notices.

### Executions

`status`, `named`, `started`, `report` are columns of the row (`named` is both `k8s_job_name` and
`worker_token_secret`: one UPDATE sets both); `owed` are the verdicts that UpdateStatus has stored and still has to
announce, `notified` the set of events given to `Webhooks.Notify`;
`create` and `cancel` are the handlers; `job`, `secret`, `worker`, `sigterm` the cluster; `net` the
reports on their way; `pass`, `todo`, `snap` the reconciler's pass. `CreateRow`, `CreateSecret`,
`CreateJob`, `CleanUpSecret`, `MarkLaunchFailed` and `RecordJob` are the calls of Create in order,
`AbortCreate` its end between two of them; `CancelRow`, `DeleteJob`, `CancelJob`, `CancelSecret` and `AbortCancel`
are Cancel; the `Worker...` actions are `cmd/worker/main.go`; `UpdateStatus` is the delivery of a report up to
the answer of its UPDATE, `NotifyVerdict` the event that follows, `AbortUpdate` the end of the handler in between (after an
UPDATE that answers with an error, applied or not, nothing follows either), `LoseReport` the loss of a report; `ListRunning`, `FailNameless`, `SkipRow`, `LookUpJob`, `MarkFailed`, `DeleteSecret`,
`AbortPass` are `ReconcileOnce`. Time is one bit: `Age` makes `started_at` older than `OrphanTimeout`.
`Age` may not overtake a Create handler that is between its calls, as a handler is over in seconds and
the timeout is minutes. Faults are a constant `Faults`, a set of kinds, here and in `Triage` and `Webhooks`.

`Life` keeps the status, the verdicts heard and announced, and a worker that starts and ends once; it knows nothing of Jobs,
Secrets, reports in flight or the reconciler's pass. Of its steps, `Hear` takes any status the worker may have
reported by now, as late as the network likes; `Announce` tells the webhooks of a verdict that was heard, and `Forget` gives that
up; `GiveUp` is whatever makes the server fail a running row. A stored verdict may so be announced later, or never:
the code promises no more.
`LifeView` instantiates it over the variables of `Executions`, with `Phase` in place of the worker, and
`ImplementsLife` says that the five actors together do nothing else.

### Reports and QualityGates

`at` is where Create is: `Begin` validates the payload and opens the transaction (nobody sees its inserts
before the commit, so they are part of it), `Link` and `Upsert` take the row locks of Postgres and wait
for them, `Commit` makes everything visible at once, `Abort` is any statement that fails, `BreakDeadlock`
the victim that Postgres chooses in a cycle of waiting transactions. `staged` is what the open transaction has
rolled forward, `history` the table, both by test and suite. A payload may give a name in several suites, or a test twice
in one, and negative durations, as `ctrf.Validate` and the schema do; a number that overflows its column is a failing statement, `Abort`.
`Enqueue`, `ListGates`, the evaluation and `Announce` follow.
An evaluation is a `session`, of Create (all enabled gates) or of a request (one gate): `ReadBaseline`
finds the latest other report, `ReadNames` its failures, `EvaluateGate` measures one gate and
inserts the row, which the foreign keys may refuse, and `EndEvaluation` answers; an error ends any of them.
Create measures all results, a request one of each name, the one that happens to be read last (`Looks`).
Percentages are compared as fractions. `DeleteReport` and `DeleteGate` cascade.
A `setup` says whether an LLM provider is configured, which gates there are and what arrives: four of them
keep the combinations that matter within one run.

`Reports` instantiates `Triage` over its own variables. `ImplementsTriage` says that every step of ingest,
evaluation, deletion and retry is a step of `Triage` or leaves its tables alone; so `Triage`, which
knows of reports only that they come and go, is the abstract specification of what ingest owes to the triage.

### Triage and Engine

`triage` is `triage_results.status`, `mirror` its copy in `test_reports`, `output` the stored clusters,
`slot` the jobs that hold the semaphore, `reader` a request of `GetTriage` and what its statements have found so far
(`ReadStatus`, `ReadClusters`, `ReadClassifications`). `Claim` is `CreateOrReset`, `Persist` is `PersistOutput`, `Settle`
the UPDATE of Complete and Fail, `RetryTriage` `ForceReset` with the handler around it. The LLM, the
analytics queries and GitHub only decide whether a job goes on to `Persist` or to `Fail`. A call that
returns an error may have been applied. `Engine` is `buildOutput` and the rows of `PersistOutput`, for answers
that name tests twice, name others, use unknown words or are missing; `AnyAnswerIsStored` (in `TriageEngine`) says
of each of them that the database accepts it when a job comes to persist.

### Sharding

One action is one iteration of a loop of package `shard`: `Union` takes any dependency that is left (Go walks
a map), with path compression; `MakeGroups`, `Assign` gives any largest group to the least loaded worker
(the sort is not stable); then tests complete (`Complete`), and `Rebalance` and `Redistribute` deal with a worker that
fails. The walk to the root is a recursive function, not an operator. Histories give each test its averages by suite.

### Webhooks

A call of Send is identified by event, webhook and caller (the pool or the retry handler). `send` holds
its position, its attempt and its last answer; `received` counts the requests that reached the endpoint,
`accepted` the events it has answered with 2xx. A lost answer is a request received whose answer is an error.

### Hub and Feed

`handler` and `writer` are the two goroutines of a client, `conn` its connection, `members` the keys of
`Hub.clients`, `closes` how often its channel was closed, `queue` the channel, `writing` the message in
`wsjson.Write`; `cast` and `todo` are the broadcasts and what is left of their loops. The lock has no
variable: it is held by who is in a loop. A writer of the lock that waits keeps new readers out, as
`sync.RWMutex` does; without that, broadcasts could starve the departure of a client.
Messages carry a number, so that order can be spoken of. `Feed` hides all of it but the messages: its
`pending[c]` is `writing[c] \o queue[c]`, and `due[b]` the clients that the latest message of `b` has still to be offered to, so that
none is offered one twice.

### Accounts and Teams

`users`, `links`, `session`, `members`, `teams`, `inv`, `tokens` are tables; `claims` is what the tokens of a session say;
`req` holds the requests in flight, with what they have read. A transaction is one action, and so
is a request of one statement (`AtOnce`). `Register` checks the address, `CreateUser` inserts with a role chosen by a subquery
(`CreateUserSnapshot`: it may see the table as it was) and the unique index on the owner refuses a second one, whereupon
`CreateUserWithRole` inserts a maintainer; the OAuth callback, Refresh, invitations and tokens are sequences of
the same kind. `FailedStatement` ends a request between two statements, `Crash` all of them; `MaxFaults` bounds both.
Simplifications: a user is named by the address; the primary team may be any of the
user's teams; whether something is past its expiry is up to the clock; access tokens may be presented at
any time after they were issued; a request whose first statement refuses it has no action; lookups of a user that
change nothing are merged with the next step.

## 3. Runs

| Run | Bounds | Shows |
|---|---|---|
| `exec_faults` | one execution, all faults | types, `VerdictsAreEarned` (`CompletedMeansSuccess` and `OneVerdictAnnounced`), the inductive invariant `Coherent`, `ImplementsLife`, `OnlyReportsOverwriteVerdicts` |
| `exec_live` | two executions, no faults, no cancellation | a pass over a stale snapshot of two rows: `ReconcilerSparesLiveWorkers`, `FinishedJobIsReconciled` |
| `exec_cancel` | one execution, no faults | `CancellationCleansUp` |
| `exec_launch` (violated) | one execution, failing Kubernetes calls | the row of a failed launch stays "pending" |
| `triage_safety` | two reports, two slots, all faults; every answer of up to two clusters of up to two entries each | `PoolAgreesWithRows` (claims are exclusive, complete has output, no answer has classifications without clusters), `VerdictStandsUntilRetry`, `SlotsAreReturned` whatever fails, `AnyAnswerIsStored` |
| `triage_retry` (violated) | one report, two slots, no faults | a retried triage is never run |
| `webhook_faults` | two webhooks, one slot, two attempts, all faults | types, `LogIsTruthful`, `PoolIsCoherent`, `AnswersAreFinal`, `NotificationsSettle` |
| `hub_all` | one client, two sources, two messages each, a buffer of two | `NoPanic`, `ImplementsFeed`, `BroadcastsEnd`, `LostClientsAreForgotten` |
| `accounts` | two requests, two addresses, one provider account, two cookies, one team, invitation and token, one fault | `OneOwner`, `ClaimsAreTrue`, `TeamsAreWhole`, `SignUpRefusedOnlyIfTaken`, `RolesAreGranted` |
| `sharding` | five tests, up to three workers, three histories, four dependency relations, three strategies | types, `EveryTestOnce`, `DependentTogether`, `GreedyBound` |
| `ingest` | two submissions, two tests in two suites, two gates, one request, one edit, one slot of triage | `HistoryIsTrue`, `TracesAreFounded`, `FailureIsAnnounced`, `FailuresAreExcusedByOthers`, `ImplementsTriage`, `IngestEnds`, `ClaimedTriageEnds` |
| `gate_previous` (violated) | two submissions, one gate, one request | "the previous run" may be a later one |

Why these bounds are enough. Executions touch each other only through the reconciler's snapshot and its
LIMIT: one execution with all faults reaches every state of a row, and two let the snapshot of one grow
stale while the pass deals with the other. Two slots and one report are what an exclusive claim needs, the
second report lets jobs of both compete. One slot and two webhooks make the pool full with every
delivery. Two broadcasts may hold the read lock together while a client waits to leave; a buffer of two
with four messages fills and empties. Two submissions with the same two tests in opposite orders are the
smallest deadlock. Two requests race for the owner, the address, the provider account and the team;
a race of three adds no new pair of statements. Five tests over two workers hold Graham's worst case
(3, 3, 2, 2, 2), and a chain of dependencies that arrives in three pieces needs four. Where an instance is small
the theorems make up for it: they hold for any number of executions, reports, slots, gates, webhooks, events, clients,
sources, people, teams, tests and workers and any buffer.

Deadlock is checked in `hub_all`; elsewhere executions, reports, requests and notifications are finite in number and
the system does stop. Symmetry is used in `accounts` only (addresses, passwords, cookies and requests are
interchangeable there), whose properties are invariants and action properties; most other runs check liveness, where it
would be unsound.

Named bounds: `ListLimit` (LIMIT of the reconciler's query), `WorkerLimit` and `PoolSize` (the semaphores),
`MaxRetries`, `Buffer`, `MaxWorkers`, `MaxFaults`, the `edits` of a setup, and `MaxCount`, at which message numbers stop
growing. A user retries one logged delivery at a time, and each event is notified once.

### Fairness

A goroutine that can go on does: each handler's, job's and call's next step is weakly fair, and so is the
reconciler (a ticker in `cmd/server` starts a pass; a pass goes on row by row). Age is weakly fair: time
passes. A lock that is free again is handed on, and Postgres looks for deadlocks after `deadlock_timeout`, so
`BreakDeadlock` is fair; without it `IngestEnds` fails, as the mutant of that property shows.
Nothing is assumed of what the program does not control: users, maintainers, the worker, which may hang in its
command for ever, Kubernetes, which need not start or evict a pod, the delivery of reports, endpoints
(their requests end only because the client has a timeout), or a peer that stops reading (a Write to an open connection
may never return; one to a closed connection does). Properties under faults are stated so that a fault may
end an attempt but not the fairness of the rest. Liveness of executions is checked without faults: with
a call that may fail each time nothing could be promised.

### What disagrees with the documents

Three violated runs, each quoted in `PROJECT.json` "findings":

* `exec_launch`: `markExecutionFailed` looks for a 'running' row when the row is 'pending' (`handler/executions.go:391`).
* `triage_retry`: a retried triage is skipped by its own job, as `CreateOrReset` refuses a pending row (`store/triage.go:46`).
* `gate_previous`: `GetPreviousFailedTests` takes the newest other report of the team; evaluated on request for an
  older one, `no_new_failures` compares it with a run that came later (`store/reports.go:265`, `README.md:370`).

Seen while modelling, with no run of their own, because no document of the repository says otherwise, because
the model would only restate the line, or because another run shows more:

* Executions. A row whose Job object is gone is skipped by the reconciler for ever (`k8s/k8s.go:476`, `CHANGELOG.md:51`).
  A cancellation between CreateJob and RecordJob finds no names, so the Job and the Secret stay
  (`handler/executions.go:165`). A row whose RecordJob failed is failed after `OrphanTimeout` as nameless although
  its Job runs (`k8s/k8s.go:456`). A worker's report overwrites any status, "cancelled" included
  (`store/executions.go:122`); `OnlyReportsOverwriteVerdicts` says it is the only thing that does. The Secret of an
  execution that completes by itself is never deleted, and the clean-up after a failed launch is best effort. `ListRunning` takes 1000 rows
  in an order that does not rotate. The reconciler and a failed launch fire no `execution.failed` event, and neither does a
  verdict whose UPDATE answers with an error or after which the server stops (`handler/executions.go:323`). Create
  validates the command and then HTML-escapes it (`handler/executions.go:96`).
* Triage. `test_reports.triage_status` is not reset with the row, so the copy differs after a retry (`store/triage.go:225`,
  migration `000020`). `GetTriage` reads status, clusters and classifications in separate statements (`handler/reports.go:519`): a retry in between
  leaves an answer "complete" without clusters, or with clusters without failures. A triage without failures announces
  "complete" even if its write failed.
* Webhooks. A delivery whose attempts all fail is recorded nowhere (`webhook/webhook.go:147`, `README.md:326`).
  `README.md` documents `cursor`/`next_cursor` for deliveries where the code reads `before_id`.
* Hub. `Shutdown` is called by no code of the server, and a client that registers after it is not closed.
* Accounts. Two simultaneous registrations of one address end in a 500 for the loser, not a 409. Two refreshes of one token
  both succeed. Refresh issues tokens without a team although Login's comment says browser sessions have team
  context (`handler/auth.go:281`). If the first to arrive signs in through a provider nobody is the owner
  (`docs/deployment/getting-started.md:175` speaks of the first registered user). A user of a provider only has the empty
  password, not NULL as migration `000002` says, and can neither accept an invitation nor set a password.
* Teams. An expired invitation nobody accepted still blocks a new one for the address. An Accept that overlaps Revoke still joins.
  Accepting an invitation replaces a higher role in the team, that of an owner included.
* Sharding. `Rebalance` deals the tests of a failed worker out one by one, although tests with dependencies belong on one worker
  (the comment of `Request.Dependencies`); with no active worker left they are dropped from the plan. A dependency between
  suites puts tests of two suites into one group.
* Gates. `max_flaky_count` sees no flaky test when evaluated on request (`README.md:372`). `zero_failures` believes the client's
  summary and `no_new_failures` the results. Create skips a gate whose rules do not decode and still answers "passed"; on request the same gate is
  a 500. An error of the INSERT of an evaluation is only logged.
* Reports. `test_executions.report_id` is no foreign key and outlives its report. Deleting a report leaves its runs in
  the history. The average is truncated at each run; `HistoryIsPlausible` bounds the drift. `GetReportAndResults` keeps one result of
  each name, the last it happens to read (`store/reports.go:253`, no ORDER BY), while `GetPreviousFailedTests` takes any failed one
  (275): with a name in several suites, the diff of two reports and an evaluation on request may leave out a failure that Create counts.

## 4. Proofs

Every invariant and every action property that a passing run checks, and all three refinements, are theorems; what is left to TLC is
listed at the end. All theorems assume only the named `ASSUME` of their modules: which sets the constants belong to, that ids of different
kinds differ, that sets are finite where they are counted, that there is at least one attempt, one slot, one worker and one place in
a buffer; of payloads, the types of their fields; of the histories that shard plans start from, that their numbers are natural; of the triage engine, that a list of
failures names a test once (they are rows of one report), while an answer is anything that decodes. No proof relies on a bound of a run.

* **`Executions_proofs`.** `TypeCorrect` stands alone. `Coherent` is inductive with it, in parts with a lemma each:
  what exists in the cluster follows the position of Create (`CreationOrder`), a worker lives only in an
  unfinished Job and is silent before it starts (`WorkerInJob`), a verdict in the row, announced or in
  flight tells how the worker ended (`VerdictMatchesExit`), the Secret stays (`SecretKept`), and what the
  reconciler saw of a Job is still so when it acts on it (`VerdictNotStale`), because a finished Job never becomes
  active again. The safety invariants follow (`VerdictsTellTheTruth` among them). `OnlyReportsOverwriteVerdicts` is proved action by action.
  `ReconcilerIsPatient` needs one more invariant, that the grace period covers creation. `CleanUpIsFinal`
  is the safety half of cancellation: once the row has the Job's name, whoever acts makes neither a Secret nor an active
  Job again, so what a cancellation has removed stays removed.
  `ExecutionsLiveALife` is the refinement of `Life`, with a lemma for the worker, one for reports and one for the server's own
  verdicts. A step of UpdateStatus becomes `Hear` with the verdict owed or, after an error, without. `Hear` is where the invariant is needed: a report that arrives may be of long ago, so `VerdictMatchesExit` must speak of
  what is in flight, "cancelled" included, and not only of what the row says.
* **`Reports_proofs`.** `IngestImplementsTriage` is the refinement, step by step. `Invariance` is about reference: what the
  triage, the sessions, the execution and the events speak of was committed (`NoTriage`, `AfterCommit`, `RefersToKnown`),
  Create's own session is of its report for as long as it evaluates (`OwnSession`), an evaluation has its owners because the
  foreign keys are checked when it is written and cascades run when they go, and a failure stands in the answer until events
  are chosen by it (`FailureStands`). `FoundedTraces` and `FailuresAreAnnounced` follow. `FailuresAreExcused` adds that what a session compares with
  is nothing, or the failures of one other report that was there, that bodies stay as they came, and that whatever results a request looks at, it
  sees each test that failed in all of them. `HistoryTellsTheTruth` has one invariant under it, in two
  parts. `HistoryIsLocked` says that two transactions never hold the same row, so nobody else can commit a row that one of them has
  rolled on. `HistoryIsRolled` then says what every row stands for (`Tells`): a row of the table for the committed results of its key,
  a row that a transaction holds for its own upserted ones on top (`Staged`), with their number, the least, the greatest and
  a mean that truncation, towards zero, keeps within half the number of runs of the true one (`QuotientBounds`, `AverageRolls`: each
  division loses less than one either way, and `n` of these losses weigh at most `n(n-1)/2`). `NoRunIsLost` is its first half.
  The bound needs no order of the runs, so it holds whatever interleaving the locks allow. `TypeCorrect` uses the shapes of
  `Invariance` for the slots of the triage and the sessions.
* **`Triage_proofs`.** `PoolAgreesWithRows` is inductive with types. Exclusiveness alone is not: a
  job's last statement is safe only because of what it did before (`JobIsSound`), and a second job could claim a report
  only if its row were missing or failed (`RowsHaveReports` and the claim's own guard). `VerdictsStand` needs
  `QueueIsSound`: at most one request per report waits for its claim, and until then there is no verdict and no work.
  `JobsRunDown` gives each job in a slot the number of calls it has before it at most (`Left`) and shows that no step of anybody
  raises it, and that each step of the job lowers it, to nothing when the slot is free. With weak fairness that is `SlotsAreReturned`.
  `EngineAcceptsAnyAnswer` is about data alone. The flattened answer is the clusters' entries side by side (`Joins`, `EntriesJoined`);
  the fold that keeps the first entry of each name is the function that looks up the least position of it (`Collected`,
  `FoldCollects`); and from there on every failure has exactly one row, with a word the CHECK constraint takes and the cluster
  that names it first. `AnyAnswerStored` puts this in the job's path.
* **`Sharding_proofs`.** The inductive invariant is `Shape`, `EveryTestOnce`, `Forest`, types, `Planned` and `GreedySoFar`.
  `NoTestLostOrRepeated`: shards and the groups still to be dealt partition the tests at every iteration,
  whatever union-find has made of the dependencies, since groups are the classes of an equivalence.
  `DependentsStayTogether` has to know what union-find computes: every set of tests that the parents do not lead out of holds a root (`Forest`; what lies on the way from a test is
  the least such set around it, so the recursive walk is reasoned about as an intersection of sets), and `Union` with its path
  compression keeps a set saturated if it respects the new dependency (`JoinedSaturates`), hence groups are the components of the dependencies used so far.
  `GreedyWithinBound` is Graham's argument for the longest-first rule, for any number of workers and any durations: `GreedySoFar` says
  that no worker has more than the share `4/3 - 1/(3m)` of what any placement needs (`WithinShare`), and `GrahamStep` that the next group, the largest
  left, keeps it so: if it is at most a third of that placement's span, the average bounds the least loaded worker (`GreedyAverage`); if it is
  more, so is every group dealt before it, no worker of the placement has three of them, and counting shows that the group still
  fits (`GreedyFits`).
* **`Teams_proofs`.** The tables alone are not inductive: a request acts on what it has read. `Invariance` therefore says of
  every request in flight that what it has read before its next statement is still so, or that a foreign key or a unique index will refuse the
  statement (`UpToDate`), along with the agreement of the tables (`Tables`). The other theorems follow, and
  `RolesComeFromInvitations` and `RaceForOwnerRefusesNobody` are proved action by action from it.
* **`Webhooks_proofs`.** The invariant joins types, `SlotsAreCounted` (with the library's facts on cardinality, which
  is why the sets are finite), `RequestsAreCounted`, `CallsAreCoherent` and `LogIsTruthful`. The log needs
  coherence: a row can be truthful only if its call's answer was. `CallsRunDown` bounds what a call of Send has before it by twice
  `MaxRetries` and shows that nothing raises it: a request or a wait lowers it, and no other call touches it. With weak
  fairness that is `NotificationsSettle`.
* **`Hub_proofs`.** `LoopsAreLocked` (whoever a broadcast has still to visit is a member, since members leave only
  under the write lock) and `ClientIsSound` (a channel is closed exactly as its client leaves) give `NoSendOnClosed`
  and `ClosedOnce`. `InOrderOfBroadcast` rests on lemmas about sequences (order survives the loss of the first
  message and the arrival of one no older than the rest) and on numbers in flight being at most the latest.
  `HubIsAFeed` shows that each step of the hub is a step of `Feed` or a stutter.
* **`Sums`.** The library's induction theorems take an operator as a parameter, which the installed provers cannot instantiate.
  This module does without: a set of numbers has a least member (`LeastNumber`) and a non-empty family of finite sets a minimal one
  (`MinimalSubset`, from the library's first-order facts), and a statement about all finite sets or all numbers is proved by
  looking at the smallest that fails it. Sums over sets (a fold in the community modules) are taken apart in this way once: `SumAdd`, `SumUnion`,
  `SumSubset`, and the two forms of the pigeonhole principle for sums (`PartsAtMost`, `PartsAtLeast`).

Model-checked only, because tlapm 1.4.5 has no rule for ENABLED and so none for fairness: `FinishedJobIsReconciled`, `CancellationCleansUp`,
`SlotsAreReturned`, `NotificationsSettle`, `BroadcastsEnd`, `LostClientsAreForgotten`, `IngestEnds` and
`ClaimedTriageEnds`. For the pool of jobs and the calls of Send the decreasing measure is proved (`JobsRunDown`, `CallsRunDown`), and of the
cancellation what it leaves behind (`CleanUpIsFinal`), so that only fairness itself is taken from TLC; for the others nothing is. The violated
properties have no theorem, of course. No module uses a RECURSIVE operator: the one recursive function is the walk to the root.

## 5. Not modelled

Progress callbacks store nothing and go to the hub; lists and reads change nothing. Validation and sanitising of requests,
CSRF cookies, signatures and rate limits decide whether a handler starts; the claims that tokens carry into handlers are in
`Accounts` and `Teams`, the check of a role that a request presents only where a handler makes it. A webhook's URL, secret and event list, an execution's command, messages, traces and names are data no property tells
apart. Backdating of reports, the GitHub status post, the display name of a user and provider tokens are left out. Executions and users are never deleted by the program.
The audit log is written and not read, analytics are SQL aggregates, the LLM, GitHub and Telegram clients are calls that may
fail; of the mailer there are the attempts. Configuration, migrations, frontend and deployment have no behaviour to check here;
the schema's keys, indexes and cascades are in the modules that meet them.

Within what is modelled: reading a gate and a report for an evaluation on request is one action (`Ask`); thresholds are natural numbers;
names are distinct within a shard request; tests that are rebalanced weigh the default duration, as in the code.

## 6. Plan

What is left, in order of what it would add:

1. `Executions` with `Hub`: two status updates whose commits and broadcasts cross, so that clients keep the older status.
2. `Executions` with `Reports`: the worker's upload and its verdict as one story, down to `report_id`.
3. Decreasing measures, as in `JobsRunDown`, for broadcasts, submissions and the reconciler's pass.
