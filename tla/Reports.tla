------------------------------ MODULE Reports ------------------------------
(***************************************************************************)
(* Ingest of CTRF reports: one transaction stores a report, links it to    *)
(* its execution and folds its results into the duration history; after it *)
(* the handler enqueues the triage, evaluates the quality gates and sends  *)
(* the webhook events.  Composed with QualityGates (the gates and their    *)
(* evaluations, which a request can also ask for) and with Triage.         *)
(*                                                                         *)
(* A payload is [tests, passed, failed, results, execution]: the counts of *)
(* the summary, which the client gives, the results in order, each a       *)
(* record [name, suite, status, duration, flaky], and whether it names the *)
(* team's execution.  Nothing keeps a client from giving a name in several *)
(* suites or twice in one, or a negative duration.                         *)
(***************************************************************************)
EXTENDS QualityGates, Integers, Sequences, SequencesExt

CONSTANTS
  Reports,       \* report ids, drawn by uuid.New
  Tests, Suites, \* names of tests and of suites
  Requests,      \* on-demand evaluations; none of them is a report
  Setups,        \* how the server may be configured and what arrives
  WorkerLimit    \* of Triage

(***************************************************************************)
(* A setup is [triage, gates, edits, requests, payloads]: whether an LLM   *)
(* provider is configured, the gates there are at first, how many requests *)
(* edit them, which evaluate one, and the payloads that clients send.      *)
(***************************************************************************)
VARIABLES
  setup,
  present, failing, triage, mirror, output, handler, slot, reader,  \* Triage
  at,        \* where Create is, per report
  body,      \* the payload, <<>> before the request
  stamp,     \* created_at, taken when the handler starts
  clock,
  upserted,  \* how many results the open transaction has upserted
  staged,    \* the history rows it has written and locked
  history,   \* test_duration_history, per test and suite
  linked,    \* test_executions.report_id
  session,   \* an evaluation of gates under way, by Create or by a request
  answer,    \* what the response says of the gates
  events     \* the webhook events sent for the report

triageVars == <<present, failing, triage, mirror, output, handler, slot, reader>>
ingestVars == <<at, body, stamp, clock, upserted, staged, history, linked, answer, events>>
evaluationVars == <<session, gates, evaluations>>
vars == <<setup, triageVars, ingestVars, evaluationVars>>

T == INSTANCE Triage WITH Faults <- {}

None == "none"

Sessions == Reports \cup Requests

Results ==
  [name : Tests, suite : Suites, status : STRING, duration : Int, flaky : BOOLEAN]

Names(payload) == {payload.results[k].name : k \in DOMAIN payload.results}

\* The key of a history row, within the team.
Keys == Tests \X Suites

Key(res) == <<res.name, res.suite>>

\* The gates there are at first are rows of the table.
ASSUME ReportsAssumption ==
  /\ None \notin Reports
  /\ Reports \cap Requests = {}
  /\ \A s \in Setups :
       /\ DOMAIN s = {"triage", "gates", "edits", "requests", "payloads"}
       /\ \A g \in DOMAIN s.gates :
            s.gates[g] \in [state : {"live"}, rules : {s.gates[g].rules}, enabled : BOOLEAN]
       /\ \A payload \in s.payloads : payload.results \in Seq(Results)

Statuses == {"passed", "failed", "skipped", "pending", "other"}

\* Validate; the counts of the summary need not be those of the results.
Valid(payload) ==
  /\ payload.tests # 0 \/ payload.results # <<>>
  /\ \A k \in DOMAIN payload.results : payload.results[k].status \in Statuses

FailedNames(payload) ==
  {res.name : res \in {x \in ToSet(payload.results) : x.status = "failed"}}

Stored(r) == present[r] = "stored"
InTransaction(r) == at[r] \in {"link", "upsert"}

-----------------------------------------------------------------------------
(***************************************************************************)
(* The duration history: a rolling average in integer arithmetic.          *)
(***************************************************************************)
\* A quotient in SQL is truncated towards zero.
Quotient(a, b) == IF a >= 0 THEN a \div b ELSE -((-a) \div b)

NoHistory == [count |-> 0, avg |-> 0, min |-> 0, max |-> 0, last |-> "unknown"]

Rolled(row, res) ==
  LET d == res.duration IN
  [count |-> row.count + 1,
   avg   |-> Quotient(row.avg * row.count + d, row.count + 1),
   min   |-> IF row.count > 0 /\ row.min < d THEN row.min ELSE d,
   max   |-> IF row.count > 0 /\ row.max > d THEN row.max ELSE d,
   last  |-> res.status]

\* A row more in the transaction, or once more.
With(rows, k, row) == [l \in DOMAIN rows \cup {k} |-> IF l = k THEN row ELSE rows[l]]

\* What is upserted next, and who holds the lock on its row.
Upserting(r) == at[r] = "upsert" /\ upserted[r] < Len(body[r].results)

NextResult(r) == body[r].results[upserted[r] + 1]

LockedBy(s, k) == at[s] = "upsert" /\ k \in DOMAIN staged[s]

\* s waits for a row that r holds.
WaitsFor(s, r) == s # r /\ Upserting(s) /\ LockedBy(r, Key(NextResult(s)))

Deadlocked(r) ==
  \E C \in SUBSET Reports : r \in C /\ \A s \in C : \E q \in C : WaitsFor(s, q)

-----------------------------------------------------------------------------
Idle == [at |-> "idle", report |-> None, todo |-> {}, base |-> None, previous |-> {}]

Init ==
  /\ setup \in Setups
  /\ T!Init
  /\ GatesInit(setup.gates)
  /\ at = [r \in Reports |-> "idle"]
  /\ body = [r \in Reports |-> <<>>]
  /\ stamp = [r \in Reports |-> 0]
  /\ clock = 1
  /\ upserted = [r \in Reports |-> 0]
  /\ staged = [r \in Reports |-> <<>>]
  /\ history = [k \in Keys |-> NoHistory]
  /\ linked = None
  /\ session = [x \in Sessions |-> Idle]
  /\ answer = [r \in Reports |-> None]
  /\ events = [r \in Reports |-> {}]

(***************************************************************************)
(* POST /reports, the transaction.  Nobody sees the rows it inserts before *)
(* it commits, so the inserts are part of Begin, as created_at is.         *)
(***************************************************************************)
Begin(r) ==
  /\ at[r] = "idle"
  /\ \E payload \in {p \in setup.payloads : Valid(p)} :
       /\ body' = [body EXCEPT ![r] = payload]
       /\ at' = [at EXCEPT ![r] = IF payload.execution THEN "link" ELSE "upsert"]
  /\ stamp' = [stamp EXCEPT ![r] = clock]
  /\ clock' = clock + 1
  /\ UNCHANGED <<setup, triageVars, upserted, staged, history, linked, answer, events,
                 evaluationVars>>

\* UPDATE test_executions waits for a transaction that has updated the row.
Link(r) ==
  /\ at[r] = "link"
  /\ \A s \in Reports \ {r} : at[s] = "upsert" => ~body[s].execution
  /\ at' = [at EXCEPT ![r] = "upsert"]
  /\ UNCHANGED <<setup, triageVars, body, stamp, clock, upserted, staged, history,
                 linked, answer, events, evaluationVars>>

\* An upsert waits for the lock on its row, then reads what was committed, or
\* what its own transaction has made of it.
WriteRow(r) ==
  LET res == NextResult(r)
      k   == Key(res)
      row == IF k \in DOMAIN staged[r] THEN staged[r][k] ELSE history[k]
  IN
  /\ staged' = [staged EXCEPT ![r] = With(@, k, Rolled(row, res))]
  /\ upserted' = [upserted EXCEPT ![r] = @ + 1]

Upsert_Unlocked(r) ==
  /\ Upserting(r)
  /\ WriteRow(r)
  /\ UNCHANGED <<setup, triageVars, at, body, stamp, clock, history, linked, answer,
                 events, evaluationVars>>

Upsert(r) ==
  /\ Upserting(r)
  /\ \A s \in Reports : ~WaitsFor(r, s)
  /\ WriteRow(r)
  /\ UNCHANGED <<setup, triageVars, at, body, stamp, clock, history, linked, answer,
                 events, evaluationVars>>

\* The report is there from now on; with an LLM provider, Enqueue comes next.
Store(r) ==
  \/ /\ setup.triage
     /\ T!Ingest(r)
     /\ failing'[r] = (FailedNames(body[r]) # {})
     /\ at' = [at EXCEPT ![r] = "enqueue"]
  \/ /\ ~setup.triage
     /\ present' = [present EXCEPT ![r] = "stored"]
     /\ failing' = [failing EXCEPT ![r] = FailedNames(body[r]) # {}]
     /\ at' = [at EXCEPT ![r] = "gates"]
     /\ UNCHANGED <<triage, mirror, output, handler, slot, reader>>

Commit(r) ==
  /\ at[r] = "upsert" /\ ~Upserting(r)
  /\ Store(r)
  /\ history' = [k \in Keys |-> IF k \in DOMAIN staged[r] THEN staged[r][k] ELSE history[k]]
  /\ staged' = [staged EXCEPT ![r] = <<>>]
  /\ upserted' = [upserted EXCEPT ![r] = 0]
  /\ linked' = IF body[r].execution THEN r ELSE linked
  /\ UNCHANGED <<setup, body, stamp, clock, answer, events, evaluationVars>>

\* A statement fails, be it for an overflow in a history row: the transaction
\* is rolled back and the client told.
Abort_KeepsLocks(r) ==
  /\ InTransaction(r)
  /\ at' = [at EXCEPT ![r] = "refused"]
  /\ UNCHANGED <<setup, triageVars, body, stamp, clock, upserted, staged, history,
                 linked, answer, events, evaluationVars>>

Abort(r) ==
  /\ InTransaction(r)
  /\ at' = [at EXCEPT ![r] = "refused"]
  /\ staged' = [staged EXCEPT ![r] = <<>>]
  /\ upserted' = [upserted EXCEPT ![r] = 0]
  /\ UNCHANGED <<setup, triageVars, body, stamp, clock, history, linked, answer, events,
                 evaluationVars>>

\* Postgres ends a cycle of waiting transactions by failing one of them.
BreakDeadlock_Never(r) == FALSE /\ Abort(r)

BreakDeadlock(r) == Deadlocked(r) /\ Abort(r)

(***************************************************************************)
(* POST /reports, after the commit.                                        *)
(***************************************************************************)
Enqueue(r) ==
  /\ T!Enqueue(r)
  /\ at' = [at EXCEPT ![r] = IF @ = "enqueue" THEN "gates" ELSE @]
  /\ UNCHANGED <<setup, body, stamp, clock, upserted, staged, history,
                 linked, answer, events, evaluationVars>>

\* ListEnabled: no gates, or an error, and the response says nothing of gates.
ListGates(r) ==
  /\ at[r] = "gates"
  /\ \/ /\ EnabledGates # {}
        /\ at' = [at EXCEPT ![r] = "evaluate"]
        /\ session' = [session EXCEPT ![r] =
             [Idle EXCEPT !.at = "baseline", !.report = r,
                          !.todo = {[gate |-> g, rules |-> gates[g].rules] : g \in EnabledGates}]]
     \/ /\ at' = [at EXCEPT ![r] = "announce"]
        /\ UNCHANGED session
  /\ UNCHANGED <<setup, triageVars, body, stamp, clock, upserted, staged, history,
                 linked, answer, events, gateVars>>

\* Notify hands the events to goroutines of their own; then the response.
Announce(r) ==
  /\ at[r] = "announce"
  /\ at' = [at EXCEPT ![r] = "done"]
  /\ events' = [events EXCEPT ![r] =
       {"report.submitted"} \cup (IF answer[r] = "failed" THEN {"gate.failed"} ELSE {})]
  /\ UNCHANGED <<setup, triageVars, body, stamp, clock, upserted, staged, history, linked, answer,
                 evaluationVars>>

(***************************************************************************)
(* Evaluations, of all enabled gates by Create and of one gate by POST     *)
(* .../quality-gates/{id}/evaluate.  An error ends either.                 *)
(***************************************************************************)
Ask(x) ==
  /\ x \in setup.requests
  /\ session[x] = Idle
  /\ \E g \in Gates, r \in Reports :
       /\ Live(g) /\ Stored(r)
       /\ session' = [session EXCEPT ![x] =
            [Idle EXCEPT !.at = "baseline", !.report = r,
                         !.todo = {[gate |-> g, rules |-> gates[g].rules]}]]
  /\ UNCHANGED <<setup, triageVars, ingestVars, gateVars>>

\* How a session ends: Create goes on to the events.
Leave(x) ==
  /\ session' = [session EXCEPT ![x] = [Idle EXCEPT !.at = "over"]]
  /\ at' = IF x \in Reports THEN [at EXCEPT ![x] = "announce"] ELSE at

\* GetPreviousFailedTests: the latest other report of the team ...
Latest_Itself(r) ==
  {s \in Reports : Stored(s) /\ \A q \in Reports : Stored(q) => stamp[q] <= stamp[s]}

Latest(r) ==
  LET others == {s \in Reports \ {r} : Stored(s)}
  IN  {s \in others : \A q \in others : stamp[q] <= stamp[s]}

ReadBaseline(x) ==
  /\ session[x].at = "baseline"
  /\ \/ /\ Latest(session[x].report) = {}
        /\ session' = [session EXCEPT ![x].at = "rules"]
        /\ UNCHANGED at
     \/ /\ \E s \in Latest(session[x].report) :
             session' = [session EXCEPT ![x].at = "names", ![x].base = s]
        /\ UNCHANGED at
     \/ Leave(x)
  /\ UNCHANGED <<setup, triageVars, body, stamp, clock, upserted, staged, history,
                 linked, answer, events, gateVars>>

\* ... and, in a second statement, the names of its failed tests.
ReadNames(x) ==
  /\ session[x].at = "names"
  /\ \/ /\ session' = [session EXCEPT ![x].at = "rules", ![x].base = None,
             ![x].previous = IF Stored(session[x].base)
                             THEN FailedNames(body[session[x].base]) ELSE {}]
        /\ UNCHANGED at
     \/ Leave(x)
  /\ UNCHANGED <<setup, triageVars, body, stamp, clock, upserted, staged, history,
                 linked, answer, events, gateVars>>

\* The results that are looked at: all for Create; for a request one of each
\* name, the last that GetReportAndResults reads, in no particular order.
Looks(x) ==
  LET b == body[session[x].report] IN
  IF x \in Reports THEN {DOMAIN b.results}
  ELSE {K \in SUBSET DOMAIN b.results :
          \A t \in Names(b) : Cardinality({k \in K : b.results[k].name = t}) = 1}

\* What the rules are measured against; a request does not fill in FlakyTests.
Data(x, K) ==
  LET b == body[session[x].report] IN
  [tests    |-> b.tests,
   passed   |-> b.passed,
   failed   |-> b.failed,
   duration |-> MapThenSumSet(LAMBDA k : b.results[k].duration, K),
   flaky    |-> IF x \in Reports THEN Cardinality({k \in K : b.results[k].flaky}) ELSE 0,
   current  |-> {b.results[k].name : k \in {j \in K : b.results[j].status = "failed"}},
   previous |-> session[x].previous]

\* The answer fails with any of its gates.
Worse_LastGate(sofar, passed) == IF passed THEN "passed" ELSE "failed"

Worse(sofar, passed) ==
  IF passed /\ sofar # "failed" THEN "passed" ELSE "failed"

\* Create skips a gate whose rules do not decode, and only logs an error of
\* the insert; for a request each of the two is the end.
EvaluateGate(x) ==
  LET r == session[x].report IN
  /\ session[x].at = "rules"
  /\ \E todo \in session[x].todo, K \in Looks(x) :
       LET passed == Passes(todo.rules, Data(x, K)) IN
       \/ /\ Decodes(todo.rules)
          /\ \/ CreateEvaluation(todo.gate, r, Stored(r), todo.rules, passed, x)
             \/ UNCHANGED gateVars
          /\ answer' = IF x \in Reports THEN [answer EXCEPT ![x] = Worse(@, passed)] ELSE answer
          /\ session' = [session EXCEPT ![x].todo = @ \ {todo}]
       \/ /\ ~Decodes(todo.rules)
          /\ session' = [session EXCEPT ![x].todo = @ \ {todo}]
          /\ UNCHANGED <<answer, gateVars>>
  /\ UNCHANGED <<setup, triageVars, at, body, stamp, clock, upserted, staged, history,
                 linked, events>>

\* The answer of a session: with gates that were all skipped, Passed is true.
EndEvaluation(x) ==
  /\ session[x].at = "rules" /\ session[x].todo = {}
  /\ Leave(x)
  /\ answer' = IF x \in Reports /\ answer[x] = None
               THEN [answer EXCEPT ![x] = "passed"] ELSE answer
  /\ UNCHANGED <<setup, triageVars, body, stamp, clock, upserted, staged, history, linked, events,
                 gateVars>>

(***************************************************************************)
(* DELETE /reports/{id} takes results, evaluations and triage along, by    *)
(* ON DELETE CASCADE; test_executions.report_id is no foreign key.         *)
(***************************************************************************)
DeleteReport_KeepsTriage(r) ==
  /\ Stored(r)
  /\ present' = [present EXCEPT ![r] = "deleted"]
  /\ evaluations' = {e \in evaluations : e.report # r}
  /\ UNCHANGED <<setup, failing, triage, mirror, output, handler, slot, reader, ingestVars,
                 session, gates>>

DeleteReport(r) ==
  /\ T!Delete(r)
  /\ evaluations' = {e \in evaluations : e.report # r}
  /\ UNCHANGED <<setup, ingestVars, session, gates>>

EditGates ==
  /\ setup.edits > 0
  /\ setup' = [setup EXCEPT !.edits = @ - 1]
  /\ \E g \in Gates : CreateGate(g) \/ UpdateGate(g) \/ DeleteGate(g)
  /\ UNCHANGED <<triageVars, ingestVars, session>>

\* A job of the triage, or a request to retry it.
TriageStep ==
  /\ \/ \E r \in Reports : T!RetryTriage(r)
     \/ \E i \in T!Slots : T!JobStep(i)
  /\ UNCHANGED <<setup, ingestVars, evaluationVars>>

-----------------------------------------------------------------------------
IngestStep(r) ==
  \/ Link(r) \/ Upsert(r) \/ Commit(r) \/ BreakDeadlock(r) \/ Enqueue(r)
  \/ ListGates(r) \/ Announce(r)

EvaluationStep(x) ==
  ReadBaseline(x) \/ ReadNames(x) \/ EvaluateGate(x) \/ EndEvaluation(x)

Next ==
  \/ \E r \in Reports : Begin(r) \/ IngestStep(r) \/ Abort(r) \/ DeleteReport(r)
  \/ \E x \in Requests : Ask(x)
  \/ \E x \in Sessions : EvaluationStep(x)
  \/ EditGates
  \/ TriageStep

Spec == Init /\ [][Next]_vars

(***************************************************************************)
(* Fairness: handlers run, statements end, a lock that is free again is    *)
(* handed on, and Postgres looks for deadlocks; the jobs are fair as in    *)
(* Triage.  Clients and maintainers are free.                              *)
(***************************************************************************)
Fairness ==
  /\ \A r \in Reports : WF_vars(IngestStep(r))
  /\ \A x \in Sessions : WF_vars(EvaluationStep(x))
  /\ \A i \in T!Slots : WF_vars(T!JobStep(i) /\ UNCHANGED <<setup, ingestVars, evaluationVars>>)

FairSpec == Spec /\ Fairness

-----------------------------------------------------------------------------
(***************************************************************************)
(* Safety.                                                                 *)
(***************************************************************************)
TypeOK ==
  /\ T!TypeOK
  /\ at \in [Reports -> {"idle", "link", "upsert", "refused", "enqueue", "gates",
                         "evaluate", "announce", "done"}]
  /\ clock \in Nat \ {0}
  /\ stamp \in [Reports -> 0 .. clock - 1]
  /\ \A r \in Reports :
       /\ upserted[r] \in 0 .. IF at[r] = "upsert" THEN Len(body[r].results) ELSE 0
       /\ DOMAIN staged[r] = {Key(body[r].results[i]) : i \in 1 .. upserted[r]}
  /\ \A k \in Keys : history[k].count \in Nat /\ history[k].avg \in Int
  /\ linked \in Reports \cup {None}
  /\ \A x \in Sessions :
       /\ session[x].at \in {"idle", "baseline", "names", "rules", "over"}
       /\ x \in Reports => (session[x].at \in {"baseline", "names", "rules"} <=> at[x] = "evaluate")
  /\ answer \in [Reports -> {None, "passed", "failed"}]
  /\ events \in [Reports -> SUBSET {"report.submitted", "gate.failed"}]
  /\ \A g \in Gates : gates[g].state \in {"unused", "live", "deleted"}

(* The results under key k that were ever committed, by report and place;  *)
(* deleting a report does not take them out of the history.                *)
Positions(r, k) == {i \in DOMAIN body[r].results : Key(body[r].results[i]) = k}

Committed(k) == UNION {{r} \X Positions(r, k) : r \in {q \in Reports : present[q] # "none"}}

Took(k) == [c \in Committed(k) |-> body[c[1]].results[c[2]].duration]

(* No run is lost from the duration history and none is counted twice,     *)
(* however transactions that upsert the same rows overlap, wait for each   *)
(* other, fail half-way or are ended as victims of a deadlock.             *)
HistoryCountsResults == \A k \in Keys : history[k].count = Cardinality(Committed(k))

(* The history describes runs that took place: minimum and maximum are     *)
(* durations of committed results, and the average, which is truncated at  *)
(* each run, stays between them and differs from the true mean by no more  *)
(* than half a millisecond per run.                                        *)
HistoryIsPlausible ==
  \A k \in Keys :
    LET n     == history[k].count
        took  == Took(k)
        total == MapThenSumSet(LAMBDA c : took[c], DOMAIN took)
        drift == total - history[k].avg * n
        seen  == {took[c] : c \in DOMAIN took}
    IN n > 0 => /\ history[k].min \in seen /\ history[k].max \in seen
                /\ history[k].min <= history[k].avg /\ history[k].avg <= history[k].max
                /\ -(n * (n - 1)) <= 2 * drift /\ 2 * drift <= n * (n - 1)

(* What shard plans are made from is what the committed reports say.       *)
HistoryIsTrue == HistoryCountsResults /\ HistoryIsPlausible

(* A submission that is refused, or not yet committed, has left no trace:  *)
(* not on the execution it names, nor in triage, evaluations or events.    *)
UncommittedLeavesNoTrace ==
  \A r \in Reports :
    present[r] = "none" =>
      /\ linked # r
      /\ triage[r] = "none" /\ handler[r] = "idle" /\ \A i \in T!Slots : slot[i].report # r
      /\ \A e \in evaluations : e.report # r
      /\ events[r] = {}
      /\ \A x \in Sessions : session[x].report # r /\ session[x].base # r

(* An evaluation never outlives its gate or its report, although it is     *)
(* written by handlers that read both several statements earlier.          *)
EvaluationsHaveOwners ==
  \A e \in evaluations : Live(e.gate) /\ Stored(e.report)

(* Nothing refers to a report that was never committed, and an evaluation  *)
(* has its gate and its report, although none of the handlers holds a      *)
(* transaction while it reads and then writes.  (An execution may go on    *)
(* naming a report that was deleted since.)                                *)
TracesAreFounded == UncommittedLeavesNoTrace /\ EvaluationsHaveOwners

(* Whatever gate Create has recorded as failed, the subscribers of         *)
(* gate.failed hear of it, in whatever order the gates were evaluated.     *)
FailureIsAnnounced ==
  \A e \in evaluations :
    e.by = e.report /\ ~e.passed /\ at[e.report] = "done"
      => "gate.failed" \in events[e.report]

(* The tests of a report that failed in whichever of its results were      *)
(* looked at.                                                              *)
SurelyFailed(e) ==
  LET b == body[e.report] IN
  IF e.by = e.report THEN FailedNames(b)
  ELSE Names(b) \ {b.results[k].name : k \in {j \in DOMAIN b.results :
                                                b.results[j].status # "failed"}}

(* A failure is never excused by its own report: where no_new_failures has *)
(* passed, what failed had failed in one other report of the team too,     *)
(* although the report itself was stored before and gates, reports and     *)
(* other submissions come and go between the statements of an evaluation.  *)
FailuresAreExcusedByOthers ==
  \A e \in evaluations :
    /\ e.passed
    /\ \E rule \in e.rules : rule.type = "no_new_failures"
    /\ SurelyFailed(e) # {}
    => \E s \in Reports \ {e.report} :
         present[s] # "none" /\ SurelyFailed(e) \subseteq FailedNames(body[s])

(* The composition: as far as triage is concerned, ingest and deletion are *)
(* what the module Triage says they are.  A job exists only for a report   *)
(* whose transaction committed.                                            *)
ImplementsTriage == T!Init /\ [][setup.triage => T!Next]_triageVars

(***************************************************************************)
(* Liveness.                                                               *)
(***************************************************************************)

(* Every submission gets its answer: transactions that lock the rows of    *)
(* the same tests in different orders do not wait for each other for ever. *)
IngestEnds ==
  \A r \in Reports : at[r] # "idle" ~> at[r] \in {"refused", "done"}

(* A report whose triage a job has claimed gets its verdict when nothing   *)
(* fails (unless it is deleted first).                                     *)
ClaimedTriageEnds == T!ClaimedTriageEnds

-----------------------------------------------------------------------------
(***************************************************************************)
(* What the documents of the repository say, and the code does not do.     *)
(***************************************************************************)

(* README.md on no_new_failures: "No failures that weren't in the previous *)
(* run."  Asked for a report that is not the newest, the evaluation        *)
(* compares it with a run that came later.                                 *)
ComparedWithPreviousRun ==
  \A x \in Requests :
    session[x].base # None => stamp[session[x].base] < stamp[session[x].report]
=============================================================================
