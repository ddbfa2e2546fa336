------------------------------- MODULE Triage -------------------------------
(***************************************************************************)
(* LLM triage of ingested reports: a bounded pool of background jobs, one  *)
(* triage_results row per report that the jobs claim and settle, the copy  *)
(* of its status in test_reports, and the handlers that enqueue jobs, ask  *)
(* for a retry, read the result or delete the report.                      *)
(*                                                                         *)
(* One action is one statement or transaction on the database; the calls   *)
(* to the LLM, the analytics queries and GitHub only decide how the job    *)
(* goes on.                                                                *)
(***************************************************************************)
EXTENDS Naturals, FiniteSets

CONSTANTS
  Reports,      \* report ids
  WorkerLimit,  \* triageWorkerLimit, the capacity of the semaphore
  Faults        \* the kinds of fault that may occur (see FaultKinds)

(***************************************************************************)
(* "db":    a statement of a job returns an error: the database cannot be  *)
(*          reached, or the job's five minutes (jobTimeout) are over.  A   *)
(*          write may have been applied all the same.                      *)
(* "crash": the process ends; jobs and handlers live only in its memory.   *)
(***************************************************************************)
FaultKinds == {"db", "crash"}

ASSUME ConstantsAssumption ==
  /\ WorkerLimit \in Nat \ {0}
  /\ Faults \subseteq FaultKinds

Slots == 1 .. WorkerLimit

VARIABLES
  present,  \* the report: "none", "stored" or "deleted"
  failing,  \* the report has failed test results
  triage,   \* triage_results.status of the report, "none" without a row
  mirror,   \* test_reports.triage_status
  output,   \* clusters and classifications are stored for the report
  handler,  \* a request handler is about to call Enqueue for the report
  slot,     \* the jobs holding the slots of the semaphore
  reader    \* the latest GET .../triage of the report

vars == <<present, failing, triage, mirror, output, handler, slot, reader>>
reportVars == <<present, failing>>

Verdicts == {"complete", "failed"}

\* Where a job is: the statement of run() it executes next.
Unclaimed == {"claim"}
Working   == {"mirror", "fetch", "persist", "complete", "empty", "fail"}
Stages    == Unclaimed \cup Working \cup {"announce"}

\* verdict is what the job will announce, once it is at "announce"; ok is how
\* the engine ended.
Free == [report |-> "none", at |-> "free", ok |-> TRUE, verdict |-> "complete"]

\* What a reader has found of the output, and what it does next.
Idle == [at |-> "idle", clusters |-> FALSE, classifications |-> FALSE]

Readers == [at: {"idle", "clusters", "classifications", "answered"},
            clusters: BOOLEAN, classifications: BOOLEAN]

Jobs == [report: Reports, at: Stages, ok: BOOLEAN, verdict: Verdicts]

TypeOK ==
  /\ present \in [Reports -> {"none", "stored", "deleted"}]
  /\ failing \in [Reports -> BOOLEAN]
  /\ triage \in [Reports -> {"none", "pending"} \cup Verdicts]
  /\ mirror \in [Reports -> {"none", "pending"} \cup Verdicts]
  /\ output \in [Reports -> BOOLEAN]
  /\ handler \in [Reports -> {"idle", "enqueue"}]
  /\ slot \in [Slots -> Jobs \cup {Free}]
  /\ reader \in [Reports -> Readers]

Init ==
  /\ present = [r \in Reports |-> "none"]
  /\ failing = [r \in Reports |-> FALSE]
  /\ triage = [r \in Reports |-> "none"]
  /\ mirror = [r \in Reports |-> "none"]
  /\ output = [r \in Reports |-> FALSE]
  /\ handler = [r \in Reports |-> "idle"]
  /\ slot = [i \in Slots |-> Free]
  /\ reader = [r \in Reports |-> Idle]

(***************************************************************************)
(* The handlers.                                                           *)
(***************************************************************************)

\* POST /reports: CreateWithResults commits, then the handler enqueues a job.
Ingest(r) ==
  /\ present[r] = "none"
  /\ present' = [present EXCEPT ![r] = "stored"]
  /\ \E failed \in BOOLEAN : failing' = [failing EXCEPT ![r] = failed]
  /\ handler' = [handler EXCEPT ![r] = "enqueue"]
  /\ UNCHANGED <<triage, mirror, output, slot, reader>>

\* POST /reports/{id}/triage/retry.  Reading the row and ForceReset are one
\* action: its WHERE clause repeats the check of the status.  It deletes the
\* stored output and leaves test_reports.triage_status alone.
RetryTriage_DeletesRow(r) ==
  /\ triage[r] # "none"
  /\ handler[r] = "idle"
  /\ triage' = [triage EXCEPT ![r] = "none"]
  /\ output' = [output EXCEPT ![r] = FALSE]
  /\ handler' = [handler EXCEPT ![r] = "enqueue"]
  /\ UNCHANGED <<reportVars, mirror, slot, reader>>

RetryTriage(r) ==
  /\ triage[r] \in Verdicts
  /\ handler[r] = "idle"
  /\ triage' = [triage EXCEPT ![r] = "pending"]
  /\ output' = [output EXCEPT ![r] = FALSE]
  /\ handler' = [handler EXCEPT ![r] = "enqueue"]
  /\ UNCHANGED <<reportVars, mirror, slot, reader>>

\* Runner.Enqueue: a free slot of the semaphore, or the job is dropped.
Enqueue(r) ==
  /\ handler[r] = "enqueue"
  /\ handler' = [handler EXCEPT ![r] = "idle"]
  /\ IF \E i \in Slots : slot[i] = Free
     THEN \E i \in Slots :
            /\ slot[i] = Free
            /\ slot' = [slot EXCEPT ![i] = [Free EXCEPT !.report = r, !.at = "claim"]]
     ELSE UNCHANGED slot
  /\ UNCHANGED <<reportVars, triage, mirror, output, reader>>

\* DELETE /reports/{id}: the triage row and its output go by ON DELETE CASCADE.
Delete(r) ==
  /\ present[r] = "stored"
  /\ present' = [present EXCEPT ![r] = "deleted"]
  /\ triage' = [triage EXCEPT ![r] = "none"]
  /\ mirror' = [mirror EXCEPT ![r] = "none"]
  /\ output' = [output EXCEPT ![r] = FALSE]
  /\ UNCHANGED <<failing, handler, slot, reader>>

\* GET /reports/{id}/triage: the status is read in one statement, and if there
\* is a verdict the clusters in a second and the classifications in a third,
\* outside any transaction.  A request that ends early makes room for the next.
ReadStatus(r) ==
  /\ triage[r] \in Verdicts
  /\ reader' = [reader EXCEPT ![r] = [Idle EXCEPT !.at = "clusters"]]
  /\ UNCHANGED <<reportVars, triage, mirror, output, handler, slot>>

ReadClusters(r) ==
  /\ reader[r].at = "clusters"
  /\ reader' = [reader EXCEPT ![r].at = "classifications", ![r].clusters = output[r]]
  /\ UNCHANGED <<reportVars, triage, mirror, output, handler, slot>>

ReadClassifications(r) ==
  /\ reader[r].at = "classifications"
  /\ reader' = [reader EXCEPT ![r].at = "answered", ![r].classifications = output[r]]
  /\ UNCHANGED <<reportVars, triage, mirror, output, handler, slot>>

ReadStep(r) == ReadStatus(r) \/ ReadClusters(r) \/ ReadClassifications(r)

(***************************************************************************)
(* The job in slot i, Runner.run.                                          *)
(***************************************************************************)
Goto(i, stage) == slot' = [slot EXCEPT ![i].at = stage]

Release(i) == slot' = [slot EXCEPT ![i] = Free]

Failing == "db" \in Faults

\* CreateOrReset claims a report that has no row, or a failed one.
Claim_KeepsSlot(i) ==
  LET r == slot[i].report IN
  /\ slot[i].at = "claim"
  /\ present[r] = "stored" /\ triage[r] \in {"none", "failed"}
  /\ triage' = [triage EXCEPT ![r] = "pending"]
  /\ Goto(i, "mirror")
  /\ UNCHANGED <<reportVars, mirror, output, handler, reader>>

Claim(i) ==
  LET r == slot[i].report
      free == present[r] = "stored" /\ triage[r] \in {"none", "failed"}
  IN
  /\ slot[i].at = "claim"
  /\ \/ /\ free
        /\ triage' = [triage EXCEPT ![r] = "pending"]
        /\ Goto(i, "mirror")
     \/ /\ ~free \/ Failing
        /\ Release(i)
        /\ UNCHANGED triage
     \/ /\ free /\ Failing
        /\ triage' = [triage EXCEPT ![r] = "pending"]
        /\ Release(i)
  /\ UNCHANGED <<reportVars, mirror, output, handler, reader>>

\* setTriageStatus: errors are logged, a deleted report matches no row.
SetMirror(r, s) ==
  \/ mirror' = [mirror EXCEPT ![r] = IF present[r] = "stored" THEN s ELSE @]
  \/ Failing /\ UNCHANGED mirror

MarkPending(i) ==
  /\ slot[i].at = "mirror"
  /\ SetMirror(slot[i].report, "pending")
  /\ Goto(i, "fetch")
  /\ UNCHANGED <<reportVars, triage, output, handler, reader>>

\* fetchFailuresAndEnv: one statement finds the report and another its failed
\* results, of which there are none either if it is deleted in between.
NoFailures(r) == present[r] = "stored" => ~failing[r]

\* With failures comes the engine, which may end in an error (module Engine).
Fetch(i) ==
  LET r == slot[i].report IN
  /\ slot[i].at = "fetch"
  /\ \/ NoFailures(r) /\ Goto(i, "empty")
     \/ /\ present[r] = "stored" /\ failing[r]
        /\ \E ok \in BOOLEAN :
             slot' = [slot EXCEPT ![i].at = "persist", ![i].ok = ok]
     \/ (present[r] # "stored" \/ Failing) /\ Goto(i, "fail")
  /\ UNCHANGED <<reportVars, triage, mirror, output, handler, reader>>

\* PersistOutput: all or nothing, the fallback output after an engine error too.
Persist_ErrorIgnored(i) ==
  LET r == slot[i].report IN
  /\ slot[i].at = "persist"
  /\ \/ output' = [output EXCEPT ![r] = present[r] = "stored"]
     \/ Failing /\ UNCHANGED output
  /\ Goto(i, IF slot[i].ok THEN "complete" ELSE "fail")
  /\ UNCHANGED <<reportVars, triage, mirror, handler, reader>>

Persist(i) ==
  LET r == slot[i].report
      accepted == present[r] = "stored" /\ ~output[r]
  IN
  /\ slot[i].at = "persist"
  /\ \/ /\ accepted
        /\ output' = [output EXCEPT ![r] = TRUE]
        /\ Goto(i, IF slot[i].ok THEN "complete" ELSE "fail")
     \/ /\ ~accepted \/ Failing
        /\ Goto(i, "fail")
        /\ UNCHANGED output
     \/ /\ accepted /\ Failing
        /\ output' = [output EXCEPT ![r] = TRUE]
        /\ Goto(i, "fail")
  /\ UNCHANGED <<reportVars, triage, mirror, handler, reader>>

\* TriageStore.Complete and Fail change a pending row only.
Settle(r, verdict) ==
  triage' = [triage EXCEPT ![r] = IF @ = "pending" THEN verdict ELSE @]

Announce(i, verdict) ==
  slot' = [slot EXCEPT ![i].at = "announce", ![i].verdict = verdict]

\* An error of Complete, a row that is gone included, ends the job at once.
Complete_Unwritten(i) ==
  /\ slot[i].at = "complete"
  /\ UNCHANGED triage
  /\ Announce(i, "complete")
  /\ UNCHANGED <<reportVars, mirror, output, handler, reader>>

Complete(i) ==
  LET r == slot[i].report IN
  /\ slot[i].at = "complete"
  /\ \/ triage[r] = "pending" /\ Settle(r, "complete") /\ Announce(i, "complete")
     \/ /\ triage[r] # "pending" \/ Failing
        /\ UNCHANGED triage
        /\ Release(i)
     \/ Failing /\ Settle(r, "complete") /\ Release(i)
  /\ UNCHANGED <<reportVars, mirror, output, handler, reader>>

\* The same call when there are no failures: its error is only logged.
CompleteEmpty(i) ==
  /\ slot[i].at = "empty"
  /\ Settle(slot[i].report, "complete") \/ (Failing /\ UNCHANGED triage)
  /\ Announce(i, "complete")
  /\ UNCHANGED <<reportVars, mirror, output, handler, reader>>

\* failTriage, whose errors are only logged.
Fail(i) ==
  /\ slot[i].at = "fail"
  /\ Settle(slot[i].report, "failed") \/ (Failing /\ UNCHANGED triage)
  /\ Announce(i, "failed")
  /\ UNCHANGED <<reportVars, mirror, output, handler, reader>>

\* The last setTriageStatus of the job; the slot is released with its end.
MarkSettled(i) ==
  /\ slot[i].at = "announce"
  /\ SetMirror(slot[i].report, slot[i].verdict)
  /\ Release(i)
  /\ UNCHANGED <<reportVars, triage, output, handler, reader>>

Crash ==
  /\ "crash" \in Faults
  /\ handler' = [r \in Reports |-> "idle"]
  /\ slot' = [i \in Slots |-> Free]
  /\ reader' = [r \in Reports |-> Idle]
  /\ UNCHANGED <<reportVars, triage, mirror, output>>

-----------------------------------------------------------------------------
JobStep(i) ==
  \/ Claim(i) \/ MarkPending(i) \/ Fetch(i) \/ Persist(i)
  \/ Complete(i) \/ CompleteEmpty(i) \/ Fail(i) \/ MarkSettled(i)

Next ==
  \/ \E r \in Reports :
       \/ Ingest(r) \/ RetryTriage(r) \/ Enqueue(r) \/ Delete(r)
       \/ ReadStep(r)
  \/ \E i \in Slots : JobStep(i)
  \/ Crash

Spec == Init /\ [][Next]_vars

(***************************************************************************)
(* Fairness: goroutines run, every call returns (jobTimeout bounds them),  *)
(* and a handler that has committed goes on to Enqueue.  Users are free.   *)
(***************************************************************************)
Fairness ==
  /\ \A r \in Reports : WF_vars(Enqueue(r))
  /\ \A i \in Slots : WF_vars(JobStep(i))

FairSpec == Spec /\ Fairness

-----------------------------------------------------------------------------
(***************************************************************************)
(* Safety.                                                                 *)
(***************************************************************************)
WorksOn(i, r) == slot[i].report = r /\ slot[i].at \in Working

(* The claim of a job excludes all others: while it works, the row stays   *)
(* pending (unless the report is deleted), so no retry can reset it and no *)
(* second job can claim it, however retries and crashes interleave.        *)
ClaimIsExclusive ==
  \A r \in Reports, i \in Slots :
    WorksOn(i, r) =>
      /\ present[r] = "stored" => triage[r] = "pending"
      /\ \A j \in Slots \ {i} : ~WorksOn(j, r)

(* A triage that reads "complete" has its clusters and classifications: a  *)
(* job completes only what it stored, and a retry takes both away at once. *)
CompleteHasOutput ==
  \A r \in Reports : triage[r] = "complete" /\ failing[r] => output[r]

(* The inductive invariant behind these two, in named parts: rows and jobs *)
(* belong to reports that were ingested, and a job at its last statement   *)
(* has done what that statement will claim.                                *)
RowsHaveReports ==
  \A r \in Reports :
    /\ triage[r] # "none" => present[r] = "stored"
    /\ handler[r] = "enqueue" => present[r] # "none"

JobIsSound(i) ==
  LET r == slot[i].report IN
  slot[i] # Free =>
    /\ present[r] # "none"
    /\ slot[i].at = "complete" /\ present[r] = "stored" => output[r]
    /\ slot[i].at = "empty" => NoFailures(r)

(* The answer of GetTriage, put together from separate statements, never   *)
(* has classifications without their clusters (which the handler would     *)
(* leave out): once a verdict is there to be read, output only goes away.  *)
(* That rests on a retried triage never being run.                         *)
AnswersAreWhole ==
  \A r \in Reports :
    reader[r].at = "answered" /\ reader[r].classifications => reader[r].clusters

(* Nothing the pool holds in memory contradicts what the database stores,  *)
(* nor one half of a reader's answer the other, whatever retries,          *)
(* deletions, failed calls and crashes came between.                       *)
PoolAgreesWithRows ==
  /\ RowsHaveReports
  /\ \A i \in Slots : JobIsSound(i)
  /\ ClaimIsExclusive
  /\ CompleteHasOutput
  /\ AnswersAreWhole

(* A verdict stands until a user retries the triage or deletes the report: *)
(* no job overwrites what it or another job has settled.                   *)
VerdictStandsUntilRetry ==
  [][\A r \in Reports :
       triage[r] \in Verdicts /\ triage'[r] # triage[r]
         => \/ triage'[r] = "pending" /\ handler'[r] = "enqueue"
            \/ present'[r] = "deleted"]_vars

(***************************************************************************)
(* Liveness.                                                               *)
(***************************************************************************)

(* The pool drains: whatever fails, a job gives its slot back.  A slot     *)
(* that leaks would in the end switch triage off for the whole server.     *)
SlotsAreReturned ==
  \A i \in Slots : slot[i] # Free ~> slot[i] = Free

(* A report whose triage a job has claimed gets its verdict when nothing   *)
(* fails (unless it is deleted first).                                     *)
ClaimedTriageEnds ==
  \A r \in Reports :
    (\E i \in Slots : WorksOn(i, r)) ~> triage[r] # "pending"

-----------------------------------------------------------------------------
(***************************************************************************)
(* What the documents of the repository say, and the code does not do.     *)
(***************************************************************************)

(* reports.go: RetryTriage "re-triggers LLM triage for a report".  Its job *)
(* finds the row that ForceReset made pending, and skips it.               *)
RetriedTriageRuns ==
  \A r \in Reports :
    handler[r] = "enqueue" /\ triage[r] = "pending" ~> triage[r] # "pending"
=============================================================================
