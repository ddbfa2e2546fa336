----------------------------- MODULE Executions -----------------------------
(***************************************************************************)
(* The life of test executions: the API handlers that create, cancel and   *)
(* update the rows of test_executions, the Kubernetes Job and worker-token *)
(* Secret behind each row, the worker that runs in the Job's pod and       *)
(* reports its status over HTTP, and the background reconciler.            *)
(*                                                                         *)
(* One action is one call with an effect outside the process (a statement  *)
(* of PostgreSQL, a request to the Kubernetes API, an HTTP request of the  *)
(* worker), so that the handlers, the workers and the reconciler           *)
(* interleave exactly between those calls.                                 *)
(***************************************************************************)
EXTENDS Naturals, FiniteSets

CONSTANTS
  Execs,       \* execution ids, numbered in the order of created_at
  Cancellable, \* the executions whose users may cancel them
  ListLimit,   \* the LIMIT of the reconciler's query
  Faults       \* the kinds of fault the environment may show (see FaultKinds)

(***************************************************************************)
(* "kube":  a Kubernetes call answers with an error; a request to create   *)
(*          may have been applied all the same.                            *)
(* "db":    a statement answers with an error; an UPDATE may have been     *)
(*          applied all the same.                                          *)
(* "abort": a handler or a reconciler pass ends before its next call (the  *)
(*          client disconnects and r.Context is cancelled, or the process  *)
(*          restarts).                                                     *)
(* "evict": Kubernetes sends SIGTERM to a pod nobody asked to cancel.      *)
(***************************************************************************)
FaultKinds == {"kube", "db", "abort", "evict"}

ASSUME ConstantsAssumption ==
  /\ Execs \subseteq Nat
  /\ Cancellable \subseteq Execs
  /\ ListLimit \in Nat
  /\ Faults \subseteq FaultKinds

VARIABLES
  status,    \* test_executions.status, "absent" before the INSERT
  named,     \* k8s_job_name and worker_token_secret are set (one UPDATE sets both)
  started,   \* started_at: "null", or "recent"/"old" relative to OrphanTimeout
  report,    \* report_id is set
  owed,      \* verdicts UpdateStatus has stored and still has to announce
  notified,  \* execution.completed / execution.failed webhooks fired
  create,    \* where the Create handler of the execution is
  cancel,    \* where the latest Cancel handler of the execution is
  job,       \* the Kubernetes Job
  secret,    \* the worker-token Secret exists
  worker,    \* the worker process in the Job's pod
  sigterm,   \* the worker has been sent SIGTERM
  net,       \* status reports of workers on their way to the API
  pass,      \* where the reconciler is in its pass
  todo,      \* executions of the pass's snapshot still to be looked at
  snap       \* what the snapshot says of them

rowVars   == <<status, named, started, report, owed, notified>>
kubeVars  == <<job, secret, worker, sigterm>>
passVars  == <<pass, todo, snap>>
vars == <<status, named, started, report, owed, notified, create, cancel,
          job, secret, worker, sigterm, net, pass, todo, snap>>

Terminal       == {"completed", "failed", "cancelled"}
Live           == {"pending", "running"}
Verdicts       == {"completed", "failed"}
Reports        == {"running", "completed", "failed", "cancelled"}
Started        == {"null", "recent", "old"}
CreateInFlight == {"secret", "job", "cleanup", "fail", "record"}
CreateOver     == {"created", "rejected", "aborted"}
WorkerAlive    == {"command", "report", "final"}
WorkerExited   == {"done", "dead"}
JobFinished    == {"complete", "failed"}

TypeOK ==
  /\ status \in [Execs -> {"absent"} \cup Live \cup Terminal]
  /\ named \in [Execs -> BOOLEAN]
  /\ started \in [Execs -> Started]
  /\ report \in [Execs -> BOOLEAN]
  /\ owed \in [Execs -> SUBSET Verdicts]
  /\ notified \in [Execs -> SUBSET Verdicts]
  /\ create \in [Execs -> {"idle"} \cup CreateInFlight \cup CreateOver]
  /\ cancel \in [Execs -> {"idle", "job", "secret", "done", "aborted"}]
  /\ job \in [Execs -> {"none", "active", "deleting", "gone"} \cup JobFinished]
  /\ secret \in [Execs -> BOOLEAN]
  /\ worker \in [Execs -> {"none"} \cup WorkerAlive \cup WorkerExited]
  /\ sigterm \in [Execs -> BOOLEAN]
  /\ net \subseteq Execs \X Reports
  /\ pass \in {"idle", "row", "mark", "secret"}
  /\ todo \subseteq Execs
  /\ snap \in [Execs -> [named: BOOLEAN, started: Started]]

NoSnapshot == [e \in Execs |-> [named |-> FALSE, started |-> "null"]]

Init ==
  /\ status = [e \in Execs |-> "absent"]
  /\ named = [e \in Execs |-> FALSE]
  /\ started = [e \in Execs |-> "null"]
  /\ report = [e \in Execs |-> FALSE]
  /\ owed = [e \in Execs |-> {}]
  /\ notified = [e \in Execs |-> {}]
  /\ create = [e \in Execs |-> "idle"]
  /\ cancel = [e \in Execs |-> "idle"]
  /\ job = [e \in Execs |-> "none"]
  /\ secret = [e \in Execs |-> FALSE]
  /\ worker = [e \in Execs |-> "none"]
  /\ sigterm = [e \in Execs |-> FALSE]
  /\ net = {}
  /\ pass = "idle"
  /\ todo = {}
  /\ snap = NoSnapshot

(***************************************************************************)
(* POST /api/v1/executions.  The row is committed first; the Secret, the   *)
(* Job and the UPDATE that records their names come after the commit.      *)
(***************************************************************************)
CreateRow(e) ==
  /\ status[e] = "absent"
  /\ \A f \in Execs : f < e => status[f] # "absent"
  /\ status' = [status EXCEPT ![e] = "pending"]
  /\ create' = [create EXCEPT ![e] = "secret"]
  /\ UNCHANGED <<named, started, report, owed, notified, cancel, kubeVars, net, passVars>>

\* Client.CreateJob, first call: the Secret that holds ST_WORKER_TOKEN.
CreateSecret(e) ==
  /\ create[e] = "secret"
  /\ \/ /\ secret' = [secret EXCEPT ![e] = TRUE]
        /\ create' = [create EXCEPT ![e] = "job"]
     \/ /\ "kube" \in Faults
        /\ \E applied \in BOOLEAN : secret' = [secret EXCEPT ![e] = applied]
        /\ create' = [create EXCEPT ![e] = "fail"]
  /\ UNCHANGED <<rowVars, cancel, job, worker, sigterm, net, passVars>>

\* Client.CreateJob, second call: the Job.  A resource quantity that does not
\* parse makes CreateJob return before it, with the Secret left behind.
CreateJob(e) ==
  /\ create[e] = "job"
  /\ \/ /\ job' = [job EXCEPT ![e] = "active"]
        /\ create' = [create EXCEPT ![e] = "record"]
     \/ /\ "kube" \in Faults
        /\ \E applied \in BOOLEAN :
             job' = [job EXCEPT ![e] = IF applied THEN "active" ELSE @]
        /\ create' = [create EXCEPT ![e] = "cleanup"]
     \/ /\ "kube" \in Faults
        /\ create' = [create EXCEPT ![e] = "fail"]
        /\ UNCHANGED job
  /\ UNCHANGED <<rowVars, cancel, secret, worker, sigterm, net, passVars>>

\* Client.CreateJob after a failed Job creation: best-effort removal of the Secret.
CleanUpSecret(e) ==
  /\ create[e] = "cleanup"
  /\ \/ secret' = [secret EXCEPT ![e] = FALSE]
     \/ "kube" \in Faults /\ UNCHANGED secret
  /\ create' = [create EXCEPT ![e] = "fail"]
  /\ UNCHANGED <<rowVars, cancel, job, worker, sigterm, net, passVars>>

\* The one statement that fails an execution from inside the server
\* (markExecutionFailed and ExecutionsStore.MarkFailed share its WHERE clause).
FailIfRunning_Unguarded(e) == status' = [status EXCEPT ![e] = "failed"]

FailIfRunning_OtherWord(e) ==
  status' = [status EXCEPT ![e] = IF @ = "running" THEN "error" ELSE @]

FailIfRunning(e) ==
  status' = [status EXCEPT ![e] = IF @ = "running" THEN "failed" ELSE @]

\* markExecutionFailed, then the response "execution created but job launch failed".
MarkLaunchFailed(e) ==
  /\ create[e] = "fail"
  /\ FailIfRunning(e) \/ ("db" \in Faults /\ UNCHANGED status)
  /\ create' = [create EXCEPT ![e] = "rejected"]
  /\ UNCHANGED <<named, started, report, owed, notified, cancel, kubeVars, net, passVars>>

\* The UPDATE that stores k8s_job_name and worker_token_secret; its error is ignored.
RecordJob(e) ==
  /\ create[e] = "record"
  /\ \/ named' = [named EXCEPT ![e] = TRUE]
     \/ "db" \in Faults /\ UNCHANGED named
  /\ create' = [create EXCEPT ![e] = "created"]
  /\ UNCHANGED <<status, started, report, owed, notified, cancel, kubeVars, net, passVars>>

AbortCreate(e) ==
  /\ "abort" \in Faults
  /\ create[e] \in CreateInFlight
  /\ create' = [create EXCEPT ![e] = "aborted"]
  /\ UNCHANGED <<rowVars, cancel, kubeVars, net, passVars>>

(***************************************************************************)
(* DELETE /api/v1/executions/{id}.  Reading the job name and deleting the  *)
(* Job are one action: the column only ever goes from NULL to a name, so   *)
(* the read may be placed next to the delete.  The same for the Secret.    *)
(***************************************************************************)
CancelRow(e) ==
  /\ e \in Cancellable
  /\ cancel[e] \in {"idle", "done", "aborted"}
  /\ status[e] \in Live
  /\ status' = [status EXCEPT ![e] = "cancelled"]
  /\ cancel' = [cancel EXCEPT ![e] = "job"]
  /\ UNCHANGED <<named, started, report, owed, notified, create, kubeVars, net, passVars>>

\* A foreground deletion: the Job stays, terminating, until its pod has exited.
DeleteJob(e) ==
  IF worker[e] \in WorkerAlive
  THEN /\ job' = [job EXCEPT ![e] = "deleting"]
       /\ sigterm' = [sigterm EXCEPT ![e] = TRUE]
  ELSE /\ job' = [job EXCEPT ![e] = "gone"]
       /\ UNCHANGED sigterm

CancelJob_ReturnsEarly(e) ==
  /\ cancel[e] = "job"
  /\ \/ named[e] /\ DeleteJob(e)
     \/ (~named[e] \/ Faults \cap {"kube", "db"} # {}) /\ UNCHANGED <<job, sigterm>>
  /\ cancel' = [cancel EXCEPT ![e] = "done"]
  /\ UNCHANGED <<rowVars, create, secret, worker, net, passVars>>

CancelJob(e) ==
  /\ cancel[e] = "job"
  /\ \/ named[e] /\ DeleteJob(e)
     \/ (~named[e] \/ Faults \cap {"kube", "db"} # {}) /\ UNCHANGED <<job, sigterm>>
  /\ cancel' = [cancel EXCEPT ![e] = "secret"]
  /\ UNCHANGED <<rowVars, create, secret, worker, net, passVars>>

CancelSecret(e) ==
  /\ cancel[e] = "secret"
  /\ \/ named[e] /\ secret' = [secret EXCEPT ![e] = FALSE]
     \/ (~named[e] \/ Faults \cap {"kube", "db"} # {}) /\ UNCHANGED secret
  /\ cancel' = [cancel EXCEPT ![e] = "done"]
  /\ UNCHANGED <<rowVars, create, job, worker, sigterm, net, passVars>>

AbortCancel(e) ==
  /\ "abort" \in Faults
  /\ cancel[e] \in {"job", "secret"}
  /\ cancel' = [cancel EXCEPT ![e] = "aborted"]
  /\ UNCHANGED <<rowVars, create, kubeVars, net, passVars>>

(***************************************************************************)
(* The worker.  reportStatus makes one attempt and looks at neither the    *)
(* error nor the response, so the worker goes on whatever became of the    *)
(* report: it may still be on its way, it may be lost.                     *)
(***************************************************************************)
Send(e, s) == net' = net \cup {<<e, s>>}

\* The pod's process ends with the given exit; backoffLimit is 0, so the Job ends too.
Exit(e, how) ==
  /\ worker' = [worker EXCEPT ![e] = how]
  /\ job' = [job EXCEPT ![e] = IF @ = "deleting" THEN "gone"
                               ELSE IF how = "done" THEN "complete" ELSE "failed"]

\* The pod can start only while the Secret its environment refers to exists.
PodStarts(e) == job[e] = "active" /\ worker[e] = "none" /\ secret[e]

WorkerStart(e) ==
  /\ PodStarts(e)
  /\ worker' = [worker EXCEPT ![e] = "command"]
  /\ Send(e, "running")
  /\ UNCHANGED <<rowVars, create, cancel, job, secret, sigterm, passVars>>

\* The command holds a quote.  Create validates it and then HTML-escapes it; the
\* escape contains '&' and ';', which the worker's own validation rejects.
WorkerReject(e) ==
  /\ PodStarts(e)
  /\ Exit(e, "dead")
  /\ Send(e, "failed")
  /\ UNCHANGED <<rowVars, create, cancel, secret, sigterm, passVars>>

\* runCommand returns.  ctx.Err() is looked at first: after SIGTERM the
\* worker reports "cancelled" however the command ended.
WorkerCommand(e) ==
  /\ worker[e] = "command"
  /\ \/ /\ ~sigterm[e]
        /\ worker' = [worker EXCEPT ![e] = "report"]
        /\ UNCHANGED <<job, net>>
     \/ /\ Exit(e, "dead")
        /\ Send(e, IF sigterm[e] THEN "cancelled" ELSE "failed")
  /\ UNCHANGED <<rowVars, create, cancel, secret, sigterm, passVars>>

\* findCTRFReport and submitReport; without a report file nothing is sent.  An
\* error may hide a report the server did store.  SIGTERM has no effect here.
SubmitReport(e) == \E stored \in BOOLEAN : report' = [report EXCEPT ![e] = stored]

WorkerSubmit_NoExit(e) ==
  /\ worker[e] = "report"
  /\ \E stored \in BOOLEAN : report' = [report EXCEPT ![e] = stored]
  /\ worker' = [worker EXCEPT ![e] = "final"]
  /\ UNCHANGED net \/ Send(e, "failed")
  /\ UNCHANGED <<status, named, started, owed, notified, create, cancel,
                 job, secret, sigterm, passVars>>

WorkerSubmit_EarlyVerdict(e) ==
  /\ worker[e] = "report"
  /\ \E stored \in BOOLEAN : report' = [report EXCEPT ![e] = stored]
  /\ worker' = [worker EXCEPT ![e] = "final"]
  /\ Send(e, "completed")
  /\ UNCHANGED <<status, named, started, owed, notified, create, cancel,
                 job, secret, sigterm, passVars>>

WorkerSubmit(e) ==
  /\ worker[e] = "report"
  /\ SubmitReport(e)
  /\ \/ /\ worker' = [worker EXCEPT ![e] = "final"]
        /\ UNCHANGED <<job, net>>
     \/ /\ Exit(e, "dead")
        /\ Send(e, "failed")
  /\ UNCHANGED <<status, named, started, owed, notified, create, cancel,
                 secret, sigterm, passVars>>

WorkerComplete(e) ==
  /\ worker[e] = "final"
  /\ Exit(e, "done")
  /\ Send(e, "completed")
  /\ UNCHANGED <<rowVars, create, cancel, secret, sigterm, passVars>>

\* SIGKILL: out of memory, the node is lost, or the grace period ran out.
WorkerKilled(e) ==
  /\ worker[e] \in WorkerAlive
  /\ Exit(e, "dead")
  /\ UNCHANGED <<rowVars, create, cancel, secret, sigterm, net, passVars>>

Evict(e) ==
  /\ "evict" \in Faults
  /\ worker[e] \in WorkerAlive
  /\ ~sigterm[e]
  /\ sigterm' = [sigterm EXCEPT ![e] = TRUE]
  /\ UNCHANGED <<rowVars, create, cancel, job, secret, worker, net, passVars>>

\* ttlSecondsAfterFinished: Kubernetes removes a finished Job.
JobExpire(e) ==
  /\ job[e] \in JobFinished
  /\ job' = [job EXCEPT ![e] = "gone"]
  /\ UNCHANGED <<rowVars, create, cancel, secret, worker, sigterm, net, passVars>>

(***************************************************************************)
(* PUT /api/v1/executions/{id}/status.  The UPDATE has no condition on the *)
(* current status.  Once it has answered, the handler goes on to fire the  *)
(* webhook of a verdict; an UPDATE that answers with an error, applied or  *)
(* not, ends the handler, and so does a restart on the way.                *)
(***************************************************************************)
StoreStatus(e, s) ==
  /\ status' = [status EXCEPT ![e] = s]
  /\ started' = [started EXCEPT ![e] =
                   IF s = "running" /\ @ = "null" THEN "recent" ELSE @]

UpdateStatus(e, s) ==
  /\ <<e, s>> \in net
  /\ net' = net \ {<<e, s>>}
  /\ \/ /\ StoreStatus(e, s)
        /\ owed' = [owed EXCEPT ![e] = @ \cup ({s} \cap Verdicts)]
     \/ /\ "db" \in Faults
        /\ StoreStatus(e, s) \/ UNCHANGED <<status, started>>
        /\ UNCHANGED owed
  /\ UNCHANGED <<named, report, notified, create, cancel, kubeVars, passVars>>

NotifyVerdict(e, s) ==
  /\ s \in owed[e]
  /\ owed' = [owed EXCEPT ![e] = @ \ {s}]
  /\ notified' = [notified EXCEPT ![e] = @ \cup {s}]
  /\ UNCHANGED <<status, named, started, report, create, cancel, kubeVars, net, passVars>>

AbortUpdate(e, s) ==
  /\ "abort" \in Faults
  /\ s \in owed[e]
  /\ owed' = [owed EXCEPT ![e] = @ \ {s}]
  /\ UNCHANGED <<status, named, started, report, notified, create, cancel,
                 kubeVars, net, passVars>>

LoseReport(e, s) ==
  /\ <<e, s>> \in net
  /\ net' = net \ {<<e, s>>}
  /\ UNCHANGED <<rowVars, create, cancel, kubeVars, passVars>>

\* started_at passes out of the grace period.  OrphanTimeout (5 minutes) is
\* taken to be longer than one call of the Create handler.
Age(e) ==
  /\ started[e] = "recent"
  /\ create[e] \in CreateOver
  /\ started' = [started EXCEPT ![e] = "old"]
  /\ UNCHANGED <<status, named, report, owed, notified, create, cancel, kubeVars, net, passVars>>

(***************************************************************************)
(* ExecutionReconciler.ReconcileOnce: a snapshot of the running rows, then *)
(* one row after another, oldest first, on what the snapshot said.         *)
(***************************************************************************)
Running == {e \in Execs : status[e] = "running"}

Listed == {e \in Running : Cardinality({f \in Running : f < e}) < ListLimit}

ListRunning ==
  /\ pass = "idle"
  /\ Listed # {}
  /\ pass' = "row"
  /\ todo' = Listed
  /\ snap' = [e \in Execs |-> IF e \in Listed
                              THEN [named |-> named[e], started |-> started[e]]
                              ELSE NoSnapshot[e]]
  /\ UNCHANGED <<rowVars, create, cancel, kubeVars, net>>

IsNext(e) == e \in todo /\ \A f \in todo : e <= f

\* Go on to the next row of the snapshot.
Advance(e) ==
  /\ todo' = todo \ {e}
  /\ snap' = [snap EXCEPT ![e] = NoSnapshot[e]]
  /\ pass' = IF todo' = {} THEN "idle" ELSE "row"

\* A row without a job name, beyond the grace period, is failed on the spot.
FailNameless(e) ==
  /\ pass = "row"
  /\ IsNext(e)
  /\ ~snap[e].named
  /\ snap[e].started = "old"
  /\ FailIfRunning(e) \/ ("db" \in Faults /\ UNCHANGED status)
  /\ Advance(e)
  /\ UNCHANGED <<named, started, report, owed, notified, create, cancel, kubeVars, net>>

\* The rows the pass leaves alone without asking Kubernetes.
SkipRow(e) ==
  /\ pass = "row"
  /\ IsNext(e)
  /\ IF snap[e].named THEN snap[e].started = "recent" ELSE snap[e].started # "old"
  /\ Advance(e)
  /\ UNCHANGED <<rowVars, create, cancel, kubeVars, net>>

\* GetJobStatus.  An error (the Job is gone, or the call failed) and a Job
\* that has not finished both leave the row for a later pass.
LookUpJob_Unfinished(e) ==
  /\ pass = "row"
  /\ IsNext(e)
  /\ snap[e].named /\ snap[e].started # "recent"
  /\ pass' = "mark"
  /\ UNCHANGED <<rowVars, create, cancel, kubeVars, net, todo, snap>>

LookUpJob_Inverted(e) ==
  /\ pass = "row"
  /\ IsNext(e)
  /\ snap[e].named /\ snap[e].started # "recent"
  /\ \/ /\ job[e] \notin JobFinished
        /\ pass' = "mark"
        /\ UNCHANGED <<todo, snap>>
     \/ /\ job[e] \in JobFinished
        /\ Advance(e)
  /\ UNCHANGED <<rowVars, create, cancel, kubeVars, net>>

LookUpJob(e) ==
  /\ pass = "row"
  /\ IsNext(e)
  /\ snap[e].named /\ snap[e].started # "recent"
  /\ \/ /\ job[e] \in JobFinished
        /\ pass' = "mark"
        /\ UNCHANGED <<todo, snap>>
     \/ /\ job[e] \notin JobFinished \/ "kube" \in Faults
        /\ Advance(e)
  /\ UNCHANGED <<rowVars, create, cancel, kubeVars, net>>

MarkFailed(e) ==
  /\ pass = "mark"
  /\ IsNext(e)
  /\ \/ /\ FailIfRunning(e)
        /\ pass' = "secret"
        /\ UNCHANGED <<todo, snap>>
     \/ /\ "db" \in Faults
        /\ Advance(e)
        /\ FailIfRunning(e) \/ UNCHANGED status
  /\ UNCHANGED <<named, started, report, owed, notified, create, cancel, kubeVars, net>>

\* The Secret goes even when MarkFailed matched no row.
DeleteSecret(e) ==
  /\ pass = "secret"
  /\ IsNext(e)
  /\ \/ secret' = [secret EXCEPT ![e] = FALSE]
     \/ "kube" \in Faults /\ UNCHANGED secret
  /\ Advance(e)
  /\ UNCHANGED <<rowVars, create, cancel, job, worker, sigterm, net>>

AbortPass ==
  /\ "abort" \in Faults
  /\ pass # "idle"
  /\ pass' = "idle"
  /\ todo' = {}
  /\ snap' = NoSnapshot
  /\ UNCHANGED <<rowVars, create, cancel, kubeVars, net>>

-----------------------------------------------------------------------------
CreateStep(e) ==
  \/ CreateSecret(e) \/ CreateJob(e) \/ CleanUpSecret(e)
  \/ MarkLaunchFailed(e) \/ RecordJob(e)

CancelStep(e) == CancelJob(e) \/ CancelSecret(e)

WorkerStep(e) ==
  \/ WorkerStart(e) \/ WorkerReject(e) \/ WorkerCommand(e)
  \/ WorkerSubmit(e) \/ WorkerComplete(e) \/ WorkerKilled(e)

ReportStep(e, s) ==
  \/ UpdateStatus(e, s) \/ NotifyVerdict(e, s) \/ AbortUpdate(e, s)
  \/ LoseReport(e, s)

PassStep(e) ==
  \/ FailNameless(e) \/ SkipRow(e) \/ LookUpJob(e)
  \/ MarkFailed(e) \/ DeleteSecret(e)

Next ==
  \/ \E e \in Execs :
       \/ CreateRow(e) \/ CreateStep(e) \/ AbortCreate(e)
       \/ CancelRow(e) \/ CancelStep(e) \/ AbortCancel(e)
       \/ WorkerStep(e) \/ Evict(e) \/ JobExpire(e) \/ Age(e)
       \/ PassStep(e)
  \/ \E e \in Execs, s \in Reports : ReportStep(e, s)
  \/ ListRunning
  \/ AbortPass

Spec == Init /\ [][Next]_vars

(***************************************************************************)
(* Fairness: a handler that was called runs to its end, the clock goes on, *)
(* and the reconciler's ticker keeps firing.  Nothing is assumed of the    *)
(* users, the workers, Kubernetes or the delivery of status reports.       *)
(***************************************************************************)
Fairness ==
  /\ \A e \in Execs :
       /\ WF_vars(CreateStep(e)) /\ WF_vars(CancelStep(e)) /\ WF_vars(Age(e))
       /\ \A s \in Verdicts : WF_vars(NotifyVerdict(e, s))
  /\ WF_vars(ListRunning \/ \E e \in Execs : PassStep(e))

FairSpec == Spec /\ Fairness

-----------------------------------------------------------------------------
(***************************************************************************)
(* Safety.                                                                 *)
(***************************************************************************)

(* "completed" is only ever recorded, or on its way, for a worker that ran *)
(* its command to success and got past the report upload (main.go reports  *)
(* it last): neither a late report, a cancellation, an eviction nor the    *)
(* reconciler can make an execution look completed.                        *)
CompletedMeansSuccess ==
  \A e \in Execs :
    status[e] = "completed" \/ <<e, "completed">> \in net => worker[e] = "done"

(* However reports are delayed, lost or reordered, the webhooks of one     *)
(* execution never announce both verdicts, nor are they about to: the      *)
(* worker exits after its first terminal report.                           *)
OneVerdictAnnounced ==
  \A e \in Execs : owed[e] \cup notified[e] # Verdicts

(* A verdict is neither made up nor announced next to its opposite.        *)
VerdictsAreEarned == CompletedMeansSuccess /\ OneVerdictAnnounced

(* A running row has a start time, so the reconciler's nil StartedAt cases *)
(* never arise: a running row without one would be out of its reach if it  *)
(* had no Job name, and out of the grace period's protection if it had.    *)
RunningHasStartTime ==
  \A e \in Execs : status[e] = "running" => started[e] # "null"

(* The token Secret of an execution nobody cancelled outlives its Job: the *)
(* creation path keeps it once the Job's name is recorded, and the         *)
(* reconciler, which works on a stale snapshot, deletes it only after the  *)
(* Job has finished.  A pod that needs it can always start.                *)
SecretOutlivesJob ==
  \A e \in Execs :
    named[e] /\ cancel[e] = "idle" /\ job[e] = "active" => secret[e]

(***************************************************************************)
(* The inductive invariant behind the safety theorems, in named parts.     *)
(***************************************************************************)

\* What exists in the cluster follows the position of the Create handler.
CreationOrder(e) ==
  /\ status[e] = "absent" => create[e] = "idle"
  /\ create[e] \in {"idle", "secret", "job"} => job[e] = "none"
  /\ create[e] = "job" => secret[e]
  /\ named[e] => create[e] = "created"

\* A worker runs only in a Job that has not finished, and speaks only once started.
WorkerInJob(e) ==
  /\ job[e] = "none" => worker[e] = "none"
  /\ worker[e] \in WorkerAlive => job[e] \in {"active", "deleting"}
  /\ worker[e] = "none" =>
       status[e] # "running" /\ \A s \in Reports : <<e, s>> \notin net

\* A verdict stored, announced or on its way tells how the worker ended.
VerdictMatchesExit(e) ==
  /\ status[e] = "completed" \/ <<e, "completed">> \in net
       \/ "completed" \in owed[e] \cup notified[e]
       => worker[e] = "done"
  /\ <<e, "failed">> \in net \/ <<e, "cancelled">> \in net
       \/ "failed" \in owed[e] \cup notified[e]
       => worker[e] = "dead"

\* The Secret of an uncancelled execution, from the creation of its Job on.
SecretKept(e) ==
  (create[e] = "record" \/ named[e]) /\ cancel[e] = "idle" /\ job[e] = "active"
    => secret[e]

\* What GetJobStatus saw stays true while the pass acts on it.
VerdictNotStale ==
  pass \in {"mark", "secret"} =>
    \A e \in Execs : IsNext(e) => job[e] \in JobFinished \cup {"gone"}

(* The state behind the API stays coherent: what exists in the cluster     *)
(* follows the Create handler, reports follow the workers, and the         *)
(* reconciler's look at a Job is still true when it acts on it.            *)
Coherent ==
  /\ \A e \in Execs :
       CreationOrder(e) /\ WorkerInJob(e) /\ VerdictMatchesExit(e) /\ SecretKept(e)
  /\ VerdictNotStale
  /\ RunningHasStartTime

\* The worker process as Life sees it.
Phase(e) ==
  CASE worker[e] \in WorkerAlive -> "alive"
    [] worker[e] = "done"        -> "succeeded"
    [] OTHER                     -> worker[e]

LifeView ==
  INSTANCE Life WITH announced <- notified, worker <- [e \in Execs |-> Phase(e)]

(* Behind the API, the cluster, the network and the reconciler, the rows   *)
(* live the life of the abstract specification: a report heard late says   *)
(* what became of the worker, one that started for a committed row, and    *)
(* the server itself only ends executions that still run.  A verdict is    *)
(* announced after it was stored, if at all.                               *)
ImplementsLife == LifeView!Spec

(* Nothing but a worker's report overwrites a terminal status: the launch  *)
(* failure, the cancellation and the reconciler's stale snapshot all leave *)
(* a verdict alone.                                                        *)
OnlyReportsOverwriteVerdicts ==
  [][\A e \in Execs :
       status[e] \in Terminal /\ status'[e] # status[e]
         => <<e, status'[e]>> \in net \ net']_vars

(* The reconciler fails an execution only when its worker process is gone: *)
(* a slow but live worker is never declared failed.                        *)
ReconcilerSparesLiveWorkers ==
  [][\A e \in Execs :
       PassStep(e) /\ status'[e] # status[e] => worker[e] \in WorkerExited]_vars

(***************************************************************************)
(* Liveness.                                                               *)
(***************************************************************************)

(* An execution whose Job has finished does not stay "running": the        *)
(* reconciler fails it, unless a late report settles it first or the Job   *)
(* object disappears before the reconciler has seen it.                    *)
FinishedJobIsReconciled ==
  \A e \in Execs :
    status[e] = "running" /\ named[e] /\ job[e] \in JobFinished
      ~> status[e] # "running" \/ job[e] = "gone"

(* A cancellation that finds the Job's name in the row ends with the Secret *)
(* gone and the Job finished or told to stop, whatever the reconciler, the *)
(* worker and the creation path do meanwhile.  (One that comes before      *)
(* RecordJob finds no name, and leaves both behind.)                       *)
CancellationCleansUp ==
  \A e \in Execs :
    cancel[e] = "job" /\ named[e] ~> ~secret[e] /\ job[e] # "active"

-----------------------------------------------------------------------------
(***************************************************************************)
(* What the documents and tests of the repository say, and the code does   *)
(* not do.                                                                 *)
(***************************************************************************)

(* executions.go: markExecutionFailed "updates an execution's status to    *)
(* 'failed'" after a launch failure.  Its WHERE status = 'running' never   *)
(* matches the row, which is still 'pending'.                              *)
LaunchFailureIsRecorded ==
  \A e \in Execs : create[e] = "rejected" => status[e] # "pending"
=============================================================================
