-------------------------- MODULE Executions_proofs --------------------------
(***************************************************************************)
(* Proofs about Executions, for every set of executions, every LIMIT of    *)
(* the reconciler's query and every set of faults.                         *)
(***************************************************************************)
EXTENDS Executions, TLAPS

USE DEF Terminal, Live, Verdicts, Reports, Started, CreateInFlight, CreateOver,
        WorkerAlive, WorkerExited, JobFinished

(* Every variable keeps its type: no handler, worker or reconciler step    *)
(* writes a value the code does not know.                                  *)
THEOREM TypeCorrect == Spec => []TypeOK
<1>1. Init => TypeOK
  BY DEF Init, TypeOK, NoSnapshot
<1>2. TypeOK /\ [Next]_vars => TypeOK'
  <2> SUFFICES ASSUME TypeOK, [Next]_vars PROVE TypeOK'
    OBVIOUS
  <2> USE DEF TypeOK, rowVars, kubeVars, passVars
  <2>1. ASSUME NEW e \in Execs, CreateRow(e) PROVE TypeOK'
    BY <2>1 DEF CreateRow
  <2>2. ASSUME NEW e \in Execs, CreateStep(e) PROVE TypeOK'
    <3>1. CASE CreateSecret(e)
      <4>1. \E b \in BOOLEAN : secret' = [secret EXCEPT ![e] = b]
        BY <3>1, Zenon DEF CreateSecret
      <4>2. secret' \in [Execs -> BOOLEAN]
        BY <4>1
      <4> QED BY <3>1, <4>2 DEF CreateSecret
    <3>2. CASE CreateJob(e) BY <3>2 DEF CreateJob
    <3>3. CASE CleanUpSecret(e) BY <3>3 DEF CleanUpSecret
    <3>4. CASE MarkLaunchFailed(e) BY <3>4 DEF MarkLaunchFailed, FailIfRunning
    <3>5. CASE RecordJob(e) BY <3>5 DEF RecordJob
    <3> QED BY <2>2, <3>1, <3>2, <3>3, <3>4, <3>5 DEF CreateStep
  <2>3. ASSUME NEW e \in Execs, AbortCreate(e) PROVE TypeOK'
    BY <2>3 DEF AbortCreate
  <2>4. ASSUME NEW e \in Execs, CancelRow(e) PROVE TypeOK'
    BY <2>4 DEF CancelRow
  <2>5. ASSUME NEW e \in Execs, CancelStep(e) PROVE TypeOK'
    <3>1. CASE CancelJob(e) BY <3>1 DEF CancelJob, DeleteJob
    <3>2. CASE CancelSecret(e) BY <3>2 DEF CancelSecret
    <3> QED BY <2>5, <3>1, <3>2 DEF CancelStep
  <2>6. ASSUME NEW e \in Execs, AbortCancel(e) PROVE TypeOK'
    BY <2>6 DEF AbortCancel
  <2>7. ASSUME NEW e \in Execs, WorkerStep(e) PROVE TypeOK'
    <3> USE DEF Send, Exit, PodStarts
    <3>1. CASE WorkerStart(e) BY <3>1 DEF WorkerStart
    <3>2. CASE WorkerReject(e) BY <3>2 DEF WorkerReject
    <3>3. CASE WorkerCommand(e)
      <4>1. CASE worker' = [worker EXCEPT ![e] = "report"] /\ UNCHANGED <<job, net>>
        BY <3>3, <4>1 DEF WorkerCommand
      <4>2. CASE Exit(e, "dead") /\ Send(e, IF sigterm[e] THEN "cancelled" ELSE "failed")
        BY <3>3, <4>2 DEF WorkerCommand
      <4> QED BY <3>3, <4>1, <4>2 DEF WorkerCommand
    <3>4. CASE WorkerSubmit(e)
      <4>1. report' \in [Execs -> BOOLEAN]
        BY <3>4 DEF WorkerSubmit, SubmitReport
      <4>2. CASE worker' = [worker EXCEPT ![e] = "final"] /\ UNCHANGED <<job, net>>
        BY <3>4, <4>1, <4>2 DEF WorkerSubmit, SubmitReport
      <4>3. CASE Exit(e, "dead") /\ Send(e, "failed")
        BY <3>4, <4>1, <4>3 DEF WorkerSubmit, SubmitReport
      <4> QED BY <3>4, <4>2, <4>3 DEF WorkerSubmit, SubmitReport
    <3>5. CASE WorkerComplete(e) BY <3>5 DEF WorkerComplete
    <3>6. CASE WorkerKilled(e) BY <3>6 DEF WorkerKilled
    <3> QED BY <2>7, <3>1, <3>2, <3>3, <3>4, <3>5, <3>6 DEF WorkerStep
  <2>8. ASSUME NEW e \in Execs, Evict(e) PROVE TypeOK'
    BY <2>8 DEF Evict
  <2>9. ASSUME NEW e \in Execs, JobExpire(e) PROVE TypeOK'
    BY <2>9 DEF JobExpire
  <2>10. ASSUME NEW e \in Execs, Age(e) PROVE TypeOK'
    BY <2>10 DEF Age
  <2>11. ASSUME NEW e \in Execs, PassStep(e) PROVE TypeOK'
    <3> USE DEF Advance, NoSnapshot, IsNext, FailIfRunning
    <3>1. CASE FailNameless(e) BY <3>1 DEF FailNameless
    <3>2. CASE SkipRow(e) BY <3>2 DEF SkipRow
    <3>3. CASE LookUpJob(e)
      <4>1. CASE pass' = "mark" /\ UNCHANGED <<todo, snap>>
        BY <3>3, <4>1 DEF LookUpJob
      <4>2. CASE Advance(e)
        BY <3>3, <4>2 DEF LookUpJob
      <4> QED BY <3>3, <4>1, <4>2 DEF LookUpJob
    <3>4. CASE MarkFailed(e)
      <4>1. CASE FailIfRunning(e) /\ pass' = "secret" /\ UNCHANGED <<todo, snap>>
        BY <3>4, <4>1 DEF MarkFailed
      <4>2. CASE Advance(e) /\ (FailIfRunning(e) \/ UNCHANGED status)
        BY <3>4, <4>2 DEF MarkFailed
      <4> QED BY <3>4, <4>1, <4>2 DEF MarkFailed
    <3>5. CASE DeleteSecret(e) BY <3>5 DEF DeleteSecret
    <3> QED BY <2>11, <3>1, <3>2, <3>3, <3>4, <3>5 DEF PassStep
  <2>12. ASSUME NEW e \in Execs, NEW s \in Reports, ReportStep(e, s) PROVE TypeOK'
    <3>1. CASE UpdateStatus(e, s)
      <4>1. owed' = owed \/ owed' = [owed EXCEPT ![e] = @ \cup ({s} \cap Verdicts)]
        BY <3>1 DEF UpdateStatus
      <4>2. owed' \in [Execs -> SUBSET Verdicts]
        BY <4>1
      <4>3. status' \in [Execs -> {"absent"} \cup Live \cup Terminal]
        BY <3>1 DEF UpdateStatus, StoreStatus
      <4>4. started' \in [Execs -> Started]
        BY <3>1 DEF UpdateStatus, StoreStatus
      <4> QED BY <3>1, <4>2, <4>3, <4>4 DEF UpdateStatus
    <3>2. CASE NotifyVerdict(e, s) BY <3>2 DEF NotifyVerdict
    <3>3. CASE AbortUpdate(e, s) BY <3>3 DEF AbortUpdate
    <3>4. CASE LoseReport(e, s) BY <3>4 DEF LoseReport
    <3> QED BY <2>12, <3>1, <3>2, <3>3, <3>4 DEF ReportStep
  <2>13. ASSUME ListRunning PROVE TypeOK'
    BY <2>13 DEF ListRunning, Listed, Running, NoSnapshot
  <2>14. ASSUME AbortPass PROVE TypeOK'
    BY <2>14 DEF AbortPass, NoSnapshot
  <2>15. CASE UNCHANGED vars
    BY <2>15 DEF vars
  <2> QED
    BY <2>1, <2>2, <2>3, <2>4, <2>5, <2>6, <2>7, <2>8, <2>9, <2>10,
       <2>11, <2>12, <2>13, <2>14, <2>15 DEF Next
<1> QED
  BY <1>1, <1>2, PTL DEF Spec

(* No step lets the cluster run ahead of the Create handler. *)
LEMMA CreationOrderKept ==
  ASSUME TypeOK, Coherent, [Next]_vars, NEW f \in Execs
  PROVE  CreationOrder(f)'
<1>0. WorkerInJob(f) /\ VerdictNotStale /\ CreationOrder(f)
  BY DEF Coherent
<1> USE <1>0 DEF TypeOK, WorkerInJob, VerdictNotStale, CreationOrder, rowVars, kubeVars, passVars
<1>1. ASSUME NEW e \in Execs, CreateRow(e) \/ AbortCreate(e) PROVE CreationOrder(f)'
  BY <1>1 DEF CreateRow, AbortCreate
<1>2. ASSUME NEW e \in Execs, CreateStep(e) PROVE CreationOrder(f)'
  <2>1. CASE CreateSecret(e) BY <2>1 DEF CreateSecret
  <2>2. CASE CreateJob(e) BY <2>2 DEF CreateJob
  <2>3. CASE CleanUpSecret(e) BY <2>3 DEF CleanUpSecret
  <2>4. CASE MarkLaunchFailed(e) BY <2>4 DEF MarkLaunchFailed, FailIfRunning
  <2>5. CASE RecordJob(e) BY <2>5 DEF RecordJob
  <2> QED BY <1>2, <2>1, <2>2, <2>3, <2>4, <2>5 DEF CreateStep
<1>3. ASSUME NEW e \in Execs, CancelRow(e) \/ AbortCancel(e) PROVE CreationOrder(f)'
  BY <1>3 DEF CancelRow, AbortCancel
<1>4. ASSUME NEW e \in Execs, CancelStep(e) PROVE CreationOrder(f)'
  <2>1. CASE CancelJob(e) BY <2>1 DEF CancelJob, DeleteJob
  <2>2. CASE CancelSecret(e) BY <2>2 DEF CancelSecret
  <2> QED BY <1>4, <2>1, <2>2 DEF CancelStep
<1>5. ASSUME NEW e \in Execs, WorkerStep(e) PROVE CreationOrder(f)'
  <2> USE DEF Send, PodStarts
  <2>1. CASE WorkerStart(e) BY <2>1 DEF WorkerStart
  <2>2. CASE WorkerReject(e) BY <2>2 DEF WorkerReject, Exit
  <2>3. CASE WorkerCommand(e) BY <2>3 DEF WorkerCommand, Exit
  <2>4. CASE WorkerSubmit(e) BY <2>4 DEF WorkerSubmit, SubmitReport, Exit
  <2>5. CASE WorkerComplete(e) BY <2>5 DEF WorkerComplete, Exit
  <2>6. CASE WorkerKilled(e) BY <2>6 DEF WorkerKilled, Exit
  <2> QED BY <1>5, <2>1, <2>2, <2>3, <2>4, <2>5, <2>6 DEF WorkerStep
<1>6. ASSUME NEW e \in Execs, Evict(e) \/ JobExpire(e) \/ Age(e) PROVE CreationOrder(f)'
  BY <1>6 DEF Evict, JobExpire, Age
<1>7. ASSUME NEW e \in Execs, PassStep(e) PROVE CreationOrder(f)'
  <2>1. CASE FailNameless(e) BY <2>1 DEF FailNameless, FailIfRunning
  <2>2. CASE SkipRow(e) BY <2>2 DEF SkipRow
  <2>3. CASE LookUpJob(e) BY <2>3 DEF LookUpJob
  <2>4. CASE MarkFailed(e) BY <2>4 DEF MarkFailed, FailIfRunning
  <2>5. CASE DeleteSecret(e) BY <2>5 DEF DeleteSecret, IsNext
  <2> QED BY <1>7, <2>1, <2>2, <2>3, <2>4, <2>5 DEF PassStep
<1>8. ASSUME NEW e \in Execs, NEW s \in Reports,
             ReportStep(e, s) PROVE CreationOrder(f)'
  BY <1>8 DEF ReportStep, UpdateStatus, StoreStatus, NotifyVerdict, AbortUpdate, LoseReport
<1>9. ASSUME ListRunning \/ AbortPass PROVE CreationOrder(f)'
  BY <1>9 DEF ListRunning, AbortPass
<1>10. CASE UNCHANGED vars
  BY <1>10 DEF vars
<1> HIDE DEF TypeOK, Coherent, WorkerInJob, VerdictNotStale, CreationOrder, rowVars, kubeVars, passVars
<1> QED
  BY <1>1, <1>2, <1>3, <1>4, <1>5, <1>6, <1>7, <1>8, <1>9, <1>10 DEF Next

(* No step runs a worker outside a live Job, or lets it speak before it starts. *)
LEMMA WorkerInJobKept ==
  ASSUME TypeOK, Coherent, [Next]_vars, NEW f \in Execs
  PROVE  WorkerInJob(f)'
<1>0. CreationOrder(f) /\ WorkerInJob(f)
  BY DEF Coherent
<1> USE <1>0 DEF TypeOK, CreationOrder, WorkerInJob, rowVars, kubeVars, passVars
<1>1. ASSUME NEW e \in Execs, CreateRow(e) \/ AbortCreate(e) PROVE WorkerInJob(f)'
  BY <1>1 DEF CreateRow, AbortCreate
<1>2. ASSUME NEW e \in Execs, CreateStep(e) PROVE WorkerInJob(f)'
  <2>1. CASE CreateSecret(e) BY <2>1 DEF CreateSecret
  <2>2. CASE CreateJob(e) BY <2>2 DEF CreateJob
  <2>3. CASE CleanUpSecret(e) BY <2>3 DEF CleanUpSecret
  <2>4. CASE MarkLaunchFailed(e) BY <2>4 DEF MarkLaunchFailed, FailIfRunning
  <2>5. CASE RecordJob(e) BY <2>5 DEF RecordJob
  <2> QED BY <1>2, <2>1, <2>2, <2>3, <2>4, <2>5 DEF CreateStep
<1>3. ASSUME NEW e \in Execs, CancelRow(e) \/ AbortCancel(e) PROVE WorkerInJob(f)'
  BY <1>3 DEF CancelRow, AbortCancel
<1>4. ASSUME NEW e \in Execs, CancelStep(e) PROVE WorkerInJob(f)'
  <2>1. CASE CancelJob(e) BY <2>1 DEF CancelJob, DeleteJob
  <2>2. CASE CancelSecret(e) BY <2>2 DEF CancelSecret
  <2> QED BY <1>4, <2>1, <2>2 DEF CancelStep
<1>5. ASSUME NEW e \in Execs, WorkerStep(e) PROVE WorkerInJob(f)'
  <2> USE DEF Send, PodStarts
  <2>1. CASE WorkerStart(e) BY <2>1 DEF WorkerStart
  <2>2. CASE WorkerReject(e) BY <2>2 DEF WorkerReject, Exit
  <2>3. CASE WorkerCommand(e) BY <2>3 DEF WorkerCommand, Exit
  <2>4. CASE WorkerSubmit(e) BY <2>4 DEF WorkerSubmit, SubmitReport, Exit
  <2>5. CASE WorkerComplete(e) BY <2>5 DEF WorkerComplete, Exit
  <2>6. CASE WorkerKilled(e) BY <2>6 DEF WorkerKilled, Exit
  <2> QED BY <1>5, <2>1, <2>2, <2>3, <2>4, <2>5, <2>6 DEF WorkerStep
<1>6. ASSUME NEW e \in Execs, Evict(e) \/ JobExpire(e) \/ Age(e) PROVE WorkerInJob(f)'
  BY <1>6 DEF Evict, JobExpire, Age
<1>7. ASSUME NEW e \in Execs, PassStep(e) PROVE WorkerInJob(f)'
  <2>1. CASE FailNameless(e) BY <2>1 DEF FailNameless, FailIfRunning
  <2>2. CASE SkipRow(e) BY <2>2 DEF SkipRow
  <2>3. CASE LookUpJob(e) BY <2>3 DEF LookUpJob
  <2>4. CASE MarkFailed(e) BY <2>4 DEF MarkFailed, FailIfRunning
  <2>5. CASE DeleteSecret(e) BY <2>5 DEF DeleteSecret
  <2> QED BY <1>7, <2>1, <2>2, <2>3, <2>4, <2>5 DEF PassStep
<1>8. ASSUME NEW e \in Execs, NEW s \in Reports,
             ReportStep(e, s) PROVE WorkerInJob(f)'
  BY <1>8 DEF ReportStep, UpdateStatus, StoreStatus, NotifyVerdict, AbortUpdate, LoseReport
<1>9. ASSUME ListRunning \/ AbortPass PROVE WorkerInJob(f)'
  BY <1>9 DEF ListRunning, AbortPass
<1>10. CASE UNCHANGED vars
  BY <1>10 DEF vars
<1> HIDE DEF TypeOK, Coherent, CreationOrder, WorkerInJob, rowVars, kubeVars, passVars
<1> QED
  BY <1>1, <1>2, <1>3, <1>4, <1>5, <1>6, <1>7, <1>8, <1>9, <1>10 DEF Next

(* No step stores, announces or sends a verdict its worker did not reach. *)
LEMMA VerdictMatchesExitKept ==
  ASSUME TypeOK, Coherent, [Next]_vars, NEW f \in Execs
  PROVE  VerdictMatchesExit(f)'
<1>0. WorkerInJob(f) /\ VerdictMatchesExit(f)
  BY DEF Coherent
<1> USE <1>0 DEF TypeOK, WorkerInJob, VerdictMatchesExit, rowVars, kubeVars, passVars
<1>1. ASSUME NEW e \in Execs, CreateRow(e) \/ AbortCreate(e) PROVE VerdictMatchesExit(f)'
  BY <1>1 DEF CreateRow, AbortCreate
<1>2. ASSUME NEW e \in Execs, CreateStep(e) PROVE VerdictMatchesExit(f)'
  <2>1. CASE CreateSecret(e) BY <2>1 DEF CreateSecret
  <2>2. CASE CreateJob(e) BY <2>2 DEF CreateJob
  <2>3. CASE CleanUpSecret(e) BY <2>3 DEF CleanUpSecret
  <2>4. CASE MarkLaunchFailed(e) BY <2>4 DEF MarkLaunchFailed, FailIfRunning
  <2>5. CASE RecordJob(e) BY <2>5 DEF RecordJob
  <2> QED BY <1>2, <2>1, <2>2, <2>3, <2>4, <2>5 DEF CreateStep
<1>3. ASSUME NEW e \in Execs, CancelRow(e) \/ AbortCancel(e) PROVE VerdictMatchesExit(f)'
  BY <1>3 DEF CancelRow, AbortCancel
<1>4. ASSUME NEW e \in Execs, CancelStep(e) PROVE VerdictMatchesExit(f)'
  <2>1. CASE CancelJob(e) BY <2>1 DEF CancelJob, DeleteJob
  <2>2. CASE CancelSecret(e) BY <2>2 DEF CancelSecret
  <2> QED BY <1>4, <2>1, <2>2 DEF CancelStep
<1>5. ASSUME NEW e \in Execs, WorkerStep(e) PROVE VerdictMatchesExit(f)'
  <2> USE DEF Send, PodStarts
  <2>1. CASE WorkerStart(e) BY <2>1 DEF WorkerStart
  <2>2. CASE WorkerReject(e) BY <2>2 DEF WorkerReject, Exit
  <2>3. CASE WorkerCommand(e) BY <2>3 DEF WorkerCommand, Exit
  <2>4. CASE WorkerSubmit(e) BY <2>4 DEF WorkerSubmit, SubmitReport, Exit
  <2>5. CASE WorkerComplete(e) BY <2>5 DEF WorkerComplete, Exit
  <2>6. CASE WorkerKilled(e) BY <2>6 DEF WorkerKilled, Exit
  <2> QED BY <1>5, <2>1, <2>2, <2>3, <2>4, <2>5, <2>6 DEF WorkerStep
<1>6. ASSUME NEW e \in Execs, Evict(e) \/ JobExpire(e) \/ Age(e) PROVE VerdictMatchesExit(f)'
  BY <1>6 DEF Evict, JobExpire, Age
<1>7. ASSUME NEW e \in Execs, PassStep(e) PROVE VerdictMatchesExit(f)'
  <2>1. CASE FailNameless(e) BY <2>1 DEF FailNameless, FailIfRunning
  <2>2. CASE SkipRow(e) BY <2>2 DEF SkipRow
  <2>3. CASE LookUpJob(e) BY <2>3 DEF LookUpJob
  <2>4. CASE MarkFailed(e) BY <2>4 DEF MarkFailed, FailIfRunning
  <2>5. CASE DeleteSecret(e) BY <2>5 DEF DeleteSecret
  <2> QED BY <1>7, <2>1, <2>2, <2>3, <2>4, <2>5 DEF PassStep
<1>8. ASSUME NEW e \in Execs, NEW s \in Reports,
             ReportStep(e, s) PROVE VerdictMatchesExit(f)'
  <2>1. CASE LoseReport(e, s) BY <2>1 DEF LoseReport
  <2>2. CASE UpdateStatus(e, s) /\ e # f BY <2>2 DEF UpdateStatus, StoreStatus
  <2>3. CASE UpdateStatus(e, s) /\ e = f
    <3>1. owed'[f] \subseteq owed[f] \cup ({s} \cap Verdicts) /\ status'[f] \in {s, status[f]}
      BY <2>3 DEF UpdateStatus, StoreStatus
    <3>2. <<f, s>> \in net /\ net' \subseteq net /\ UNCHANGED <<worker, notified>>
      BY <2>3 DEF UpdateStatus
    <3> QED BY <3>1, <3>2
  <2>4. CASE NotifyVerdict(e, s) \/ AbortUpdate(e, s)
    <3>1. owed'[f] \cup notified'[f] \subseteq owed[f] \cup notified[f]
      BY <2>4 DEF NotifyVerdict, AbortUpdate
    <3>2. UNCHANGED <<status, net, worker>>
      BY <2>4 DEF NotifyVerdict, AbortUpdate
    <3> QED BY <3>1, <3>2
  <2> QED BY <1>8, <2>1, <2>2, <2>3, <2>4 DEF ReportStep
<1>9. ASSUME ListRunning \/ AbortPass PROVE VerdictMatchesExit(f)'
  BY <1>9 DEF ListRunning, AbortPass
<1>10. CASE UNCHANGED vars
  BY <1>10 DEF vars
<1> HIDE DEF TypeOK, Coherent, WorkerInJob, VerdictMatchesExit, rowVars, kubeVars, passVars
<1> QED
  BY <1>1, <1>2, <1>3, <1>4, <1>5, <1>6, <1>7, <1>8, <1>9, <1>10 DEF Next

(* No step takes the Secret of an uncancelled execution whose Job is active. *)
LEMMA SecretKeptKept ==
  ASSUME TypeOK, Coherent, [Next]_vars, NEW f \in Execs
  PROVE  SecretKept(f)'
<1>0. CreationOrder(f) /\ VerdictNotStale /\ SecretKept(f)
  BY DEF Coherent
<1> USE <1>0 DEF TypeOK, CreationOrder, VerdictNotStale, SecretKept, rowVars, kubeVars, passVars
<1>1. ASSUME NEW e \in Execs, CreateRow(e) \/ AbortCreate(e) PROVE SecretKept(f)'
  BY <1>1 DEF CreateRow, AbortCreate
<1>2. ASSUME NEW e \in Execs, CreateStep(e) PROVE SecretKept(f)'
  <2>1. CASE CreateSecret(e) BY <2>1 DEF CreateSecret
  <2>2. CASE CreateJob(e) BY <2>2 DEF CreateJob
  <2>3. CASE CleanUpSecret(e) BY <2>3 DEF CleanUpSecret
  <2>4. CASE MarkLaunchFailed(e) BY <2>4 DEF MarkLaunchFailed, FailIfRunning
  <2>5. CASE RecordJob(e) BY <2>5 DEF RecordJob
  <2> QED BY <1>2, <2>1, <2>2, <2>3, <2>4, <2>5 DEF CreateStep
<1>3. ASSUME NEW e \in Execs, CancelRow(e) \/ AbortCancel(e) PROVE SecretKept(f)'
  BY <1>3 DEF CancelRow, AbortCancel
<1>4. ASSUME NEW e \in Execs, CancelStep(e) PROVE SecretKept(f)'
  <2>1. CASE CancelJob(e) BY <2>1 DEF CancelJob, DeleteJob
  <2>2. CASE CancelSecret(e) BY <2>2 DEF CancelSecret
  <2> QED BY <1>4, <2>1, <2>2 DEF CancelStep
<1>5. ASSUME NEW e \in Execs, WorkerStep(e) PROVE SecretKept(f)'
  <2> USE DEF Send, PodStarts
  <2>1. CASE WorkerStart(e) BY <2>1 DEF WorkerStart
  <2>2. CASE WorkerReject(e) BY <2>2 DEF WorkerReject, Exit
  <2>3. CASE WorkerCommand(e) BY <2>3 DEF WorkerCommand, Exit
  <2>4. CASE WorkerSubmit(e) BY <2>4 DEF WorkerSubmit, SubmitReport, Exit
  <2>5. CASE WorkerComplete(e) BY <2>5 DEF WorkerComplete, Exit
  <2>6. CASE WorkerKilled(e) BY <2>6 DEF WorkerKilled, Exit
  <2> QED BY <1>5, <2>1, <2>2, <2>3, <2>4, <2>5, <2>6 DEF WorkerStep
<1>6. ASSUME NEW e \in Execs, Evict(e) \/ JobExpire(e) \/ Age(e) PROVE SecretKept(f)'
  BY <1>6 DEF Evict, JobExpire, Age
<1>7. ASSUME NEW e \in Execs, PassStep(e) PROVE SecretKept(f)'
  <2>1. CASE FailNameless(e) BY <2>1 DEF FailNameless, FailIfRunning
  <2>2. CASE SkipRow(e) BY <2>2 DEF SkipRow
  <2>3. CASE LookUpJob(e) BY <2>3 DEF LookUpJob
  <2>4. CASE MarkFailed(e) BY <2>4 DEF MarkFailed, FailIfRunning
  <2>5. CASE DeleteSecret(e) BY <2>5 DEF DeleteSecret
  <2> QED BY <1>7, <2>1, <2>2, <2>3, <2>4, <2>5 DEF PassStep
<1>8. ASSUME NEW e \in Execs, NEW s \in Reports,
             ReportStep(e, s) PROVE SecretKept(f)'
  BY <1>8 DEF ReportStep, UpdateStatus, StoreStatus, NotifyVerdict, AbortUpdate, LoseReport
<1>9. ASSUME ListRunning \/ AbortPass PROVE SecretKept(f)'
  BY <1>9 DEF ListRunning, AbortPass
<1>10. CASE UNCHANGED vars
  BY <1>10 DEF vars
<1> HIDE DEF TypeOK, Coherent, CreationOrder, VerdictNotStale, SecretKept, rowVars, kubeVars, passVars
<1> QED
  BY <1>1, <1>2, <1>3, <1>4, <1>5, <1>6, <1>7, <1>8, <1>9, <1>10 DEF Next

(* No step leaves a running row without a start time. *)
LEMMA StartTimeKept ==
  ASSUME TypeOK, Coherent, [Next]_vars
  PROVE  RunningHasStartTime'
<1> USE DEF TypeOK, Coherent, RunningHasStartTime, rowVars, kubeVars, passVars
<1>1. ASSUME NEW e \in Execs, CreateRow(e) \/ AbortCreate(e) PROVE RunningHasStartTime'
  BY <1>1 DEF CreateRow, AbortCreate
<1>2. ASSUME NEW e \in Execs, CreateStep(e) PROVE RunningHasStartTime'
  <2>1. CASE CreateSecret(e) BY <2>1 DEF CreateSecret
  <2>2. CASE CreateJob(e) BY <2>2 DEF CreateJob
  <2>3. CASE CleanUpSecret(e) BY <2>3 DEF CleanUpSecret
  <2>4. CASE MarkLaunchFailed(e) BY <2>4 DEF MarkLaunchFailed, FailIfRunning
  <2>5. CASE RecordJob(e) BY <2>5 DEF RecordJob
  <2> QED BY <1>2, <2>1, <2>2, <2>3, <2>4, <2>5 DEF CreateStep
<1>3. ASSUME NEW e \in Execs, CancelRow(e) \/ AbortCancel(e) PROVE RunningHasStartTime'
  BY <1>3 DEF CancelRow, AbortCancel
<1>4. ASSUME NEW e \in Execs, CancelStep(e) PROVE RunningHasStartTime'
  <2>1. CASE CancelJob(e) BY <2>1 DEF CancelJob, DeleteJob
  <2>2. CASE CancelSecret(e) BY <2>2 DEF CancelSecret
  <2> QED BY <1>4, <2>1, <2>2 DEF CancelStep
<1>5. ASSUME NEW e \in Execs, WorkerStep(e) PROVE RunningHasStartTime'
  <2> USE DEF Send, PodStarts
  <2>1. CASE WorkerStart(e) BY <2>1 DEF WorkerStart
  <2>2. CASE WorkerReject(e) BY <2>2 DEF WorkerReject, Exit
  <2>3. CASE WorkerCommand(e) BY <2>3 DEF WorkerCommand, Exit
  <2>4. CASE WorkerSubmit(e) BY <2>4 DEF WorkerSubmit, SubmitReport, Exit
  <2>5. CASE WorkerComplete(e) BY <2>5 DEF WorkerComplete, Exit
  <2>6. CASE WorkerKilled(e) BY <2>6 DEF WorkerKilled, Exit
  <2> QED BY <1>5, <2>1, <2>2, <2>3, <2>4, <2>5, <2>6 DEF WorkerStep
<1>6. ASSUME NEW e \in Execs, Evict(e) \/ JobExpire(e) \/ Age(e) PROVE RunningHasStartTime'
  BY <1>6 DEF Evict, JobExpire, Age
<1>7. ASSUME NEW e \in Execs, PassStep(e) PROVE RunningHasStartTime'
  <2>1. CASE FailNameless(e) BY <2>1 DEF FailNameless, FailIfRunning
  <2>2. CASE SkipRow(e) BY <2>2 DEF SkipRow
  <2>3. CASE LookUpJob(e) BY <2>3 DEF LookUpJob
  <2>4. CASE MarkFailed(e) BY <2>4 DEF MarkFailed, FailIfRunning
  <2>5. CASE DeleteSecret(e) BY <2>5 DEF DeleteSecret
  <2> QED BY <1>7, <2>1, <2>2, <2>3, <2>4, <2>5 DEF PassStep
<1>8. ASSUME NEW e \in Execs, NEW s \in Reports,
             ReportStep(e, s) PROVE RunningHasStartTime'
  BY <1>8 DEF ReportStep, UpdateStatus, StoreStatus, NotifyVerdict, AbortUpdate, LoseReport
<1>9. ASSUME ListRunning \/ AbortPass PROVE RunningHasStartTime'
  BY <1>9 DEF ListRunning, AbortPass
<1>10. CASE UNCHANGED vars
  BY <1>10 DEF vars
<1> HIDE DEF TypeOK, Coherent, RunningHasStartTime, rowVars, kubeVars, passVars
<1> QED
  BY <1>1, <1>2, <1>3, <1>4, <1>5, <1>6, <1>7, <1>8, <1>9, <1>10 DEF Next


(* No step makes what GetJobStatus saw untrue while the pass acts on it: only *)
(* LookUpJob enters "mark", and a finished Job can only disappear.            *)
LEMMA VerdictNotStaleKept ==
  ASSUME TypeOK, Coherent, [Next]_vars
  PROVE  VerdictNotStale'
<1> SUFFICES ASSUME pass' \in {"mark", "secret"}, NEW f \in Execs, IsNext(f)'
             PROVE  job'[f] \in JobFinished \cup {"gone"}
  BY DEF VerdictNotStale, IsNext
<1>0. CreationOrder(f) /\ WorkerInJob(f) /\ VerdictNotStale
  BY DEF Coherent
<1> USE DEF TypeOK, VerdictNotStale, IsNext, rowVars, kubeVars, passVars
<1>1. CASE UNCHANGED passVars
  <2>1. job[f] \in JobFinished \cup {"gone"}
    BY <1>0, <1>1
  <2>2. ASSUME job'[f] = job[f] PROVE job'[f] \in JobFinished \cup {"gone"}
    BY <2>1, <2>2
  <2>3. ASSUME NEW e \in Execs, CreateRow(e) \/ CreateStep(e) \/ AbortCreate(e)
        PROVE  job'[f] = job[f]
    BY <1>0, <2>1, <2>3 DEF CreationOrder, CreateRow, CreateStep, AbortCreate,
         CreateSecret, CreateJob, CleanUpSecret, MarkLaunchFailed, RecordJob
  <2>4. ASSUME NEW e \in Execs, CancelRow(e) \/ CancelStep(e) \/ AbortCancel(e)
        PROVE  job'[f] \in JobFinished \cup {"gone"}
    BY <1>0, <2>1, <2>4 DEF WorkerInJob, CancelRow, CancelStep, AbortCancel,
         CancelJob, CancelSecret, DeleteJob
  <2>5. ASSUME NEW e \in Execs, WorkerStep(e)
        PROVE  job'[f] \in JobFinished \cup {"gone"}
    <3>1. job' = job \/ job'[f] = job[f] \/ Exit(f, "done") \/ Exit(f, "dead")
      BY <2>5 DEF WorkerStep, WorkerStart, WorkerReject, WorkerCommand, WorkerSubmit, SubmitReport,
           WorkerComplete, WorkerKilled, Exit
    <3> QED BY <2>1, <3>1 DEF Exit
  <2>6. ASSUME NEW e \in Execs, Evict(e) \/ JobExpire(e) \/ Age(e)
        PROVE  job'[f] \in JobFinished \cup {"gone"}
    BY <2>1, <2>6 DEF Evict, JobExpire, Age
  <2>7. ASSUME NEW e \in Execs, PassStep(e) PROVE job' = job
    BY <2>7 DEF PassStep, FailNameless, SkipRow, LookUpJob, MarkFailed, DeleteSecret
  <2>8. ASSUME NEW e \in Execs, NEW s \in Reports, ReportStep(e, s)
        PROVE  job' = job
    BY <2>8 DEF ReportStep, UpdateStatus, StoreStatus, NotifyVerdict, AbortUpdate, LoseReport
  <2>9. CASE ListRunning \/ AbortPass \/ UNCHANGED vars
    BY <2>1, <2>9 DEF ListRunning, AbortPass, vars
  <2> HIDE DEF TypeOK, VerdictNotStale, IsNext, rowVars, kubeVars, passVars
  <2> QED
    BY <2>1, <2>3, <2>4, <2>5, <2>6, <2>7, <2>8, <2>9 DEF Next
<1>2. ASSUME NEW e \in Execs, LookUpJob(e) PROVE job'[f] \in JobFinished \cup {"gone"}
  <2>1. pass' = "mark" /\ todo' = todo /\ job' = job /\ job[e] \in JobFinished
    BY <1>2 DEF LookUpJob, Advance
  <2>2. e = f
    <3>1. e \in todo /\ f \in todo /\ e <= f /\ f <= e
      BY <1>2, <2>1 DEF LookUpJob
    <3>2. e \in Nat /\ f \in Nat
      BY ConstantsAssumption
    <3> QED BY <3>1, <3>2
  <2> QED BY <2>1, <2>2
<1>3. ASSUME NEW e \in Execs, MarkFailed(e) PROVE job'[f] \in JobFinished \cup {"gone"}
  <2>1. pass = "mark" /\ todo' = todo /\ job' = job
    BY <1>3 DEF MarkFailed, Advance
  <2> QED BY <1>0, <2>1
<1>4. ASSUME NEW e \in Execs, FailNameless(e) \/ SkipRow(e) \/ DeleteSecret(e) PROVE FALSE
  BY <1>4 DEF FailNameless, SkipRow, DeleteSecret, Advance
<1>5. CASE ListRunning \/ AbortPass
  BY <1>5 DEF ListRunning, AbortPass
<1>6. UNCHANGED passVars \/ ListRunning \/ AbortPass \/ \E e \in Execs : PassStep(e)
  <2>1. ASSUME NEW e \in Execs, CreateRow(e) \/ CreateStep(e) \/ AbortCreate(e)
        PROVE  UNCHANGED passVars
    BY <2>1 DEF CreateRow, CreateStep, AbortCreate,
         CreateSecret, CreateJob, CleanUpSecret, MarkLaunchFailed, RecordJob
  <2>2. ASSUME NEW e \in Execs, CancelRow(e) \/ CancelStep(e) \/ AbortCancel(e)
        PROVE  UNCHANGED passVars
    BY <2>2 DEF CancelRow, CancelStep, AbortCancel, CancelJob, CancelSecret
  <2>3. ASSUME NEW e \in Execs, WorkerStep(e) PROVE UNCHANGED passVars
    BY <2>3 DEF WorkerStep, WorkerStart, WorkerReject, WorkerCommand, WorkerSubmit, SubmitReport,
         WorkerComplete, WorkerKilled
  <2>4. ASSUME NEW e \in Execs, Evict(e) \/ JobExpire(e) \/ Age(e)
        PROVE  UNCHANGED passVars
    BY <2>4 DEF Evict, JobExpire, Age
  <2>5. ASSUME NEW e \in Execs, NEW s \in Reports, ReportStep(e, s)
        PROVE  UNCHANGED passVars
    BY <2>5 DEF ReportStep, UpdateStatus, StoreStatus, NotifyVerdict, AbortUpdate, LoseReport
  <2>6. UNCHANGED vars => UNCHANGED passVars
    BY DEF vars
  <2> HIDE DEF TypeOK, VerdictNotStale, IsNext, rowVars, kubeVars, passVars
  <2> QED BY <2>1, <2>2, <2>3, <2>4, <2>5, <2>6 DEF Next
<1> HIDE DEF TypeOK, VerdictNotStale, IsNext, rowVars, kubeVars, passVars
<1> QED BY <1>1, <1>2, <1>3, <1>4, <1>5, <1>6 DEF PassStep

(* The state behind the API stays coherent (see Coherent). *)
THEOREM CoherentInvariant == Spec => []Coherent
<1>1. Init => Coherent
  BY DEF Init, Coherent, CreationOrder, WorkerInJob, VerdictMatchesExit, SecretKept,
         VerdictNotStale, RunningHasStartTime
<1>2. TypeOK /\ Coherent /\ [Next]_vars => Coherent'
  <2> SUFFICES ASSUME TypeOK, Coherent, [Next]_vars PROVE Coherent'
    OBVIOUS
  <2>1. ASSUME NEW f \in Execs
        PROVE  CreationOrder(f)' /\ WorkerInJob(f)' /\ VerdictMatchesExit(f)' /\ SecretKept(f)'
    BY CreationOrderKept, WorkerInJobKept, VerdictMatchesExitKept, SecretKeptKept
  <2>2. VerdictNotStale' /\ RunningHasStartTime'
    BY VerdictNotStaleKept, StartTimeKept
  <2> QED BY <2>1, <2>2 DEF Coherent
<1> QED
  BY <1>1, <1>2, TypeCorrect, PTL DEF Spec

(* "completed" is only recorded for a worker that ran to success. *)
THEOREM CompletedIsEarned == Spec => []CompletedMeansSuccess
<1>1. Coherent => CompletedMeansSuccess
  BY DEF Coherent, VerdictMatchesExit, CompletedMeansSuccess
<1> QED BY <1>1, CoherentInvariant, PTL

(* The webhooks of an execution never announce both verdicts. *)
THEOREM VerdictAnnouncedOnce == Spec => []OneVerdictAnnounced
<1>1. Coherent => OneVerdictAnnounced
  BY DEF Coherent, VerdictMatchesExit, OneVerdictAnnounced
<1> QED BY <1>1, CoherentInvariant, PTL

(* Verdicts are earned, and announced once. *)
THEOREM VerdictsTellTheTruth == Spec => []VerdictsAreEarned
BY CompletedIsEarned, VerdictAnnouncedOnce, PTL DEF VerdictsAreEarned

(* A running row has a start time the reconciler can compare. *)
THEOREM StartTimeKnown == Spec => []RunningHasStartTime
<1>1. Coherent => RunningHasStartTime
  BY DEF Coherent
<1> QED BY <1>1, CoherentInvariant, PTL

(* The token Secret of an uncancelled execution is there while its Job is. *)
THEOREM SecretStaysForJob == Spec => []SecretOutlivesJob
<1>1. Coherent => SecretOutlivesJob
  BY DEF Coherent, SecretKept, SecretOutlivesJob
<1> QED BY <1>1, CoherentInvariant, PTL

(* Nothing but a worker's report overwrites a terminal status. *)
THEOREM VerdictsYieldOnlyToReports == Spec => OnlyReportsOverwriteVerdicts
<1> DEFINE Allowed(f) == status[f] \in Terminal /\ status'[f] # status[f]
                           => <<f, status'[f]>> \in net \ net'
<1>1. ASSUME TypeOK, Next, NEW f \in Execs PROVE Allowed(f)
  <2> USE DEF TypeOK, rowVars, kubeVars, passVars
  <2>1. ASSUME NEW e \in Execs, CreateRow(e) \/ CreateStep(e) \/ AbortCreate(e)
        PROVE  Allowed(f)
    BY <1>1, <2>1 DEF CreateRow, CreateStep, AbortCreate, CreateSecret, CreateJob,
         CleanUpSecret, MarkLaunchFailed, RecordJob, FailIfRunning
  <2>2. ASSUME NEW e \in Execs, CancelRow(e) \/ CancelStep(e) \/ AbortCancel(e)
        PROVE  Allowed(f)
    BY <1>1, <2>2 DEF CancelRow, CancelStep, AbortCancel, CancelJob, CancelSecret
  <2>3. ASSUME NEW e \in Execs, WorkerStep(e) PROVE Allowed(f)
    BY <1>1, <2>3 DEF WorkerStep, WorkerStart, WorkerReject, WorkerCommand, WorkerSubmit, SubmitReport,
         WorkerComplete, WorkerKilled
  <2>4. ASSUME NEW e \in Execs, Evict(e) \/ JobExpire(e) \/ Age(e) PROVE Allowed(f)
    BY <1>1, <2>4 DEF Evict, JobExpire, Age
  <2>5. ASSUME NEW e \in Execs, PassStep(e) PROVE Allowed(f)
    BY <1>1, <2>5 DEF PassStep, FailNameless, SkipRow, LookUpJob, MarkFailed, DeleteSecret,
         FailIfRunning
  <2>6. ASSUME NEW e \in Execs, NEW s \in Reports, ReportStep(e, s)
        PROVE  Allowed(f)
    BY <1>1, <2>6 DEF ReportStep, UpdateStatus, StoreStatus, NotifyVerdict, AbortUpdate, LoseReport
  <2>7. CASE ListRunning \/ AbortPass
    BY <1>1, <2>7 DEF ListRunning, AbortPass
  <2> HIDE DEF TypeOK, rowVars, kubeVars, passVars, Allowed
  <2> QED BY <1>1, <2>1, <2>2, <2>3, <2>4, <2>5, <2>6, <2>7 DEF Next
<1>2. TypeOK /\ [Next]_vars
        => [\A e \in Execs :
              status[e] \in Terminal /\ status'[e] # status[e]
                => <<e, status'[e]>> \in net \ net']_vars
  BY <1>1
<1> QED
  BY <1>2, TypeCorrect, PTL DEF Spec, OnlyReportsOverwriteVerdicts

(* Without Kubernetes, database or abort faults every row beyond the grace   *)
(* period has its Job name, and so has every snapshot of such a row.         *)
GraceCoversCreation(e) ==
  /\ create[e] \in {"cleanup", "fail"} \cup CreateOver => named[e]
  /\ started[e] = "old" => create[e] \in CreateOver
  /\ snap[e].started = "old" => snap[e].named

LEMMA GraceCoversCreationInit ==
  ASSUME Init, NEW f \in Execs
  PROVE  GraceCoversCreation(f)
BY DEF Init, GraceCoversCreation, NoSnapshot

LEMMA GraceCoversCreationKept ==
  ASSUME Faults \subseteq {"evict"}, TypeOK, Coherent, [Next]_vars,
         NEW f \in Execs, GraceCoversCreation(f)
  PROVE  GraceCoversCreation(f)'
<1>0. CreationOrder(f)
  BY DEF Coherent
<1> USE <1>0 DEF TypeOK, GraceCoversCreation, CreationOrder, rowVars, kubeVars, passVars
<1>1. ASSUME NEW e \in Execs, CreateRow(e) \/ CreateStep(e) \/ AbortCreate(e)
      PROVE  GraceCoversCreation(f)'
  <2>1. CASE CreateRow(e) BY <2>1 DEF CreateRow
  <2>2. CASE CreateSecret(e) BY <2>2 DEF CreateSecret
  <2>3. CASE CreateJob(e) BY <2>3 DEF CreateJob
  <2>4. CASE CleanUpSecret(e) BY <2>4 DEF CleanUpSecret
  <2>5. CASE MarkLaunchFailed(e) BY <2>5 DEF MarkLaunchFailed, FailIfRunning
  <2>6. CASE RecordJob(e) BY <2>6 DEF RecordJob
  <2>7. CASE AbortCreate(e) BY <2>7 DEF AbortCreate
  <2> QED BY <1>1, <2>1, <2>2, <2>3, <2>4, <2>5, <2>6, <2>7 DEF CreateStep
<1>2. ASSUME NEW e \in Execs, CancelRow(e) \/ CancelStep(e) \/ AbortCancel(e)
      PROVE  GraceCoversCreation(f)'
  BY <1>2 DEF CancelRow, CancelStep, AbortCancel, CancelJob, CancelSecret
<1>3. ASSUME NEW e \in Execs, WorkerStep(e) PROVE GraceCoversCreation(f)'
  BY <1>3 DEF WorkerStep, WorkerStart, WorkerReject, WorkerCommand, WorkerSubmit, SubmitReport,
       WorkerComplete, WorkerKilled
<1>4. ASSUME NEW e \in Execs, Evict(e) \/ JobExpire(e) \/ Age(e)
      PROVE  GraceCoversCreation(f)'
  BY <1>4 DEF Evict, JobExpire, Age
<1>5. ASSUME NEW e \in Execs, PassStep(e) PROVE GraceCoversCreation(f)'
  <2> USE DEF Advance, NoSnapshot
  <2>1. CASE FailNameless(e) BY <2>1 DEF FailNameless, FailIfRunning
  <2>2. CASE SkipRow(e) BY <2>2 DEF SkipRow
  <2>3. CASE LookUpJob(e) BY <2>3 DEF LookUpJob
  <2>4. CASE MarkFailed(e) BY <2>4 DEF MarkFailed, FailIfRunning
  <2>5. CASE DeleteSecret(e) BY <2>5 DEF DeleteSecret
  <2> QED BY <1>5, <2>1, <2>2, <2>3, <2>4, <2>5 DEF PassStep
<1>6. ASSUME NEW e \in Execs, NEW s \in Reports, ReportStep(e, s)
      PROVE  GraceCoversCreation(f)'
  BY <1>6 DEF ReportStep, UpdateStatus, StoreStatus, NotifyVerdict, AbortUpdate, LoseReport
<1>7. CASE ListRunning
  BY <1>7 DEF ListRunning, NoSnapshot
<1>8. CASE AbortPass
  BY <1>8 DEF AbortPass, NoSnapshot
<1>9. CASE UNCHANGED vars
  BY <1>9 DEF vars
<1> HIDE DEF TypeOK, GraceCoversCreation, CreationOrder, rowVars, kubeVars, passVars
<1> QED
  BY <1>1, <1>2, <1>3, <1>4, <1>5, <1>6, <1>7, <1>8, <1>9 DEF Next

(* A step of the pass that fails a row on the word of Kubernetes finds its   *)
(* worker gone, whatever faults there are.                                   *)
LEMMA MarkFailedFindsNoWorker ==
  ASSUME TypeOK, Coherent, NEW e \in Execs, MarkFailed(e), status'[e] # status[e]
  PROVE  worker[e] \in WorkerExited
<1>1. job[e] \in JobFinished \cup {"gone"}
  BY DEF Coherent, VerdictNotStale, MarkFailed
<1>2. status[e] = "running"
  BY DEF TypeOK, MarkFailed, FailIfRunning
<1>3. WorkerInJob(e)
  BY DEF Coherent
<1> QED
  BY <1>1, <1>2, <1>3 DEF TypeOK, WorkerInJob

(* The reconciler never fails an execution whose worker is alive, as long as *)
(* no call of the Create handler fails: the grace period then covers the     *)
(* time a row spends without its Job name.                                   *)
THEOREM ReconcilerIsPatient ==
  ASSUME Faults \subseteq {"evict"}
  PROVE  Spec => ReconcilerSparesLiveWorkers
<1> DEFINE Grace == \A e \in Execs : GraceCoversCreation(e)
<1>1. Init => Grace
  BY GraceCoversCreationInit
<1>2. TypeOK /\ Coherent /\ Grace /\ [Next]_vars => Grace'
  <2> SUFFICES ASSUME TypeOK, Coherent, Grace, [Next]_vars, NEW f \in Execs
               PROVE  GraceCoversCreation(f)'
    OBVIOUS
  <2> QED BY GraceCoversCreationKept
<1>3. TypeOK /\ Coherent /\ Grace
        => [\A e \in Execs :
              PassStep(e) /\ status'[e] # status[e] => worker[e] \in WorkerExited]_vars
  <2> SUFFICES ASSUME TypeOK, Coherent, Grace, NEW e \in Execs,
                      PassStep(e), status'[e] # status[e]
               PROVE  worker[e] \in WorkerExited
    OBVIOUS
  <2>1. ~FailNameless(e)
    BY DEF FailNameless, GraceCoversCreation
  <2>2. MarkFailed(e)
    BY <2>1 DEF PassStep, SkipRow, LookUpJob, DeleteSecret, rowVars
  <2> QED BY <2>2, MarkFailedFindsNoWorker
<1> QED
  <2> HIDE DEF Grace
  <2> QED
    BY <1>1, <1>2, <1>3, TypeCorrect, CoherentInvariant, PTL
       DEF Spec, ReconcilerSparesLiveWorkers

\* What a step may not do to an execution whose row has the Job's name.
CleanedUpStays(e) ==
  named[e] => /\ named'[e]
              /\ secret'[e] => secret[e]
              /\ job'[e] = "active" => job[e] = "active"

LEMMA CleanedUpStaysStep ==
  ASSUME TypeOK, Coherent, [Next]_vars, NEW f \in Execs
  PROVE  CleanedUpStays(f)
<1>0. CreationOrder(f)
  BY DEF Coherent
<1> USE <1>0 DEF TypeOK, CreationOrder, CleanedUpStays, rowVars, kubeVars, passVars
<1>1. ASSUME NEW e \in Execs, CreateRow(e) \/ AbortCreate(e) PROVE CleanedUpStays(f)
  BY <1>1 DEF CreateRow, AbortCreate
<1>2. ASSUME NEW e \in Execs, CreateStep(e) PROVE CleanedUpStays(f)
  <2>1. CASE CreateSecret(e) BY <2>1 DEF CreateSecret
  <2>2. CASE CreateJob(e) BY <2>2 DEF CreateJob
  <2>3. CASE CleanUpSecret(e) BY <2>3 DEF CleanUpSecret
  <2>4. CASE MarkLaunchFailed(e) BY <2>4 DEF MarkLaunchFailed
  <2>5. CASE RecordJob(e) BY <2>5 DEF RecordJob
  <2> QED BY <1>2, <2>1, <2>2, <2>3, <2>4, <2>5 DEF CreateStep
<1>3. ASSUME NEW e \in Execs, CancelRow(e) \/ AbortCancel(e) PROVE CleanedUpStays(f)
  BY <1>3 DEF CancelRow, AbortCancel
<1>4. ASSUME NEW e \in Execs, CancelStep(e) PROVE CleanedUpStays(f)
  BY <1>4 DEF CancelStep, CancelJob, CancelSecret, DeleteJob
<1>5. ASSUME NEW e \in Execs, WorkerStep(e) PROVE CleanedUpStays(f)
  <2>1. UNCHANGED <<named, secret>>
    BY <1>5 DEF WorkerStep, WorkerStart, WorkerReject, WorkerCommand, WorkerSubmit,
         WorkerComplete, WorkerKilled
  <2>2. job' = job \/ Exit(e, "done") \/ Exit(e, "dead")
    BY <1>5 DEF WorkerStep, WorkerStart, WorkerReject, WorkerCommand, WorkerSubmit,
         WorkerComplete, WorkerKilled
  <2> QED BY <2>1, <2>2 DEF Exit
<1>6. ASSUME NEW e \in Execs, Evict(e) \/ JobExpire(e) \/ Age(e) PROVE CleanedUpStays(f)
  BY <1>6 DEF Evict, JobExpire, Age
<1>7. ASSUME NEW e \in Execs, PassStep(e) PROVE CleanedUpStays(f)
  BY <1>7 DEF PassStep, FailNameless, SkipRow, LookUpJob, MarkFailed, DeleteSecret
<1>8. ASSUME NEW e \in Execs, NEW s \in Reports,
             ReportStep(e, s) PROVE CleanedUpStays(f)
  BY <1>8 DEF ReportStep, UpdateStatus, StoreStatus, NotifyVerdict, AbortUpdate, LoseReport
<1>9. CASE ListRunning \/ AbortPass \/ UNCHANGED vars
  BY <1>9 DEF ListRunning, AbortPass, vars
<1> HIDE DEF TypeOK, CreationOrder, CleanedUpStays, rowVars, kubeVars, passVars
<1> QED BY <1>1, <1>2, <1>3, <1>4, <1>5, <1>6, <1>7, <1>8, <1>9 DEF Next

(* What a cancellation has cleaned up stays away: once the row has the      *)
(* Job's name the creation path is over, and nothing else makes a Job or a  *)
(* Secret.                                                                  *)
THEOREM CleanUpIsFinal == Spec => [][\A e \in Execs : CleanedUpStays(e)]_vars
<1>1. TypeOK /\ Coherent /\ [Next]_vars => [\A e \in Execs : CleanedUpStays(e)]_vars
  BY CleanedUpStaysStep
<1> QED BY <1>1, TypeCorrect, CoherentInvariant, PTL DEF Spec

-----------------------------------------------------------------------------
(***************************************************************************)
(* Life.                                                                   *)
(***************************************************************************)
Phases == [e \in Execs |-> Phase(e)]

\* The abstract state does not move.
LifeStutters == UNCHANGED <<status, owed, notified>> /\ Phases' = Phases

LEMMA WorkerUnchanged == worker' = worker => Phases' = Phases
BY DEF Phases, Phase

\* A worker that starts or ends moves the abstract one and no other.
LEMMA WorkerMoves ==
  ASSUME TypeOK, NEW e \in Execs, NEW w \in WorkerAlive \cup WorkerExited,
         worker' = [worker EXCEPT ![e] = w]
  PROVE  Phases' = [Phases EXCEPT ![e] = IF w \in WorkerAlive THEN "alive"
                                         ELSE IF w = "done" THEN "succeeded" ELSE "dead"]
<1>1. worker'[e] = w /\ \A f \in Execs \ {e} : worker'[f] = worker[f]
  BY DEF TypeOK
<1>2. Phase(e)' = IF w \in WorkerAlive THEN "alive" ELSE IF w = "done" THEN "succeeded" ELSE "dead"
  BY <1>1 DEF Phase
<1>3. \A f \in Execs \ {e} : Phase(f)' = Phase(f)
  BY <1>1 DEF Phase
<1> QED BY <1>2, <1>3 DEF Phases

\* The statement that fails a running row is GiveUp, or meets another row.
LEMMA FailingIsGivingUp ==
  ASSUME TypeOK, NEW e \in Execs, FailIfRunning(e), UNCHANGED <<owed, notified, worker>>
  PROVE  LifeView!GiveUp(e) \/ LifeStutters
<1>1. Phases' = Phases
  BY WorkerUnchanged
<1>2. CASE status[e] = "running"
  BY <1>1, <1>2 DEF FailIfRunning, LifeView!GiveUp, LifeView!Become, Phases
<1>3. CASE status[e] # "running"
  BY <1>1, <1>3 DEF FailIfRunning, LifeStutters, TypeOK
<1> QED BY <1>2, <1>3

\* A worker starts for a committed row.
LEMMA WorkerHasRow ==
  ASSUME Coherent, NEW e \in Execs, job[e] # "none"
  PROVE  status[e] # "absent"
BY DEF Coherent, CreationOrder

LEMMA WorkerStepIsLifeStep ==
  ASSUME TypeOK, Coherent, NEW e \in Execs, WorkerStep(e)
  PROVE  LifeView!Start(e) \/ LifeView!End(e) \/ LifeStutters
<1> USE DEF rowVars, Exit, Send
<1>1. UNCHANGED <<status, owed, notified>>
  BY DEF WorkerStep, WorkerStart, WorkerReject, WorkerCommand, WorkerSubmit, WorkerComplete, WorkerKilled
<1>2. PICK w \in WorkerAlive \cup WorkerExited :
        /\ worker' = [worker EXCEPT ![e] = w]
        /\ \/ worker[e] = "none" /\ job[e] = "active" /\ w \in {"command", "dead"}
           \/ worker[e] \in WorkerAlive
  <2>1. CASE WorkerStart(e) BY <2>1 DEF WorkerStart, PodStarts
  <2>2. CASE WorkerReject(e) BY <2>2 DEF WorkerReject, PodStarts
  <2>3. CASE WorkerCommand(e) BY <2>3 DEF WorkerCommand
  <2>4. CASE WorkerSubmit(e) BY <2>4 DEF WorkerSubmit
  <2>5. CASE WorkerComplete(e) BY <2>5 DEF WorkerComplete
  <2>6. CASE WorkerKilled(e) BY <2>6 DEF WorkerKilled
  <2> QED BY <2>1, <2>2, <2>3, <2>4, <2>5, <2>6 DEF WorkerStep
<1> DEFINE now == IF w \in WorkerAlive THEN "alive" ELSE IF w = "done" THEN "succeeded" ELSE "dead"
<1>3. Phases' = [Phases EXCEPT ![e] = now]
  BY <1>2, WorkerMoves
<1>4. Phases[e] = Phase(e) /\ Phases = [f \in Execs |-> Phases[f]]
  BY DEF Phases
<1>5. CASE worker[e] = "none"
  <2>1. job[e] = "active" /\ now \in {"alive", "dead"}
    BY <1>2, <1>5
  <2>2. status[e] # "absent"
    BY <2>1, WorkerHasRow
  <2>3. Phases[e] = "none"
    BY <1>4, <1>5 DEF Phase
  <2> HIDE DEF now
  <2> QED BY <1>1, <1>3, <2>1, <2>2, <2>3 DEF LifeView!Start, Phases
<1>6. CASE worker[e] \in WorkerAlive
  <2>1. Phases[e] = "alive"
    BY <1>4, <1>6 DEF Phase
  <2>2. CASE now = "alive"
    <3>1. Phases' = Phases
      BY <1>3, <1>4, <2>1, <2>2
    <3> QED BY <1>1, <3>1 DEF LifeStutters
  <2>3. CASE now # "alive"
    <3>1. now \in {"succeeded", "dead"}
      BY <2>3
    <3> HIDE DEF now
    <3> QED BY <1>1, <1>3, <2>1, <3>1 DEF LifeView!End, Phases
  <2> QED BY <2>2, <2>3
<1> QED BY <1>2, <1>5, <1>6

\* A report on its way says what its worker has come to.
LEMMA ReportIsHeard ==
  ASSUME TypeOK, Coherent, NEW e \in Execs, NEW s \in Reports, UpdateStatus(e, s)
  PROVE  LifeView!Hear(e, s) \/ LifeStutters
<1>1. <<e, s>> \in net /\ worker' = worker
  BY DEF UpdateStatus, kubeVars
<1>2. Phases' = Phases
  BY <1>1, WorkerUnchanged
<1>3. WorkerInJob(e) /\ VerdictMatchesExit(e)
  BY DEF Coherent
<1>4. /\ worker[e] # "none"
      /\ s = "completed" => worker[e] = "done"
      /\ s \in {"failed", "cancelled"} => worker[e] = "dead"
  BY <1>1, <1>3 DEF WorkerInJob, VerdictMatchesExit
<1>5. Phases[e] = Phase(e)
  BY DEF Phases
<1>6. /\ Phases[e] # "none"
      /\ s = "completed" => Phases[e] = "succeeded"
      /\ s \in {"failed", "cancelled"} => Phases[e] = "dead"
  BY <1>4, <1>5 DEF Phase
<1>7. LifeView!MayHaveSaid(e, s)
  BY <1>6 DEF LifeView!MayHaveSaid, Phases
<1> USE DEF LifeView!Hear, LifeView!Become, LifeView!Verdicts, StoreStatus
<1>8. UNCHANGED notified /\ Phases' = Phases
  BY <1>2 DEF UpdateStatus
<1>9. CASE StoreStatus(e, s) /\ owed' = [owed EXCEPT ![e] = @ \cup ({s} \cap Verdicts)]
  BY <1>7, <1>8, <1>9 DEF Phases
<1>10. CASE StoreStatus(e, s) /\ UNCHANGED owed
  <2>1. owed' = [owed EXCEPT ![e] = @ \cup {}]
    BY <1>10 DEF TypeOK
  <2> QED BY <1>7, <1>8, <1>10, <2>1 DEF Phases
<1>11. CASE UNCHANGED <<status, owed>>
  BY <1>8, <1>11 DEF LifeStutters
<1> QED BY <1>9, <1>10, <1>11 DEF UpdateStatus

\* What became of a verdict that was stored.
LEMMA VerdictIsAnnounced ==
  ASSUME TypeOK, NEW e \in Execs, NEW s \in Reports, NotifyVerdict(e, s) \/ AbortUpdate(e, s)
  PROVE  s \in Verdicts /\ (LifeView!Announce(e, s) \/ LifeView!Forget(e, s))
<1>1. Phases' = Phases
  BY WorkerUnchanged DEF NotifyVerdict, AbortUpdate, kubeVars
<1>2. s \in Verdicts
  BY DEF NotifyVerdict, AbortUpdate, TypeOK
<1> QED
  BY <1>1, <1>2 DEF NotifyVerdict, AbortUpdate, LifeView!Announce, LifeView!Forget, Phases

LEMMA StepIsLifeStep ==
  ASSUME TypeOK, Coherent, [Next]_vars
  PROVE  LifeView!Next \/ LifeStutters
<1> USE DEF rowVars, kubeVars
<1>1. ASSUME NEW e \in Execs, CreateRow(e) PROVE LifeView!Submit(e)
  <2>1. Phases' = Phases
    BY <1>1, WorkerUnchanged DEF CreateRow
  <2> QED BY <1>1, <2>1 DEF CreateRow, LifeView!Submit, LifeView!Become, Phases
<1>2. ASSUME NEW e \in Execs, CreateStep(e) PROVE LifeView!GiveUp(e) \/ LifeStutters
  <2>1. UNCHANGED <<owed, notified, worker>>
    BY <1>2 DEF CreateStep, CreateSecret, CreateJob, CleanUpSecret, MarkLaunchFailed, RecordJob
  <2>2. FailIfRunning(e) \/ UNCHANGED status
    BY <1>2 DEF CreateStep, CreateSecret, CreateJob, CleanUpSecret, MarkLaunchFailed, RecordJob
  <2> QED BY <2>1, <2>2, FailingIsGivingUp, WorkerUnchanged DEF LifeStutters
<1>3. ASSUME NEW e \in Execs, CancelRow(e) PROVE LifeView!Cancel(e)
  <2>1. Phases' = Phases
    BY <1>3, WorkerUnchanged DEF CancelRow
  <2> QED BY <1>3, <2>1 DEF CancelRow, LifeView!Cancel, LifeView!Become, Phases
<1>4. ASSUME NEW e \in Execs, CancelStep(e) \/ AbortCreate(e) \/ AbortCancel(e) PROVE LifeStutters
  <2>1. UNCHANGED <<status, owed, notified, worker>>
    BY <1>4 DEF CancelStep, CancelJob, CancelSecret, AbortCreate, AbortCancel
  <2> QED BY <2>1, WorkerUnchanged DEF LifeStutters
<1>5. ASSUME NEW e \in Execs, Evict(e) \/ JobExpire(e) \/ Age(e) PROVE LifeStutters
  <2>1. UNCHANGED <<status, owed, notified, worker>>
    BY <1>5 DEF Evict, JobExpire, Age
  <2> QED BY <2>1, WorkerUnchanged DEF LifeStutters
<1>6. ASSUME NEW e \in Execs, PassStep(e) PROVE LifeView!GiveUp(e) \/ LifeStutters
  <2>1. UNCHANGED <<owed, notified, worker>>
    BY <1>6 DEF PassStep, FailNameless, SkipRow, LookUpJob, MarkFailed, DeleteSecret
  <2>2. FailIfRunning(e) \/ UNCHANGED status
    BY <1>6 DEF PassStep, FailNameless, SkipRow, LookUpJob, MarkFailed, DeleteSecret
  <2> QED BY <2>1, <2>2, FailingIsGivingUp, WorkerUnchanged DEF LifeStutters
<1>7. ASSUME NEW e \in Execs, NEW s \in Reports, LoseReport(e, s) PROVE LifeStutters
  BY <1>7, WorkerUnchanged DEF LoseReport, LifeStutters
<1>8. CASE ListRunning \/ AbortPass \/ UNCHANGED vars
  <2>1. UNCHANGED <<status, owed, notified, worker>>
    BY <1>8 DEF ListRunning, AbortPass, vars
  <2> QED BY <2>1, WorkerUnchanged DEF LifeStutters
<1> HIDE DEF rowVars, kubeVars
<1> QED
  BY <1>1, <1>2, <1>3, <1>4, <1>5, <1>6, <1>7, <1>8,
     WorkerStepIsLifeStep, ReportIsHeard, VerdictIsAnnounced
     DEF Next, ReportStep, LifeView!Next, LifeView!Verdicts

(* Executions implements Life: whatever the handlers, the cluster, the      *)
(* network and the reconciler do is one of its steps or shows in nothing.   *)
THEOREM ExecutionsLiveALife == Spec => ImplementsLife
<1>1. Init => LifeView!Init
  BY DEF Init, LifeView!Init, Phase
<1>2. TypeOK /\ Coherent /\ [Next]_vars => [LifeView!Next]_(LifeView!vars)
  <2> SUFFICES ASSUME TypeOK, Coherent, [Next]_vars PROVE [LifeView!Next]_(LifeView!vars)
    OBVIOUS
  <2>1. LifeView!Next \/ LifeStutters
    BY StepIsLifeStep
  <2> QED BY <2>1 DEF LifeView!vars, LifeStutters, Phases
<1> QED
  BY <1>1, <1>2, TypeCorrect, CoherentInvariant, PTL DEF Spec, ImplementsLife, LifeView!Spec
=============================================================================
