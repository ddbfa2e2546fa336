---------------------------- MODULE Triage_proofs ----------------------------
(***************************************************************************)
(* Proofs about Triage, for every set of reports, every size of the pool   *)
(* and every set of faults.                                                *)
(***************************************************************************)
EXTENDS TriageEngine, Sums, TLAPS

USE DEF Verdicts, Unclaimed, Working, Stages, Jobs, Free, Idle

SlotType == [Slots -> Jobs \cup {Free}]

(* What the three ways a job has of moving on do to the slots. *)
LEMMA JobMoves ==
  ASSUME slot \in SlotType, NEW i \in Slots, slot[i].at # "free"
  PROVE  /\ slot[i] \in Jobs
         /\ slot[i].report \in Reports /\ slot[i].ok \in BOOLEAN
         /\ Release(i) => slot' \in SlotType
         /\ \A stage \in Stages : Goto(i, stage) => slot' \in SlotType
         /\ \A verdict \in Verdicts : Announce(i, verdict) => slot' \in SlotType
<1> USE DEF SlotType
<1>1. slot[i] \in Jobs
  OBVIOUS
<1>2. slot[i].report \in Reports /\ slot[i].ok \in BOOLEAN
  BY <1>1
<1>3. Release(i) => slot' \in SlotType
  BY DEF Release
<1>4. ASSUME NEW stage \in Stages, Goto(i, stage) PROVE slot' \in SlotType
  <2>1. [slot[i] EXCEPT !.at = stage] \in Jobs
    BY <1>1
  <2> QED BY <1>4, <2>1 DEF Goto
<1>5. ASSUME NEW verdict \in Verdicts, Announce(i, verdict) PROVE slot' \in SlotType
  <2>1. [slot[i] EXCEPT !.at = "announce", !.verdict = verdict] \in Jobs
    BY <1>1
  <2> QED BY <1>5, <2>1 DEF Announce
<1> QED BY <1>1, <1>2, <1>3, <1>4, <1>5

(* Every variable keeps its type. *)
THEOREM TypeCorrect == Spec => []TypeOK
<1>1. Init => TypeOK
  BY DEF Init, TypeOK, Readers
<1>2. TypeOK /\ [Next]_vars => TypeOK'
  <2> SUFFICES ASSUME TypeOK, [Next]_vars PROVE TypeOK'
    OBVIOUS
  <2> USE DEF TypeOK, reportVars
  <2>1. ASSUME NEW r \in Reports, Ingest(r) PROVE TypeOK'
    BY <2>1 DEF Ingest
  <2>2. ASSUME NEW r \in Reports, RetryTriage(r) PROVE TypeOK'
    BY <2>2 DEF RetryTriage
  <2>3. ASSUME NEW r \in Reports, Enqueue(r) PROVE TypeOK'
    <3>1. [Free EXCEPT !.report = r, !.at = "claim"] \in Jobs
      OBVIOUS
    <3>2. slot' \in SlotType
      BY <2>3, <3>1 DEF Enqueue, SlotType
    <3> QED BY <2>3, <3>2 DEF Enqueue, SlotType
  <2>4. ASSUME NEW r \in Reports, Delete(r) PROVE TypeOK'
    BY <2>4 DEF Delete
  <2>5. ASSUME NEW r \in Reports, ReadStep(r) PROVE TypeOK'
    <3>1. CASE ReadStatus(r)
      BY <3>1 DEF ReadStatus, Readers
    <3>2. CASE ReadClusters(r) \/ ReadClassifications(r)
      <4>0. ASSUME NEW x \in Readers, NEW c \in BOOLEAN, NEW at \in {"classifications", "answered"}
            PROVE  /\ [x EXCEPT !.at = at, !.clusters = c] \in Readers
                   /\ [x EXCEPT !.at = at, !.classifications = c] \in Readers
        BY DEF Readers
      <4>1. ASSUME NEW x \in Readers, reader' = [reader EXCEPT ![r] = x]
            PROVE  reader' \in [Reports -> Readers]
        BY <4>1
      <4>2. CASE ReadClusters(r)
        <5>1. reader' = [reader EXCEPT ![r] =
                [reader[r] EXCEPT !.at = "classifications", !.clusters = output[r]]]
          BY <4>2 DEF ReadClusters
        <5> QED BY <4>0, <4>1, <4>2, <5>1 DEF ReadClusters
      <4>3. CASE ReadClassifications(r)
        <5>1. reader' = [reader EXCEPT ![r] =
                [reader[r] EXCEPT !.at = "answered", !.classifications = output[r]]]
          BY <4>3 DEF ReadClassifications
        <5> QED BY <4>0, <4>1, <4>3, <5>1 DEF ReadClassifications
      <4> QED BY <3>2, <4>2, <4>3
    <3> QED BY <2>5, <3>1, <3>2 DEF ReadStep
  <2>6. ASSUME NEW i \in Slots, JobStep(i) PROVE TypeOK'
    <3>0. slot \in SlotType /\ (slot' \in SlotType => slot' \in [Slots -> Jobs \cup {Free}])
      BY DEF SlotType
    <3> DEFINE r == slot[i].report
    <3>1. CASE Claim(i)
      <4>1. r \in Reports /\ slot' \in SlotType
        BY <3>0, <3>1, JobMoves DEF Claim
      <4>2. triage' = triage \/ triage' = [triage EXCEPT ![r] = "pending"]
        BY <3>1 DEF Claim
      <4> HIDE DEF r
      <4> QED BY <3>0, <3>1, <4>1, <4>2 DEF Claim
    <3>2. CASE MarkPending(i)
      BY <3>0, <3>2, JobMoves DEF MarkPending, SetMirror
    <3>3. CASE Fetch(i)
      <4>1. ASSUME NEW ok \in BOOLEAN PROVE [slot[i] EXCEPT !.at = "persist", !.ok = ok] \in Jobs
        BY <3>0, <3>3, JobMoves DEF Fetch
      <4>2. slot' \in SlotType
        <5>1. ASSUME NEW ok \in BOOLEAN,
                     slot' = [slot EXCEPT ![i].at = "persist", ![i].ok = ok]
              PROVE  slot' \in SlotType
          BY <4>1, <5>1 DEF SlotType
        <5>2. CASE \E ok \in BOOLEAN :
                     slot' = [slot EXCEPT ![i].at = "persist", ![i].ok = ok]
          BY <5>1, <5>2
        <5>3. CASE Goto(i, "empty") \/ Goto(i, "fail")
          BY <3>0, <3>3, <5>3, JobMoves DEF Fetch
        <5> QED BY <3>3, <5>2, <5>3 DEF Fetch
      <4> QED BY <3>0, <3>3, <4>2 DEF Fetch
    <3>4. CASE Persist(i)
      <4>1. r \in Reports /\ slot' \in SlotType
        BY <3>0, <3>4, JobMoves DEF Persist
      <4>2. output' = output \/ output' = [output EXCEPT ![r] = TRUE]
        BY <3>4 DEF Persist
      <4> HIDE DEF r
      <4> QED BY <3>0, <3>4, <4>1, <4>2 DEF Persist
    <3>5. CASE Complete(i)
      <4>1. r \in Reports /\ slot' \in SlotType
        BY <3>0, <3>5, JobMoves DEF Complete
      <4>2. triage' = triage \/ Settle(r, "complete")
        BY <3>5 DEF Complete
      <4> HIDE DEF r
      <4> QED BY <3>0, <3>5, <4>1, <4>2 DEF Complete, Settle
    <3>6. CASE CompleteEmpty(i)
      BY <3>0, <3>6, JobMoves DEF CompleteEmpty, Settle
    <3>7. CASE Fail(i)
      BY <3>0, <3>7, JobMoves DEF Fail, Settle
    <3>8. CASE MarkSettled(i)
      <4>1. slot[i].verdict \in Verdicts
        BY <3>0, <3>8, JobMoves DEF MarkSettled
      <4> QED BY <3>0, <3>8, <4>1, JobMoves DEF MarkSettled, SetMirror
    <3> QED BY <2>6, <3>1, <3>2, <3>3, <3>4, <3>5, <3>6, <3>7, <3>8 DEF JobStep
  <2>7. CASE Crash
    BY <2>7 DEF Crash, Readers
  <2>8. CASE UNCHANGED vars
    BY <2>8 DEF vars
  <2> QED
    BY <2>1, <2>2, <2>3, <2>4, <2>5, <2>6, <2>7, <2>8 DEF Next
<1> QED
  BY <1>1, <1>2, PTL DEF Spec

(* What every step of a job leaves alone. *)
LEMMA JobFrame ==
  ASSUME TypeOK, NEW i \in Slots, JobStep(i)
  PROVE  /\ slot[i] \in Jobs
         /\ UNCHANGED <<present, failing, handler>>
         /\ \A j \in Slots \ {i} : slot'[j] = slot[j]
         /\ slot'[i] = Free \/ slot'[i].report = slot[i].report
         /\ \A r \in Reports \ {slot[i].report} :
              triage'[r] = triage[r] /\ output'[r] = output[r]
<1> USE DEF TypeOK, reportVars
<1>1. slot[i] \in Jobs
  <2>1. slot[i].at # "free"
    BY DEF JobStep, Claim, MarkPending, Fetch, Persist, Complete, CompleteEmpty, Fail,
         MarkSettled
  <2> QED BY <2>1
<1>2. UNCHANGED <<present, failing, handler>>
  BY DEF JobStep, Claim, MarkPending, Fetch, Persist, Complete, CompleteEmpty, Fail, MarkSettled
<1>3. \/ slot' = [slot EXCEPT ![i] = Free]
      \/ \E job \in Jobs : job.report = slot[i].report /\ slot' = [slot EXCEPT ![i] = job]
  <2>1. CASE Claim(i) \/ Persist(i) \/ Complete(i) \/ MarkPending(i) \/ MarkSettled(i)
    <3>1. Release(i) \/ \E stage \in Stages : Goto(i, stage) \/ Announce(i, "complete")
      BY <2>1 DEF Claim, Persist, Complete, MarkPending, MarkSettled
    <3>2. ASSUME NEW stage \in Stages
          PROVE  [slot[i] EXCEPT !.at = stage] \in Jobs
      BY <1>1
    <3>3. [slot[i] EXCEPT !.at = "announce", !.verdict = "complete"] \in Jobs
      BY <1>1
    <3> QED BY <1>1, <3>1, <3>2, <3>3 DEF Release, Goto, Announce
  <2>2. CASE CompleteEmpty(i) \/ Fail(i)
    <3>1. \E verdict \in Verdicts : Announce(i, verdict)
      BY <2>2 DEF CompleteEmpty, Fail
    <3>2. ASSUME NEW verdict \in Verdicts, Announce(i, verdict)
          PROVE  \E job \in Jobs : job.report = slot[i].report /\ slot' = [slot EXCEPT ![i] = job]
      <4>1. [slot[i] EXCEPT !.at = "announce", !.verdict = verdict] \in Jobs
        BY <1>1
      <4> QED BY <1>1, <3>2, <4>1 DEF Announce
    <3> QED BY <3>1, <3>2
  <2>3. CASE Fetch(i)
    <3>1. ASSUME NEW ok \in BOOLEAN, slot' = [slot EXCEPT ![i].at = "persist", ![i].ok = ok]
          PROVE  \E job \in Jobs : job.report = slot[i].report /\ slot' = [slot EXCEPT ![i] = job]
      <4>1. [slot[i] EXCEPT !.at = "persist", !.ok = ok] \in Jobs
        BY <1>1
      <4> QED BY <1>1, <3>1, <4>1
    <3>2. ASSUME NEW stage \in Stages, Goto(i, stage)
          PROVE  \E job \in Jobs : job.report = slot[i].report /\ slot' = [slot EXCEPT ![i] = job]
      <4>1. [slot[i] EXCEPT !.at = stage] \in Jobs
        BY <1>1
      <4> QED BY <1>1, <3>2, <4>1 DEF Goto
    <3> QED BY <2>3, <3>1, <3>2 DEF Fetch
  <2> QED BY <2>1, <2>2, <2>3 DEF JobStep
<1>4. \A r \in Reports \ {slot[i].report} :
        triage'[r] = triage[r] /\ output'[r] = output[r]
  BY DEF JobStep, Claim, MarkPending, Fetch, Persist, Complete, CompleteEmpty, Fail,
         MarkSettled, Settle
<1> QED BY <1>1, <1>2, <1>3, <1>4

\* What PoolAgreesWithRows says of rows and jobs; the readers come last.
PoolIsSound ==
  /\ RowsHaveReports
  /\ \A i \in Slots : JobIsSound(i)
  /\ ClaimIsExclusive
  /\ CompleteHasOutput

(* Rows and enqueuing handlers keep to reports that were ingested. *)
LEMMA RowsHaveReportsKept ==
  ASSUME TypeOK, PoolIsSound, [Next]_vars
  PROVE  RowsHaveReports'
<1> SUFFICES ASSUME NEW r \in Reports
             PROVE  /\ triage'[r] # "none" => present'[r] = "stored"
                    /\ handler'[r] = "enqueue" => present'[r] # "none"
  BY DEF RowsHaveReports
<1>0. /\ triage[r] # "none" => present[r] = "stored"
      /\ handler[r] = "enqueue" => present[r] # "none"
  BY DEF PoolIsSound, RowsHaveReports
<1> USE DEF TypeOK, reportVars
<1>1. ASSUME NEW q \in Reports, Ingest(q) \/ Enqueue(q) \/ ReadStep(q)
      PROVE  /\ triage'[r] # "none" => present'[r] = "stored"
             /\ handler'[r] = "enqueue" => present'[r] # "none"
  BY <1>0, <1>1 DEF Ingest, Enqueue, ReadStep, ReadStatus, ReadClusters, ReadClassifications
<1>2. ASSUME NEW q \in Reports, RetryTriage(q) \/ Delete(q)
      PROVE  /\ triage'[r] # "none" => present'[r] = "stored"
             /\ handler'[r] = "enqueue" => present'[r] # "none"
  BY <1>0, <1>2 DEF RetryTriage, Delete
<1>3. ASSUME NEW i \in Slots, JobStep(i)
      PROVE  /\ triage'[r] # "none" => present'[r] = "stored"
             /\ handler'[r] = "enqueue" => present'[r] # "none"
  <2>1. UNCHANGED <<present, failing, handler>>
    BY <1>3, JobFrame
  <2>2. triage[r] = "none" /\ present[r] # "stored" => triage'[r] = "none"
    BY <1>3 DEF JobStep, Claim, MarkPending, Fetch, Persist, Complete, CompleteEmpty, Fail,
         MarkSettled, Settle
  <2> QED BY <1>0, <2>1, <2>2
<1>4. CASE Crash \/ UNCHANGED vars
  BY <1>0, <1>4 DEF Crash, vars
<1> HIDE DEF TypeOK, reportVars
<1> QED BY <1>1, <1>2, <1>3, <1>4 DEF Next

(* A job that works after a step worked before it, or has just claimed.    *)
LEMMA WorkingJob ==
  ASSUME TypeOK, NEW i \in Slots, JobStep(i), NEW r \in Reports, WorksOn(i, r)'
  PROVE  \/ WorksOn(i, r) /\ triage' = triage
         \/ /\ slot[i].report = r /\ present[r] = "stored"
            /\ triage[r] \in {"none", "failed"} /\ triage'[r] = "pending"
<1> USE DEF TypeOK, WorksOn, Goto, Release, Announce
<1>1. slot[i] \in Jobs
  BY JobFrame
<1>2. CASE Claim(i) BY <1>1, <1>2 DEF Claim
<1>3. CASE MarkPending(i) BY <1>1, <1>3 DEF MarkPending
<1>4. CASE Fetch(i) BY <1>1, <1>4 DEF Fetch
<1>5. CASE Persist(i) BY <1>1, <1>5 DEF Persist
<1>6. CASE Complete(i) BY <1>1, <1>6 DEF Complete
<1>7. CASE CompleteEmpty(i) BY <1>1, <1>7 DEF CompleteEmpty
<1>8. CASE Fail(i) BY <1>1, <1>8 DEF Fail
<1>9. CASE MarkSettled(i) BY <1>1, <1>9 DEF MarkSettled
<1> QED
  BY <1>2, <1>3, <1>4, <1>5, <1>6, <1>7, <1>8, <1>9 DEF JobStep

(* A step of a job that works on nothing leaves a pending row alone. *)
LEMMA BystanderJob ==
  ASSUME TypeOK, NEW i \in Slots, JobStep(i), NEW r \in Reports, ~WorksOn(i, r)
  PROVE  present[r] = "stored" /\ triage[r] = "pending" => triage'[r] = "pending"
<1> USE DEF TypeOK, WorksOn
<1>1. slot[i] \in Jobs
  BY JobFrame
<1>2. CASE slot[i].report # r
  BY <1>2, JobFrame
<1>3. CASE slot[i].report = r
  <2>1. slot[i].at \in {"claim", "announce"}
    BY <1>1, <1>3
  <2>2. Claim(i) \/ MarkSettled(i)
    BY <2>1 DEF JobStep, MarkPending, Fetch, Persist, Complete, CompleteEmpty, Fail
  <2> QED BY <1>3, <2>2 DEF Claim, MarkSettled
<1> QED BY <1>2, <1>3

(* The claims stay exclusive. *)
LEMMA ClaimIsExclusiveKept ==
  ASSUME TypeOK, PoolIsSound, [Next]_vars
  PROVE  ClaimIsExclusive'
<1> DEFINE Exclusive(i, r) == /\ present[r] = "stored" => triage[r] = "pending"
                              /\ \A j \in Slots \ {i} : ~WorksOn(j, r)
<1> SUFFICES ASSUME NEW r \in Reports, NEW i \in Slots, WorksOn(i, r)'
             PROVE  Exclusive(i, r)'
  BY DEF ClaimIsExclusive, WorksOn
<1>0. \A j \in Slots : WorksOn(j, r) => Exclusive(j, r)
  BY DEF PoolIsSound, ClaimIsExclusive
<1>1. triage[r] # "none" => present[r] = "stored"
  BY DEF PoolIsSound, RowsHaveReports
<1>2. \A j \in Slots : WorksOn(j, r) => present[r] # "none"
  BY DEF PoolIsSound, JobIsSound, WorksOn
<1> HIDE DEF Exclusive
<1>3. ASSUME \A j \in Slots : WorksOn(j, r)' => WorksOn(j, r),
             present'[r] = "stored" => present[r] = "stored" /\ triage'[r] = triage[r]
      PROVE  Exclusive(i, r)'
  BY <1>0, <1>3 DEF Exclusive
<1>4. ASSUME NEW q \in Reports, Ingest(q) \/ RetryTriage(q) \/ Delete(q)
      PROVE  Exclusive(i, r)'
  <2>1. \A j \in Slots : WorksOn(j, r)' => WorksOn(j, r)
    BY <1>4 DEF Ingest, RetryTriage, Delete, WorksOn
  <2>2. present[r] # "none" /\ (present[r] = "stored" => triage[r] = "pending")
    BY <1>0, <1>2, <2>1 DEF Exclusive
  <2>3. present'[r] = "stored" => present[r] = "stored" /\ triage'[r] = triage[r]
    BY <1>1, <1>4, <2>2 DEF TypeOK, Ingest, RetryTriage, Delete, reportVars
  <2> QED BY <1>3, <2>1, <2>3
<1>5. ASSUME NEW q \in Reports, Enqueue(q) PROVE Exclusive(i, r)'
  <2>1. \A j \in Slots : WorksOn(j, r)' => WorksOn(j, r)
    <3>1. ASSUME NEW j \in Slots PROVE slot'[j] = slot[j] \/ slot'[j].at = "claim"
      BY <1>5 DEF Enqueue, TypeOK
    <3> QED BY <3>1 DEF WorksOn
  <2> QED BY <1>3, <1>5, <2>1 DEF Enqueue, reportVars
<1>6. ASSUME NEW q \in Reports, ReadStep(q) PROVE Exclusive(i, r)'
  BY <1>3, <1>6 DEF ReadStep, ReadStatus, ReadClusters, ReadClassifications, WorksOn, reportVars
<1>7. CASE Crash \/ UNCHANGED vars
  BY <1>3, <1>7 DEF Crash, WorksOn, vars, reportVars
<1>8. ASSUME NEW k \in Slots, JobStep(k) PROVE Exclusive(i, r)'
  <2>1. present' = present /\ \A j \in Slots \ {k} : slot'[j] = slot[j]
    BY <1>8, JobFrame
  <2>2. \A j \in Slots \ {k} : WorksOn(j, r)' => WorksOn(j, r)
    BY <2>1 DEF WorksOn
  <2>3. CASE WorksOn(k, r)'
    <3>1. CASE WorksOn(k, r) /\ triage' = triage
      BY <1>3, <2>1, <2>2, <3>1
    <3>2. CASE /\ slot[k].report = r /\ present[r] = "stored"
               /\ triage[r] \in {"none", "failed"} /\ triage'[r] = "pending"
      <4>1. \A j \in Slots : ~WorksOn(j, r)
        BY <1>0, <3>2 DEF Exclusive
      <4>2. i = k
        BY <2>2, <4>1
      <4> QED BY <2>2, <3>2, <4>1, <4>2 DEF Exclusive
    <3> QED BY <1>8, <2>3, <3>1, <3>2, WorkingJob
  <2>4. CASE ~WorksOn(k, r)'
    <3>1. i # k /\ WorksOn(i, r)
      BY <2>2, <2>4
    <3>2. \A j \in Slots : WorksOn(j, r)' => WorksOn(j, r)
      BY <2>2, <2>4
    <3>3. ~WorksOn(k, r) /\ (present[r] = "stored" => triage[r] = "pending")
      BY <1>0, <3>1 DEF Exclusive
    <3>4. present[r] = "stored" => triage'[r] = triage[r]
      BY <1>8, <3>3, BystanderJob
    <3> QED BY <1>3, <2>1, <3>2, <3>4
  <2> QED BY <2>3, <2>4
<1> QED BY <1>4, <1>5, <1>6, <1>7, <1>8 DEF Next

(* A job at its last statement keeps what that statement will claim. *)
LEMMA JobsStaySound ==
  ASSUME TypeOK, PoolIsSound, [Next]_vars, NEW i \in Slots
  PROVE  JobIsSound(i)'
<1>0. JobIsSound(i) /\ RowsHaveReports /\ ClaimIsExclusive
  BY DEF PoolIsSound
<1> USE DEF TypeOK, JobIsSound, NoFailures, reportVars
<1>1. ASSUME NEW q \in Reports, Ingest(q) PROVE JobIsSound(i)'
  BY <1>0, <1>1 DEF Ingest
<1>2. ASSUME NEW q \in Reports, RetryTriage(q) PROVE JobIsSound(i)'
  <2>1. present[q] = "stored" /\ triage[q] # "pending"
    BY <1>0, <1>2 DEF RetryTriage, RowsHaveReports
  <2>2. ~WorksOn(i, q)
    BY <1>0, <2>1 DEF ClaimIsExclusive
  <2> QED BY <1>0, <1>2, <2>2 DEF RetryTriage, WorksOn
<1>3. ASSUME NEW q \in Reports, Enqueue(q) PROVE JobIsSound(i)'
  <2>1. slot'[i] = slot[i] \/ (slot'[i].report = q /\ slot'[i].at = "claim")
    BY <1>3 DEF Enqueue
  <2>2. present[q] # "none"
    BY <1>0, <1>3 DEF Enqueue, RowsHaveReports
  <2> QED BY <1>0, <1>3, <2>1, <2>2 DEF Enqueue
<1>4. ASSUME NEW q \in Reports, Delete(q) PROVE JobIsSound(i)'
  BY <1>0, <1>4 DEF Delete
<1>5. ASSUME NEW q \in Reports, ReadStep(q) PROVE JobIsSound(i)'
  BY <1>0, <1>5 DEF ReadStep, ReadStatus, ReadClusters, ReadClassifications
<1>6. CASE Crash \/ UNCHANGED vars
  <2>1. CASE Crash BY <2>1 DEF Crash
  <2>2. CASE UNCHANGED vars BY <1>0, <2>2 DEF vars
  <2> QED BY <1>6, <2>1, <2>2
<1>7. ASSUME NEW k \in Slots, JobStep(k), k # i PROVE JobIsSound(i)'
  <2>1. /\ UNCHANGED <<present, failing>> /\ slot'[i] = slot[i]
        /\ \A r \in Reports \ {slot[k].report} : output'[r] = output[r]
    BY <1>7, JobFrame
  <2>2. \A r \in Reports : output[r] => output'[r]
    BY <1>7 DEF JobStep, Claim, MarkPending, Fetch, Persist, Complete, CompleteEmpty, Fail,
         MarkSettled
  <2> QED BY <1>0, <2>1, <2>2
<1>8. ASSUME JobStep(i) PROVE JobIsSound(i)'
  <2> USE DEF Goto, Release, Announce
  <2>0. slot[i] \in Jobs /\ UNCHANGED <<present, failing>> /\ present[slot[i].report] # "none"
    BY <1>0, <1>8, JobFrame
  <2>1. CASE Claim(i)
    <3>1. slot'[i] = Free \/ (slot'[i].at = "mirror" /\ slot'[i].report = slot[i].report)
      <4>1. CASE Goto(i, "mirror") BY <2>0, <4>1
      <4>2. CASE Release(i) BY <4>2
      <4> HIDE DEF Goto, Release
      <4> QED BY <2>1, <4>1, <4>2 DEF Claim
    <3> QED BY <2>0, <2>1, <3>1 DEF Claim
  <2>2. CASE MarkPending(i) BY <2>0, <2>2 DEF MarkPending
  <2>3. CASE Fetch(i) BY <2>0, <2>3 DEF Fetch
  <2>4. CASE Persist(i) BY <2>0, <2>4 DEF Persist
  <2>5. CASE Complete(i)
    <3>1. slot'[i] = Free \/ (slot'[i].at = "announce" /\ slot'[i].report = slot[i].report)
      <4>1. CASE Announce(i, "complete") BY <2>0, <4>1
      <4>2. CASE Release(i) BY <4>2
      <4> HIDE DEF Announce, Release
      <4> QED BY <2>5, <4>1, <4>2 DEF Complete
    <3> QED BY <2>0, <2>5, <3>1 DEF Complete
  <2>6. CASE CompleteEmpty(i) BY <2>0, <2>6 DEF CompleteEmpty
  <2>7. CASE Fail(i) BY <2>0, <2>7 DEF Fail
  <2>8. CASE MarkSettled(i) BY <2>0, <2>8 DEF MarkSettled
  <2> QED BY <1>8, <2>1, <2>2, <2>3, <2>4, <2>5, <2>6, <2>7, <2>8 DEF JobStep
<1> HIDE DEF TypeOK, JobIsSound, NoFailures, reportVars
<1> QED BY <1>1, <1>2, <1>3, <1>4, <1>5, <1>6, <1>7, <1>8 DEF Next

(* A complete triage keeps its output. *)
LEMMA CompleteHasOutputKept ==
  ASSUME TypeOK, PoolIsSound, [Next]_vars, NEW r \in Reports,
         triage'[r] = "complete", failing'[r]
  PROVE  output'[r]
<1>0. /\ triage[r] = "complete" /\ failing[r] => output[r]
      /\ triage[r] # "none" => present[r] = "stored"
  BY DEF PoolIsSound, CompleteHasOutput, RowsHaveReports
<1> USE DEF TypeOK, reportVars
<1>1. ASSUME NEW q \in Reports, Ingest(q) \/ RetryTriage(q) \/ Delete(q) PROVE output'[r]
  BY <1>0, <1>1 DEF Ingest, RetryTriage, Delete
<1>2. ASSUME NEW q \in Reports, Enqueue(q) \/ ReadStep(q)
      PROVE  output'[r]
  BY <1>0, <1>2 DEF Enqueue, ReadStep, ReadStatus, ReadClusters, ReadClassifications
<1>3. CASE Crash \/ UNCHANGED vars
  BY <1>0, <1>3 DEF Crash, vars
<1>4. ASSUME NEW i \in Slots, JobStep(i) PROVE output'[r]
  <2>1. slot[i] \in Jobs /\ failing' = failing
    BY <1>4, JobFrame
  <2>2. output[r] => output'[r]
    BY <1>4 DEF JobStep, Claim, MarkPending, Fetch, Persist, Complete, CompleteEmpty, Fail,
         MarkSettled
  <2>3. CASE triage[r] = "complete"
    BY <1>0, <2>1, <2>2, <2>3
  <2>4. CASE triage[r] # "complete"
    <3>1. slot[i].report = r
      BY <1>4, <2>4, JobFrame
    <3>2. Complete(i) \/ CompleteEmpty(i)
      BY <1>4, <2>1, <2>4, <3>1 DEF JobStep, Claim, MarkPending, Fetch, Persist, Fail,
           MarkSettled, Settle
    <3>3. triage[r] = "pending"
      BY <2>4, <3>1, <3>2 DEF Complete, CompleteEmpty, Settle
    <3>4. CASE Complete(i)
      <4>1. output[r]
        BY <1>0, <3>1, <3>3, <3>4 DEF PoolIsSound, JobIsSound, Complete
      <4> QED BY <2>2, <4>1
    <3>5. CASE CompleteEmpty(i)
      <4>1. ~failing[r]
        BY <1>0, <2>1, <3>1, <3>3, <3>5
           DEF PoolIsSound, JobIsSound, NoFailures, CompleteEmpty
      <4> QED BY <2>1, <4>1
    <3> QED BY <3>2, <3>4, <3>5
  <2> QED BY <2>3, <2>4
<1> HIDE DEF TypeOK, reportVars
<1> QED BY <1>1, <1>2, <1>3, <1>4 DEF Next

(* Rows and jobs agree (see PoolAgreesWithRows). *)
LEMMA RowsAndJobs == Spec => []PoolIsSound
<1>1. Init => PoolIsSound
  BY DEF Init, PoolIsSound, RowsHaveReports, JobIsSound, ClaimIsExclusive, WorksOn,
         CompleteHasOutput
<1>2. TypeOK /\ PoolIsSound /\ [Next]_vars => PoolIsSound'
  <2> SUFFICES ASSUME TypeOK, PoolIsSound, [Next]_vars PROVE PoolIsSound'
    OBVIOUS
  <2>1. RowsHaveReports' /\ ClaimIsExclusive'
    BY RowsHaveReportsKept, ClaimIsExclusiveKept
  <2>2. \A i \in Slots : JobIsSound(i)'
    BY JobsStaySound
  <2>3. CompleteHasOutput'
    BY CompleteHasOutputKept DEF CompleteHasOutput
  <2> QED BY <2>1, <2>2, <2>3 DEF PoolIsSound
<1> QED
  BY <1>1, <1>2, TypeCorrect, PTL DEF Spec

(* One job at a time works on a report, and its claim holds till it settles. *)
THEOREM ExclusiveClaims == Spec => []ClaimIsExclusive
<1>1. PoolIsSound => ClaimIsExclusive
  BY DEF PoolIsSound
<1> QED BY <1>1, RowsAndJobs, PTL

(* A triage that reads complete has its clusters and classifications. *)
THEOREM CompleteIsBacked == Spec => []CompleteHasOutput
<1>1. PoolIsSound => CompleteHasOutput
  BY DEF PoolIsSound
<1> QED BY <1>1, RowsAndJobs, PTL

-----------------------------------------------------------------------------
(***************************************************************************)
(* What has still to be claimed.                                           *)
(***************************************************************************)
Queued(i, r) == slot[i].report = r /\ slot[i].at = "claim"

Waits(r) == handler[r] = "enqueue" \/ \E i \in Slots : Queued(i, r)

\* At most one request for a triage waits to be claimed, be it still with its
\* handler or already with a job, and until it is the row has no verdict and
\* nobody works on the report.
QueueIsSound ==
  \A r \in Reports :
    /\ Waits(r) => triage[r] \notin Verdicts /\ \A i \in Slots : ~WorksOn(i, r)
    /\ \A i \in Slots : Queued(i, r) => /\ handler[r] = "idle"
                                        /\ \A j \in Slots \ {i} : ~Queued(j, r)

(* A job in the queue leaves it by its claim, and no job goes back.        *)
LEMMA QueueMoves ==
  ASSUME TypeOK, NEW i \in Slots, JobStep(i), NEW r \in Reports
  PROVE  /\ ~Queued(i, r)'
         /\ Queued(i, r) => Claim(i)
         /\ triage[r] \in Verdicts /\ triage'[r] # triage[r] => Queued(i, r)
         /\ triage'[r] \in Verdicts /\ triage[r] \notin Verdicts => WorksOn(i, r)
         /\ WorksOn(i, r)' => WorksOn(i, r) \/ Queued(i, r)
<1> USE DEF TypeOK, Queued, WorksOn, Goto, Release, Announce
<1>1. slot[i] \in Jobs
  BY JobFrame
<1>2. CASE slot[i].report # r
  BY <1>2, JobFrame
<1>3. CASE slot[i].report = r
  <2>1. CASE Claim(i) BY <1>1, <1>3, <2>1 DEF Claim
  <2>2. CASE MarkPending(i) BY <1>1, <1>3, <2>2 DEF MarkPending
  <2>3. CASE Fetch(i) BY <1>1, <1>3, <2>3 DEF Fetch
  <2>4. CASE Persist(i) BY <1>1, <1>3, <2>4 DEF Persist
  <2>5. CASE Complete(i) BY <1>1, <1>3, <2>5 DEF Complete, Settle
  <2>6. CASE CompleteEmpty(i) BY <1>1, <1>3, <2>6 DEF CompleteEmpty, Settle
  <2>7. CASE Fail(i) BY <1>1, <1>3, <2>7 DEF Fail, Settle
  <2>8. CASE MarkSettled(i) BY <1>1, <1>3, <2>8 DEF MarkSettled
  <2> QED
    BY <2>1, <2>2, <2>3, <2>4, <2>5, <2>6, <2>7, <2>8 DEF JobStep
<1> QED BY <1>2, <1>3

(* The queue stays sound: only a report with a verdict, which nobody works *)
(* on, can be retried, and a new report has no row.                        *)
LEMMA QueueIsSoundKept ==
  ASSUME TypeOK, PoolIsSound, QueueIsSound, [Next]_vars
  PROVE  QueueIsSound'
<1> DEFINE Sound(r) ==
             /\ Waits(r) => triage[r] \notin Verdicts /\ \A i \in Slots : ~WorksOn(i, r)
             /\ \A i \in Slots : Queued(i, r) => /\ handler[r] = "idle"
                                                 /\ \A j \in Slots \ {i} : ~Queued(j, r)
<1> SUFFICES ASSUME NEW r \in Reports
             PROVE  Sound(r)'
  BY DEF QueueIsSound
<1>0. Sound(r)
  BY DEF QueueIsSound
<1> USE DEF TypeOK, reportVars
<1>1. ASSUME UNCHANGED <<triage, handler, slot>> PROVE Sound(r)'
  BY <1>0, <1>1 DEF Waits, Queued, WorksOn
<1>2. ASSUME NEW q \in Reports, Ingest(q) \/ RetryTriage(q) PROVE Sound(r)'
  <2>1. /\ handler' = [handler EXCEPT ![q] = "enqueue"] /\ slot' = slot /\ triage'[q] \notin Verdicts
        /\ \A p \in Reports \ {q} : triage'[p] = triage[p]
    <3>1. CASE Ingest(q)
      <4>1. triage[q] = "none"
        BY <1>2, <3>1 DEF Ingest, PoolIsSound, RowsHaveReports
      <4> QED BY <3>1, <4>1 DEF Ingest, Verdicts
    <3>2. CASE RetryTriage(q)
      BY <3>2 DEF RetryTriage, Verdicts
    <3> QED BY <1>2, <3>1, <3>2
  <2>2. CASE q # r
    BY <1>0, <2>1, <2>2 DEF Waits, Queued, WorksOn
  <2>3. CASE q = r
    <3>1. \A i \in Slots : ~Queued(i, r) /\ ~WorksOn(i, r)
      <4>1. CASE Ingest(r)
        <5>1. \A i \in Slots : slot[i] # Free => slot[i].report # r
          BY <4>1 DEF Ingest, PoolIsSound, JobIsSound
        <5> QED BY <5>1 DEF Queued, WorksOn, Free, Working
      <4>2. CASE RetryTriage(r)
        <5>1. triage[r] \in Verdicts /\ present[r] = "stored" /\ triage[r] # "pending"
          BY <4>2 DEF RetryTriage, PoolIsSound, RowsHaveReports, Verdicts
        <5>2. \A i \in Slots : ~WorksOn(i, r)
          BY <5>1 DEF PoolIsSound, ClaimIsExclusive
        <5> QED BY <1>0, <5>1, <5>2 DEF Waits
      <4> QED BY <1>2, <2>3, <4>1, <4>2
    <3> QED BY <2>1, <2>3, <3>1 DEF Waits, Queued, WorksOn
  <2> QED BY <2>2, <2>3
<1>3. ASSUME NEW q \in Reports, Enqueue(q) PROVE Sound(r)'
  <2>1. /\ handler[q] = "enqueue" /\ handler' = [handler EXCEPT ![q] = "idle"] /\ triage' = triage
        /\ \/ slot' = slot
           \/ \E i \in Slots : slot' = [slot EXCEPT ![i] = [Free EXCEPT !.report = q, !.at = "claim"]]
    BY <1>3 DEF Enqueue
  <2>2. CASE slot' = slot
    BY <1>0, <2>1, <2>2 DEF Waits, Queued, WorksOn
  <2>3. ASSUME NEW i \in Slots, slot' = [slot EXCEPT ![i] = [Free EXCEPT !.report = q, !.at = "claim"]]
        PROVE  Sound(r)'
    <3>1. slot'[i].report = q /\ slot'[i].at = "claim" /\ \A j \in Slots \ {i} : slot'[j] = slot[j]
      BY <2>3 DEF Free
    <3>2. CASE q # r
      <4>1. handler'[r] = handler[r] /\ triage'[r] = triage[r]
        BY <2>1, <3>2
      <4>2. \A j \in Slots : (Queued(j, r)' => Queued(j, r)) /\ (WorksOn(j, r)' => WorksOn(j, r))
        BY <3>1, <3>2 DEF Queued, WorksOn
      <4>3. Waits(r)' => Waits(r)
        BY <4>1, <4>2 DEF Waits
      <4> QED BY <1>0, <4>1, <4>2, <4>3
    <3>3. CASE q = r
      <4>1. triage[r] \notin Verdicts /\ \A j \in Slots : ~WorksOn(j, r) /\ ~Queued(j, r)
        BY <1>0, <2>1, <3>3 DEF Waits
      <4>2. handler'[r] = "idle" /\ triage'[r] \notin Verdicts
        BY <2>1, <3>3, <4>1
      <4>3. \A j \in Slots : ~WorksOn(j, r)' /\ (j # i => ~Queued(j, r)')
        BY <3>1, <4>1 DEF Queued, WorksOn, Working
      <4> QED BY <4>2, <4>3
    <3> QED BY <3>2, <3>3
  <2> QED BY <2>1, <2>2, <2>3
<1>4. ASSUME NEW q \in Reports, Delete(q) PROVE Sound(r)'
  <2>1. triage'[r] \in {triage[r], "none"} /\ UNCHANGED <<handler, slot>>
    BY <1>4 DEF Delete
  <2> QED BY <1>0, <2>1 DEF Waits, Queued, WorksOn, Verdicts
<1>5. ASSUME NEW k \in Slots, JobStep(k) PROVE Sound(r)'
  <2>1. /\ handler' = handler /\ \A j \in Slots \ {k} : slot'[j] = slot[j]
    BY <1>5, JobFrame
  <2>2. /\ ~Queued(k, r)'
        /\ triage'[r] \in Verdicts /\ triage[r] \notin Verdicts => WorksOn(k, r)
        /\ WorksOn(k, r)' => WorksOn(k, r) \/ Queued(k, r)
    BY <1>5, QueueMoves
  <2>3. \A j \in Slots \ {k} : (Queued(j, r)' <=> Queued(j, r)) /\ (WorksOn(j, r)' <=> WorksOn(j, r))
    BY <2>1 DEF Queued, WorksOn
  <2>4. Waits(r)' => Waits(r) /\ ~Queued(k, r)
    <3>1. ASSUME handler[r] = "enqueue" PROVE ~Queued(k, r)
      BY <1>0, <3>1
    <3>2. ASSUME NEW j \in Slots, Queued(j, r)' PROVE j # k /\ Queued(j, r) /\ ~Queued(k, r)
      <4>1. j # k /\ Queued(j, r)
        BY <2>2, <2>3, <3>2
      <4> QED BY <1>0, <4>1
    <3> QED BY <2>1, <3>1, <3>2 DEF Waits
  <2>5. Waits(r)' => triage'[r] \notin Verdicts /\ \A i \in Slots : ~WorksOn(i, r)'
    BY <1>0, <2>2, <2>3, <2>4
  <2>6. ASSUME NEW i \in Slots, Queued(i, r)'
        PROVE  handler'[r] = "idle" /\ \A j \in Slots \ {i} : ~Queued(j, r)'
    BY <1>0, <2>1, <2>2, <2>3, <2>6
  <2> QED BY <2>5, <2>6
<1>6. CASE Crash
  BY <1>6 DEF Crash, Waits, Queued, Free
<1>7. ASSUME NEW q \in Reports, ReadStep(q)
      PROVE  UNCHANGED <<triage, handler, slot>>
  BY <1>7 DEF ReadStep, ReadStatus, ReadClusters, ReadClassifications
<1> HIDE DEF TypeOK, reportVars, Sound
<1> QED
  BY <1>1, <1>2, <1>3, <1>4, <1>5, <1>6, <1>7 DEF Next, vars

LEMMA QueueSound == Spec => []QueueIsSound
<1>1. Init => QueueIsSound
  BY DEF Init, QueueIsSound, Waits, Queued, Free
<1>2. TypeOK /\ PoolIsSound /\ QueueIsSound /\ [Next]_vars => QueueIsSound'
  BY QueueIsSoundKept
<1> QED BY <1>1, <1>2, TypeCorrect, RowsAndJobs, PTL DEF Spec

(* No job overwrites a verdict: the one that could, by claiming a report   *)
(* whose triage has failed, would have been enqueued before the verdict,   *)
(* and the claim that led to the verdict left nothing in the queue.        *)
THEOREM VerdictsStand == Spec => VerdictStandsUntilRetry
<1> DEFINE Stands == \A r \in Reports :
             triage[r] \in Verdicts /\ triage'[r] # triage[r]
               => \/ triage'[r] = "pending" /\ handler'[r] = "enqueue"
                  \/ present'[r] = "deleted"
<1>1. TypeOK /\ QueueIsSound /\ [Next]_vars => [Stands]_vars
  <2> SUFFICES ASSUME TypeOK, QueueIsSound, [Next]_vars, NEW r \in Reports,
                      triage[r] \in Verdicts, triage'[r] # triage[r]
               PROVE  \/ triage'[r] = "pending" /\ handler'[r] = "enqueue"
                      \/ present'[r] = "deleted"
    OBVIOUS
  <2> USE DEF TypeOK
  <2>1. ASSUME NEW q \in Reports, Ingest(q) \/ Enqueue(q) \/ ReadStep(q) PROVE FALSE
    BY <2>1 DEF Ingest, Enqueue, ReadStep, ReadStatus, ReadClusters, ReadClassifications
  <2>2. ASSUME NEW q \in Reports, RetryTriage(q)
        PROVE  triage'[r] = "pending" /\ handler'[r] = "enqueue"
    BY <2>2 DEF RetryTriage
  <2>3. ASSUME NEW q \in Reports, Delete(q) PROVE present'[r] = "deleted"
    BY <2>3 DEF Delete
  <2>4. ASSUME NEW i \in Slots, JobStep(i) PROVE FALSE
    <3>1. Queued(i, r)
      BY <2>4, QueueMoves
    <3> QED BY <3>1 DEF QueueIsSound, Waits
  <2>5. CASE Crash \/ UNCHANGED vars
    BY <2>5 DEF Crash, vars
  <2> QED BY <2>1, <2>2, <2>3, <2>4, <2>5 DEF Next
<1> QED
  BY <1>1, QueueSound, TypeCorrect, PTL DEF Spec, VerdictStandsUntilRetry

-----------------------------------------------------------------------------
(***************************************************************************)
(* What a reader puts together.                                            *)
(***************************************************************************)
Reading(r) == reader[r].at \in {"clusters", "classifications"}

\* Once a verdict was read no job works on the report nor can claim it; the
\* output can only go away, so what the second statement missed the third does.
ReadIsSettled(r) ==
  /\ Reading(r) => /\ present[r] = "deleted" \/ triage[r] \in Verdicts \cup {"pending"}
                   /\ \A i \in Slots : ~WorksOn(i, r)
  /\ reader[r].at = "classifications" /\ ~reader[r].clusters => ~output[r]
  /\ reader[r].at = "answered" /\ reader[r].classifications => reader[r].clusters

LEMMA ReadStaysSettled ==
  ASSUME TypeOK, PoolIsSound, QueueIsSound, [Next]_vars,
         NEW r \in Reports, ReadIsSettled(r)
  PROVE  ReadIsSettled(r)'
<1> USE DEF TypeOK, reportVars
<1>0. /\ triage[r] # "none" => present[r] = "stored"
      /\ triage[r] \in Verdicts => \A i \in Slots : ~WorksOn(i, r)
  BY DEF PoolIsSound, RowsHaveReports, ClaimIsExclusive
<1>1. ASSUME reader' = reader, present'[r] = present[r] \/ present'[r] = "deleted",
             \/ present'[r] = "deleted" \/ triage'[r] = triage[r]
             \/ triage'[r] \in Verdicts \cup {"pending"},
             output'[r] => output[r], \A i \in Slots : WorksOn(i, r)' => WorksOn(i, r)
      PROVE  ReadIsSettled(r)'
  BY <1>1 DEF ReadIsSettled, Reading
<1>2. ASSUME NEW q \in Reports, ReadStep(q) PROVE ReadIsSettled(r)'
  <2>0. UNCHANGED <<present, triage, output, slot>> /\ \A i \in Slots : WorksOn(i, r)' = WorksOn(i, r)
    BY <1>2 DEF ReadStep, ReadStatus, ReadClusters, ReadClassifications, WorksOn
  <2>1. CASE q # r
    <3>1. reader'[r] = reader[r]
      BY <1>2, <2>1 DEF ReadStep, ReadStatus, ReadClusters, ReadClassifications
    <3> QED BY <2>0, <3>1 DEF ReadIsSettled, Reading
  <2>2. CASE q = r /\ ReadStatus(r)
    <3>1. reader'[r].at = "clusters" /\ triage[r] \in Verdicts
      BY <2>2 DEF ReadStatus
    <3> QED BY <1>0, <2>0, <3>1 DEF ReadIsSettled, Reading
  <2>3. CASE q = r /\ ReadClusters(r)
    <3>1. reader[r].at = "clusters" /\ reader'[r].at = "classifications" /\ reader'[r].clusters = output[r]
      BY <2>3 DEF ReadClusters, Readers
    <3> QED BY <2>0, <3>1 DEF ReadIsSettled, Reading
  <2>4. CASE q = r /\ ReadClassifications(r)
    <3>1. /\ reader[r].at = "classifications" /\ reader'[r].at = "answered"
          /\ reader'[r].clusters = reader[r].clusters /\ reader'[r].classifications = output[r]
      BY <2>4 DEF ReadClassifications, Readers
    <3> QED BY <2>0, <3>1 DEF ReadIsSettled, Reading
  <2> QED BY <1>2, <2>1, <2>2, <2>3, <2>4 DEF ReadStep
<1>3. ASSUME NEW q \in Reports, Ingest(q) PROVE ReadIsSettled(r)'
  <2>1. UNCHANGED <<triage, output, reader, slot>> /\ \A p \in Reports \ {q} : present'[p] = present[p]
    BY <1>3 DEF Ingest
  <2>2. q = r => triage[r] = "none" /\ present[r] = "none"
    BY <1>0, <1>3 DEF Ingest
  <2>3. ~(q = r /\ Reading(r))
    BY <2>2 DEF ReadIsSettled, Verdicts
  <2> QED BY <2>1, <2>3 DEF ReadIsSettled, Reading, WorksOn
<1>4. ASSUME NEW q \in Reports, RetryTriage(q) \/ Delete(q) PROVE ReadIsSettled(r)'
  BY <1>1, <1>4 DEF RetryTriage, Delete, WorksOn
<1>5. ASSUME NEW q \in Reports, Enqueue(q) PROVE ReadIsSettled(r)'
  <2>1. \A i \in Slots : slot'[i] = slot[i] \/ slot'[i].at = "claim"
    BY <1>5 DEF Enqueue
  <2>2. \A i \in Slots : WorksOn(i, r)' => WorksOn(i, r)
    BY <2>1 DEF WorksOn
  <2> QED BY <1>1, <1>5, <2>2 DEF Enqueue
<1>6. CASE Crash
  BY <1>6 DEF Crash, ReadIsSettled, Reading
<1>7. CASE UNCHANGED vars
  BY <1>1, <1>7 DEF vars, WorksOn
<1>8. ASSUME NEW k \in Slots, JobStep(k) PROVE ReadIsSettled(r)'
  <2>0. reader' = reader /\ present' = present /\ \A j \in Slots \ {k} : slot'[j] = slot[j]
    BY <1>8, JobFrame DEF JobStep, Claim, MarkPending, Fetch, Persist, Complete, CompleteEmpty, Fail,
         MarkSettled
  <2>1. CASE ~Reading(r)
    BY <2>0, <2>1 DEF ReadIsSettled, Reading
  <2>2. CASE Reading(r)
    <3>1. ~WorksOn(k, r) /\ (present[r] = "deleted" \/ triage[r] \in Verdicts \cup {"pending"})
      BY <2>2 DEF ReadIsSettled
    <3>2. ~WorksOn(k, r)'
      <4>1. SUFFICES ASSUME WorksOn(k, r)' PROVE FALSE
        OBVIOUS
      <4>2. Queued(k, r) /\ present[r] = "stored" /\ triage[r] = "failed"
        BY <1>8, <3>1, <4>1, QueueMoves, WorkingJob
      <4> QED BY <4>2 DEF QueueIsSound, Waits, Verdicts
    <3>3. output'[r] = output[r]
      BY <1>8, <3>1 DEF JobStep, Claim, MarkPending, Fetch, Persist, Complete, CompleteEmpty, Fail,
           MarkSettled, WorksOn, Working
    <3>4. triage'[r] = triage[r] \/ triage'[r] \in Verdicts \cup {"pending"}
      BY <1>8 DEF JobStep, Claim, MarkPending, Fetch, Persist, Complete, CompleteEmpty, Fail,
           MarkSettled, Settle
    <3>5. \A i \in Slots : WorksOn(i, r)' => WorksOn(i, r)
      BY <2>0, <3>2 DEF WorksOn
    <3> QED BY <1>1, <2>0, <3>3, <3>4, <3>5
  <2> QED BY <2>1, <2>2
<1> HIDE DEF TypeOK, reportVars
<1> QED BY <1>2, <1>3, <1>4, <1>5, <1>6, <1>7, <1>8 DEF Next

(* The pool agrees with the rows, and an answer with itself.               *)
THEOREM PoolInvariant == Spec => []PoolAgreesWithRows
<1> DEFINE Settled == \A r \in Reports : ReadIsSettled(r)
<1>1. Init => Settled
  BY DEF Init, ReadIsSettled, Reading
<1>2. TypeOK /\ PoolIsSound /\ QueueIsSound /\ Settled /\ [Next]_vars => Settled'
  BY ReadStaysSettled
<1>3. PoolIsSound /\ Settled => PoolAgreesWithRows
  BY DEF PoolIsSound, PoolAgreesWithRows, ReadIsSettled, AnswersAreWhole
<1> QED
  BY <1>1, <1>2, <1>3, QueueSound, RowsAndJobs, TypeCorrect, PTL DEF Spec

-----------------------------------------------------------------------------
(***************************************************************************)
(* The end of a job.                                                       *)
(***************************************************************************)
\* How many statements a job has before it at most.
Left(job) ==
  CASE job.at = "claim"    -> 6
    [] job.at = "mirror"   -> 5
    [] job.at = "fetch"    -> 4
    [] job.at = "persist"  -> 3
    [] job.at \in {"complete", "empty", "fail"} -> 2
    [] job.at = "announce" -> 1
    [] OTHER               -> 0

LEMMA JobStepRunsDown ==
  ASSUME slot \in SlotType, NEW i \in Slots, JobStep(i)
  PROVE  /\ \A j \in Slots \ {i} : slot'[j] = slot[j]
         /\ slot[i].at # "free" /\ Left(slot'[i]) < Left(slot[i])
<1> USE DEF SlotType, Goto, Release, Announce
<1> DEFINE Goal == /\ \A j \in Slots \ {i} : slot'[j] = slot[j]
                   /\ slot[i].at # "free" /\ Left(slot'[i]) < Left(slot[i])
<1>0. ASSUME NEW n \in Jobs \cup {Free}, slot' = [slot EXCEPT ![i] = n],
             slot[i].at # "free", Left(n) < Left(slot[i])
      PROVE  Goal
  BY <1>0
<1>1. slot[i] \in Jobs \cup {Free}
  OBVIOUS
<1>2. ASSUME NEW stage \in Stages, Goto(i, stage), slot[i].at # "free",
             Left([slot[i] EXCEPT !.at = stage]) < Left(slot[i])
      PROVE  Goal
  BY <1>1, <1>2
<1>3. ASSUME Release(i), slot[i].at # "free" PROVE Goal
  <2>1. slot[i] \in Jobs /\ slot[i].at \in Stages
    BY <1>1, <1>3
  <2>2. Left(Free) = 0 /\ Left(slot[i]) > 0
    BY <2>1 DEF Left
  <2> QED BY <1>0, <1>3, <2>2
<1>4. ASSUME NEW verdict \in Verdicts, Announce(i, verdict),
             slot[i].at \in {"complete", "empty", "fail"}
      PROVE  Goal
  <2> DEFINE n == [slot[i] EXCEPT !.at = "announce", !.verdict = verdict]
  <2>0. slot[i] \in Jobs
    BY <1>1, <1>4
  <2>1. slot' = [slot EXCEPT ![i] = n] /\ n \in Jobs /\ n.at = "announce"
    BY <1>4, <2>0
  <2>2. Left(n) = 1 /\ Left(slot[i]) = 2
    BY <1>4, <2>1 DEF Left
  <2> HIDE DEF n
  <2> QED BY <1>0, <1>4, <2>1, <2>2
<1>5. ASSUME NEW from \in Stages, NEW stage \in Stages, slot[i].at = from, Goto(i, stage),
             \/ from = "claim" /\ stage = "mirror"
             \/ from = "mirror" /\ stage = "fetch"
             \/ from = "fetch" /\ stage \in {"empty", "fail"}
             \/ from = "persist" /\ stage \in {"complete", "fail"}
      PROVE  Goal
  <2> DEFINE n == [slot[i] EXCEPT !.at = stage]
  <2>1. slot[i] \in Jobs /\ n.at = stage
    BY <1>1, <1>5
  <2>2. Left(n) < Left(slot[i])
    BY <1>5, <2>1 DEF Left
  <2> QED BY <1>2, <1>5, <2>2
<1>6. CASE Claim(i) BY <1>3, <1>5, <1>6 DEF Claim
<1>7. CASE MarkPending(i) BY <1>5, <1>7 DEF MarkPending
<1>8. CASE Fetch(i)
  <2>1. ASSUME Goto(i, "empty") \/ Goto(i, "fail") PROVE Goal
    BY <1>5, <1>8, <2>1 DEF Fetch
  <2>2. ASSUME NEW ok \in BOOLEAN, slot' = [slot EXCEPT ![i].at = "persist", ![i].ok = ok]
        PROVE  Goal
    <3> DEFINE n == [slot[i] EXCEPT !.at = "persist", !.ok = ok]
    <3>1. slot[i] \in Jobs /\ slot[i].at = "fetch"
      BY <1>1, <1>8 DEF Fetch
    <3>2. n \in Jobs /\ n.at = "persist" /\ slot' = [slot EXCEPT ![i] = n]
      BY <2>2, <3>1
    <3>3. Left(n) = 3 /\ Left(slot[i]) = 4
      BY <3>1, <3>2 DEF Left
    <3> HIDE DEF n
    <3> QED BY <1>0, <3>1, <3>2, <3>3
  <2> QED BY <1>8, <2>1, <2>2 DEF Fetch
<1>9. CASE Persist(i)
  <2>1. slot[i].at = "persist" /\ (Goto(i, "complete") \/ Goto(i, "fail"))
    BY <1>9 DEF Persist
  <2> QED BY <1>5, <2>1
<1>10. CASE Complete(i) BY <1>3, <1>4, <1>10 DEF Complete
<1>11. CASE CompleteEmpty(i) BY <1>4, <1>11 DEF CompleteEmpty
<1>12. CASE Fail(i) BY <1>4, <1>12 DEF Fail
<1>13. CASE MarkSettled(i) BY <1>3, <1>13 DEF MarkSettled
<1> QED BY <1>6, <1>7, <1>8, <1>9, <1>10, <1>11, <1>12, <1>13 DEF JobStep

RunsDown(i) ==
  slot'[i] = slot[i] \/ slot[i] = Free \/ Left(slot'[i]) < Left(slot[i])

LEMMA StepRunsDown ==
  ASSUME TypeOK, [Next]_vars, NEW i \in Slots
  PROVE  RunsDown(i)
<1>0. slot \in SlotType
  BY DEF TypeOK, SlotType
<1>1. ASSUME NEW r \in Reports, Enqueue(r) PROVE RunsDown(i)
  BY <1>0, <1>1 DEF Enqueue, SlotType, RunsDown
<1>2. ASSUME NEW j \in Slots, JobStep(j) PROVE RunsDown(i)
  BY <1>0, <1>2, JobStepRunsDown DEF RunsDown
<1>3. ASSUME Crash PROVE RunsDown(i)
  <2>1. slot'[i] = Free /\ slot[i] \in Jobs \cup {Free}
    BY <1>0, <1>3 DEF Crash, SlotType
  <2>2. CASE slot[i] \in Jobs
    <3>1. slot[i].at \in Stages
      BY <2>2
    <3>2. Left(Free) = 0 /\ Left(slot[i]) > 0
      BY <3>1 DEF Left
    <3> QED BY <2>1, <3>2 DEF RunsDown
  <2> QED BY <2>1, <2>2 DEF RunsDown
<1>4. ASSUME NEW r \in Reports,
             Ingest(r) \/ RetryTriage(r) \/ Delete(r) \/ ReadStep(r)
      PROVE  RunsDown(i)
  BY <1>4 DEF Ingest, RetryTriage, Delete, ReadStep, ReadStatus, ReadClusters, ReadClassifications, RunsDown
<1>5. CASE UNCHANGED vars
  BY <1>5 DEF vars, RunsDown
<1> QED BY <1>1, <1>2, <1>3, <1>4, <1>5 DEF Next

(* A job runs down: a slot that is taken changes only for a job with fewer  *)
(* statements left, of which there are six at most, whatever fails and      *)
(* whatever the handlers do.  Fairness does the rest of SlotsAreReturned.   *)
THEOREM JobsRunDown == Spec => [][\A i \in Slots : RunsDown(i)]_vars
<1>1. TypeOK /\ [Next]_vars => [\A i \in Slots : RunsDown(i)]_vars
  BY StepRunsDown
<1> QED BY <1>1, TypeCorrect, PTL DEF Spec

-----------------------------------------------------------------------------
(***************************************************************************)
(* Engine: the entries of an answer, in order.                             *)
(***************************************************************************)
EntriesOfAnswers == [cluster : Nat, id : STRING, word : STRING]

\* f[i] is the concatenation of the first i of n pieces.
Joins(f, pieces, n) ==
  f = [i \in 1 .. n |-> IF i = 1 THEN pieces[i] ELSE f[i - 1] \o pieces[i]]

LEMMA ElementIn ==
  ASSUME NEW S, NEW s \in Seq(S), NEW k \in 1 .. Len(s)
  PROVE  s[k] \in S
OBVIOUS

LEMMA JoinsExist ==
  ASSUME NEW pieces, NEW n \in Nat, n > 0
  PROVE  \E f : Joins(f, pieces, n)
<1> DEFINE B == {m \in Nat : m > 0 /\ ~ \E f : Joins(f, pieces, m)}
<1> SUFFICES ASSUME B # {} PROVE FALSE
  OBVIOUS
<1>0. B \subseteq Nat
  OBVIOUS
<1> HIDE DEF B
<1>1. PICK m \in B : \A l \in B : m <= l
  BY <1>0, LeastNumber
<1> USE DEF B
<1>2. CASE m = 1
  <2> DEFINE f == [i \in 1 .. 1 |-> pieces[i]]
  <2>1. Joins(f, pieces, 1)
    BY DEF Joins
  <2> QED BY <1>2, <2>1
<1>3. CASE m > 1
  <2>1. m - 1 \in Nat /\ m - 1 > 0 /\ m - 1 \notin B
    BY <1>1, <1>3
  <2>2. PICK f : Joins(f, pieces, m - 1)
    BY <2>1
  <2> DEFINE g == [i \in 1 .. m |-> IF i = 1 THEN pieces[i] ELSE f[i - 1] \o pieces[i]]
  <2>3. ASSUME NEW i \in 1 .. m, i # 1 PROVE g[i - 1] = f[i - 1]
    <3>1. i - 1 \in 1 .. m - 1 /\ i - 1 \in 1 .. m
      BY <2>3
    <3>2. f[i - 1] = IF i - 1 = 1 THEN pieces[i - 1] ELSE f[(i - 1) - 1] \o pieces[i - 1]
      BY <2>2, <3>1 DEF Joins
    <3> QED BY <3>1, <3>2
  <2>4. \A i \in 1 .. m : g[i] = IF i = 1 THEN pieces[i] ELSE g[i - 1] \o pieces[i]
    BY <2>3
  <2> HIDE DEF g
  <2>5. g = [i \in 1 .. m |-> g[i]]
    BY DEF g
  <2>6. Joins(g, pieces, m)
    BY <2>4, <2>5 DEF Joins
  <2> QED BY <2>6
<1> QED BY <1>1, <1>2, <1>3

\* x has the entries of the first n pieces, and no cluster before an earlier one.
Joined(x, pieces, n) ==
  /\ x \in Seq(EntriesOfAnswers)
  /\ \A j \in DOMAIN x : \E c \in 1 .. n : \E k \in DOMAIN pieces[c] : x[j] = pieces[c][k]
  /\ \A c \in 1 .. n : \A k \in DOMAIN pieces[c] : \E j \in DOMAIN x : x[j] = pieces[c][k]
  /\ \A i, j \in DOMAIN x : i <= j => x[i].cluster <= x[j].cluster

LEMMA JoinOne ==
  ASSUME NEW pieces, NEW n \in Nat, NEW x, Joined(x, pieces, n),
         pieces[n + 1] \in Seq(EntriesOfAnswers),
         \A c \in 1 .. n + 1 : \A k \in DOMAIN pieces[c] : pieces[c][k].cluster = c - 1
  PROVE  Joined(x \o pieces[n + 1], pieces, n + 1)
<1> DEFINE y == pieces[n + 1]
           z == x \o y
<1>0. x \in Seq(EntriesOfAnswers) /\ y \in Seq(EntriesOfAnswers)
  BY DEF Joined
<1>1. 1 .. n + 1 = (1 .. n) \cup {n + 1}
  OBVIOUS
<1>2. \A k \in DOMAIN y : y[k].cluster = n
  BY <1>1
<1>3. \A j \in DOMAIN x : x[j].cluster \in Nat /\ x[j].cluster < n
  <2> SUFFICES ASSUME NEW j \in DOMAIN x PROVE x[j].cluster \in Nat /\ x[j].cluster < n
    OBVIOUS
  <2>1. PICK c \in 1 .. n : \E k \in DOMAIN pieces[c] : x[j] = pieces[c][k]
    BY DEF Joined
  <2> QED BY <1>1, <2>1
<1>4. /\ \A c \in 1 .. n : \A k \in DOMAIN pieces[c] : \E j \in DOMAIN x : x[j] = pieces[c][k]
      /\ \A j \in DOMAIN x : \E c \in 1 .. n : \E k \in DOMAIN pieces[c] : x[j] = pieces[c][k]
      /\ \A i, j \in DOMAIN x : i <= j => x[i].cluster <= x[j].cluster
  BY DEF Joined
<1> HIDE DEF y
<1>5. /\ z \in Seq(EntriesOfAnswers)
      /\ DOMAIN x = 1 .. Len(x) /\ DOMAIN y = 1 .. Len(y) /\ DOMAIN z = 1 .. Len(x) + Len(y)
      /\ Len(x) \in Nat /\ Len(y) \in Nat
      /\ \A j \in 1 .. Len(x) : z[j] = x[j]
      /\ \A j \in 1 .. Len(y) : z[Len(x) + j] = y[j]
  BY <1>0
<1> HIDE DEF z
<1>6. \A j \in DOMAIN z : \/ j \in DOMAIN x /\ z[j] = x[j]
                          \/ j - Len(x) \in DOMAIN y /\ z[j] = y[j - Len(x)] /\ j \notin DOMAIN x
  <2> SUFFICES ASSUME NEW j \in DOMAIN z, j \notin DOMAIN x
               PROVE  j - Len(x) \in DOMAIN y /\ z[j] = y[j - Len(x)]
    BY <1>5
  <2>1. j - Len(x) \in 1 .. Len(y) /\ j = Len(x) + (j - Len(x))
    BY <1>5
  <2> QED BY <1>5, <2>1
<1>7. ASSUME NEW j \in DOMAIN z
      PROVE  \E c \in 1 .. n + 1 : \E k \in DOMAIN pieces[c] : z[j] = pieces[c][k]
  BY <1>1, <1>4, <1>6 DEF y
<1>8. ASSUME NEW c \in 1 .. n + 1, NEW k \in DOMAIN pieces[c]
      PROVE  \E j \in DOMAIN z : z[j] = pieces[c][k]
  <2>1. CASE c \in 1 .. n
    <3>1. PICK j \in DOMAIN x : x[j] = pieces[c][k]
      BY <1>4, <1>8, <2>1
    <3>2. j \in DOMAIN z /\ z[j] = x[j]
      BY <1>5, <3>1
    <3> QED BY <3>1, <3>2
  <2>2. CASE c = n + 1
    <3>1. k \in 1 .. Len(y) /\ pieces[c][k] = y[k]
      BY <1>5, <1>8, <2>2 DEF y
    <3>2. Len(x) + k \in DOMAIN z /\ z[Len(x) + k] = y[k]
      BY <1>5, <3>1
    <3> QED BY <3>1, <3>2
  <2> QED BY <1>1, <2>1, <2>2
<1>9. ASSUME NEW i \in DOMAIN z, NEW j \in DOMAIN z, i <= j
      PROVE  z[i].cluster <= z[j].cluster
  <2>1. CASE i \in DOMAIN x /\ j \in DOMAIN x
    BY <1>4, <1>5, <1>9, <2>1
  <2>2. CASE i \in DOMAIN x /\ j \notin DOMAIN x
    BY <1>2, <1>3, <1>6, <2>2
  <2>3. CASE i \notin DOMAIN x
    <3>1. j \notin DOMAIN x
      BY <1>5, <1>9, <2>3
    <3> QED BY <1>2, <1>6, <2>3, <3>1
  <2> QED BY <2>1, <2>2, <2>3
<1> QED BY <1>5, <1>7, <1>8, <1>9 DEF Joined, z, y

LEMMA JoinsKeep ==
  ASSUME NEW pieces, NEW n \in Nat, NEW f, Joins(f, pieces, n),
         \A c \in 1 .. n : pieces[c] \in Seq(EntriesOfAnswers),
         \A c \in 1 .. n : \A k \in DOMAIN pieces[c] : pieces[c][k].cluster = c - 1,
         NEW i \in 1 .. n
  PROVE  Joined(f[i], pieces, i)
<1> DEFINE B == {m \in 1 .. n : ~Joined(f[m], pieces, m)}
<1> SUFFICES ASSUME B # {} PROVE FALSE
  OBVIOUS
<1>0. B \subseteq Nat
  OBVIOUS
<1> HIDE DEF B
<1>1. PICK m \in B : \A l \in B : m <= l
  BY <1>0, LeastNumber
<1> USE DEF B
<1>2. m \in 1 .. n /\ f[m] = IF m = 1 THEN pieces[m] ELSE f[m - 1] \o pieces[m]
  BY DEF Joins
<1>3. CASE m = 1
  <2>1. f[m] = pieces[1] /\ pieces[1] \in Seq(EntriesOfAnswers) /\ 1 .. 1 = {1}
    BY <1>2, <1>3
  <2>2. \A k \in DOMAIN pieces[1] : pieces[1][k].cluster = 0
    BY <1>2, <1>3
  <2>3. Joined(pieces[1], pieces, 1)
    BY <2>1, <2>2 DEF Joined
  <2> QED BY <1>1, <1>3, <2>1, <2>3
<1>4. CASE m # 1
  <2>1. m - 1 \in 1 .. n /\ m - 1 \in Nat /\ (m - 1) + 1 = m /\ m - 1 \notin B
    BY <1>1, <1>2, <1>4
  <2>2. Joined(f[m - 1], pieces, m - 1)
    BY <2>1
  <2>3. \A c \in 1 .. m : c \in 1 .. n
    BY <1>2
  <2>4. Joined(f[m - 1] \o pieces[m], pieces, m)
    <3> DEFINE l == m - 1
    <3>1. l \in Nat /\ l + 1 = m /\ Joined(f[l], pieces, l)
      BY <2>1, <2>2
    <3>2. /\ pieces[l + 1] \in Seq(EntriesOfAnswers)
          /\ \A c \in 1 .. l + 1 : \A k \in DOMAIN pieces[c] : pieces[c][k].cluster = c - 1
      BY <1>2, <2>3, <3>1
    <3> HIDE DEF l
    <3>3. Joined(f[l] \o pieces[l + 1], pieces, l + 1)
      BY <3>1, <3>2, JoinOne
    <3> QED BY <3>1, <3>3 DEF l
  <2> QED BY <1>1, <1>2, <1>4, <2>4
<1> QED BY <1>3, <1>4

\* The pieces that Entries joins, a cluster each.
Pieces(answer) ==
  [c \in DOMAIN answer.clusters |->
     [k \in DOMAIN answer.clusters[c] |-> Entry(c, answer.clusters[c][k])]]

LEMMA EntriesJoined ==
  ASSUME NEW answer, answer.clusters \in Seq(Seq([id : STRING, word : STRING]))
  PROVE  Joined(Entries(answer), Pieces(answer), Len(answer.clusters))
<1> DEFINE cl == answer.clusters
           pieces == Pieces(answer)
           n == Len(cl)
<1>1. n \in Nat /\ DOMAIN cl = 1 .. n /\ \A c \in 1 .. n : cl[c] \in Seq([id : STRING, word : STRING])
  OBVIOUS
<1>2. ASSUME NEW c \in 1 .. n
      PROVE  /\ pieces[c] \in Seq(EntriesOfAnswers)
             /\ \A k \in DOMAIN pieces[c] : pieces[c][k].cluster = c - 1
  <2> DEFINE s == cl[c]
  <2>1. s \in Seq([id : STRING, word : STRING]) /\ Len(s) \in Nat /\ DOMAIN s = 1 .. Len(s)
    BY <1>1, <1>2
  <2>2. pieces[c] = [k \in DOMAIN s |-> Entry(c, s[k])]
    BY <1>1, <1>2 DEF Pieces
  <2> HIDE DEF s
  <2>3. \A k \in 1 .. Len(s) : Entry(c, s[k]) \in EntriesOfAnswers /\ Entry(c, s[k]).cluster = c - 1
    <3> SUFFICES ASSUME NEW k \in 1 .. Len(s)
                 PROVE  Entry(c, s[k]) \in EntriesOfAnswers /\ Entry(c, s[k]).cluster = c - 1
      OBVIOUS
    <3>0. s[k] \in [id : STRING, word : STRING]
      BY <2>1, ElementIn
    <3>1. s[k].id \in STRING /\ s[k].word \in STRING
      BY <3>0
    <3>2. c - 1 \in Nat
      BY <1>1
    <3> QED BY <3>1, <3>2 DEF Entry, EntriesOfAnswers
  <2> HIDE DEF pieces
  <2> QED BY <2>1, <2>2, <2>3
<1>3. Len(pieces) = n
  BY <1>1 DEF Pieces
<1>4. Entries(answer) = FlattenSeq(pieces)
  BY DEF Entries, Pieces
<1> HIDE DEF pieces, n
<1>5. CASE n = 0
  <2>1. DOMAIN pieces = 1 .. 0 /\ 1 .. 0 = {}
    BY <1>1, <1>5 DEF pieces, Pieces
  <2>2. Entries(answer) = pieces
    BY <1>3, <1>4, <1>5 DEF FlattenSeq
  <2>3. pieces \in Seq(EntriesOfAnswers)
    BY <1>1, <1>5 DEF pieces, Pieces
  <2> QED BY <1>5, <2>1, <2>2, <2>3 DEF Joined, pieces, n
<1>6. CASE n # 0
  <2> DEFINE f == CHOOSE g : Joins(g, pieces, n)
  <2>1. Entries(answer) = f[n]
    BY <1>3, <1>4, <1>6 DEF FlattenSeq, Joins
  <2>2. Joins(f, pieces, n)
    <3>1. n \in Nat /\ n > 0
      BY <1>1, <1>6
    <3>2. \E g : Joins(g, pieces, n)
      BY <3>1, JoinsExist
    <3> QED BY <3>2
  <2> HIDE DEF f
  <2>3. n \in 1 .. n
    BY <1>1, <1>6
  <2>4. Joined(f[n], pieces, n)
    BY <1>1, <1>2, <2>2, <2>3, JoinsKeep
  <2> QED BY <2>1, <2>4 DEF pieces, n
<1> QED BY <1>5, <1>6

-----------------------------------------------------------------------------
(***************************************************************************)
(* Engine: the map in which the entries are collected.                     *)
(***************************************************************************)
\* The first of the entries s that is about id.
IsFirst(j, entries, s, id) ==
  /\ j \in s /\ entries[j].id = id
  /\ \A i \in s : entries[i].id = id => j <= i

FirstFor(entries, s, id) == CHOOSE j : IsFirst(j, entries, s, id)

\* What is collected of the entries s: for each id, what the first of them says.
Collected(entries, s) ==
  [id \in {entries[j].id : j \in s} |-> Classification(entries[FirstFor(entries, s, id)])]

LEMMA FirstExists ==
  ASSUME NEW entries, NEW s, s \subseteq Nat, NEW id, \E j \in s : entries[j].id = id
  PROVE  IsFirst(FirstFor(entries, s, id), entries, s, id)
<1> DEFINE N == {j \in s : entries[j].id = id}
<1>1. N \subseteq Nat /\ N # {}
  OBVIOUS
<1> HIDE DEF N
<1>2. PICK j \in N : \A i \in N : j <= i
  BY <1>1, LeastNumber
<1>3. IsFirst(j, entries, s, id)
  BY <1>2 DEF N, IsFirst
<1> QED BY <1>3 DEF FirstFor

LEMMA FirstIsOne ==
  ASSUME NEW entries, NEW s, s \subseteq Nat, NEW id, NEW j, IsFirst(j, entries, s, id)
  PROVE  FirstFor(entries, s, id) = j
<1> DEFINE k == FirstFor(entries, s, id)
<1>1. IsFirst(k, entries, s, id)
  BY DEF FirstFor
<1> HIDE DEF k
<1>2. j <= k /\ k <= j /\ j \in Nat /\ k \in Nat
  BY <1>1 DEF IsFirst
<1> QED BY <1>2 DEF k

\* The last entry adds to the map only what no earlier one was about.
LEMMA LastIsCollected ==
  ASSUME NEW entries, NEW s, s \subseteq Nat, NEW m \in s, \A j \in s : j <= m
  PROVE  Collected(entries, s) = Collect(Collected(entries, s \ {m}), entries[m])
<1> DEFINE t == s \ {m}
           old == Collected(entries, t)
           new == Collect(old, entries[m])
           all == Collected(entries, s)
<1>0. s = t \cup {m} /\ m \notin t /\ t \subseteq Nat
  OBVIOUS
<1>1. DOMAIN old = {entries[j].id : j \in t}
  BY DEF Collected
<1>2. DOMAIN all = {entries[j].id : j \in s} /\ DOMAIN new = DOMAIN old \cup {entries[m].id}
  BY DEF Collected, Collect
<1>3. DOMAIN all = DOMAIN new
  BY <1>0, <1>1, <1>2
<1>4. ASSUME NEW id \in DOMAIN old PROVE all[id] = new[id]
  <2> DEFINE j == FirstFor(entries, t, id)
  <2>1. IsFirst(j, entries, t, id)
    BY <1>0, <1>1, FirstExists
  <2> HIDE DEF j
  <2>2. IsFirst(j, entries, s, id)
    BY <1>0, <2>1 DEF IsFirst
  <2>3. FirstFor(entries, s, id) = j
    BY <2>2, FirstIsOne
  <2>4. all[id] = Classification(entries[j]) /\ old[id] = Classification(entries[j])
    <3>1. id \in {entries[i].id : i \in s} /\ id \in {entries[i].id : i \in t}
      BY <1>1, <1>2, <1>3
    <3> QED BY <2>3, <3>1 DEF Collected, j
  <2>5. new[id] = old[id]
    BY <1>2, <1>4 DEF Collect
  <2> QED BY <2>4, <2>5
<1>5. ASSUME entries[m].id \notin DOMAIN old
      PROVE  all[entries[m].id] = new[entries[m].id]
  <2> DEFINE id == entries[m].id
  <2>1. IsFirst(m, entries, s, id)
    BY <1>0, <1>1, <1>5 DEF IsFirst
  <2>2. FirstFor(entries, s, id) = m
    BY <2>1, FirstIsOne
  <2>3. all[id] = Classification(entries[m])
    BY <2>2 DEF Collected
  <2>4. new[id] = Classification(entries[m])
    BY <1>5 DEF Collect
  <2> QED BY <2>3, <2>4
<1>6. \A id \in DOMAIN all : all[id] = new[id]
  BY <1>2, <1>3, <1>4, <1>5
<1>7. all = [id \in DOMAIN all |-> all[id]] /\ new = [id \in DOMAIN new |-> new[id]]
  BY DEF Collected, Collect
<1> HIDE DEF all, new
<1> QED BY <1>3, <1>6, <1>7 DEF all, new

LEMMA NothingCollected == ASSUME NEW entries PROVE Collected(entries, {}) = <<>>
<1>1. {entries[j].id : j \in {}} = {}
  OBVIOUS
<1> QED BY <1>1 DEF Collected

LEMMA MaxIsGreatest ==
  ASSUME NEW s, s \subseteq Nat, s # {}, IsFiniteSet(s)
  PROVE  Max(s) \in s /\ \A j \in s : j <= Max(s)
<1>1. PICK m \in s : \A j \in s : j <= m
  BY GreatestNumber
<1>2. \E n \in s : \A j \in s : n >= j
  BY <1>1
<1>3. Max(s) \in s /\ \A j \in s : Max(s) >= j
  BY <1>2 DEF Max
<1> QED BY <1>3

\* The function by which FoldLeft collects the entries.
Collects(f, entries) ==
  f = [s \in SUBSET DOMAIN entries |->
         IF s = {} THEN <<>> ELSE Collect(f[s \ {Max(s)}], entries[Max(s)])]

LEMMA FoldCollects ==
  ASSUME NEW entries, NEW n \in Nat, DOMAIN entries = 1 .. n
  PROVE  FoldLeft(Collect, <<>>, entries) = Collected(entries, DOMAIN entries)
<1> DEFINE D == DOMAIN entries
           f == CHOOSE g : Collects(g, entries)
<1>1. FoldLeft(Collect, <<>>, entries) = f[D]
  BY DEF FoldLeft, MapThenFoldSet, Collects
<1>2. IsFiniteSet(D) /\ D \subseteq Nat
  BY FS_Interval
<1>3. ASSUME NEW s \in SUBSET D, s # {}
      PROVE  /\ Max(s) \in s
             /\ Collected(entries, s) = Collect(Collected(entries, s \ {Max(s)}), entries[Max(s)])
  <2>1. s \subseteq Nat /\ IsFiniteSet(s)
    BY <1>2, FS_Subset
  <2>2. Max(s) \in s /\ \A j \in s : j <= Max(s)
    BY <1>3, <2>1, MaxIsGreatest
  <2> QED BY <2>1, <2>2, LastIsCollected
<1>4. Collects(f, entries)
  <2> DEFINE g == [s \in SUBSET D |-> Collected(entries, s)]
  <2>1. ASSUME NEW s \in SUBSET D
        PROVE  g[s] = IF s = {} THEN <<>> ELSE Collect(g[s \ {Max(s)}], entries[Max(s)])
    <3>1. g[s] = Collected(entries, s) /\ g[s \ {Max(s)}] = Collected(entries, s \ {Max(s)})
      OBVIOUS
    <3> QED BY <1>3, <3>1, NothingCollected
  <2>2. g = [s \in SUBSET D |-> g[s]]
    OBVIOUS
  <2> HIDE DEF g
  <2>3. Collects(g, entries)
    BY <2>1, <2>2 DEF Collects
  <2> QED BY <2>3
<1> HIDE DEF f
<1> DEFINE F == {s \in SUBSET D : f[s] # Collected(entries, s)}
<1>5. F = {}
  <2> SUFFICES ASSUME F # {} PROVE FALSE
    OBVIOUS
  <2>0. F \subseteq SUBSET D
    OBVIOUS
  <2> HIDE DEF F
  <2>1. PICK s \in F : \A u \in F : u \subseteq s => u = s
    BY <1>2, <2>0, MinimalSubset
  <2> USE DEF F
  <2>2. f[s] = IF s = {} THEN <<>> ELSE Collect(f[s \ {Max(s)}], entries[Max(s)])
    BY <1>4 DEF Collects
  <2>3. CASE s = {}
    BY <2>2, <2>3, NothingCollected
  <2>4. CASE s # {}
    <3>1. Max(s) \in s /\ s \ {Max(s)} \notin F
      BY <1>3, <2>1, <2>4
    <3>2. f[s \ {Max(s)}] = Collected(entries, s \ {Max(s)})
      BY <3>1
    <3> QED BY <1>3, <2>2, <2>4, <3>2
  <2> QED BY <2>3, <2>4
<1> QED BY <1>1, <1>5

-----------------------------------------------------------------------------
(***************************************************************************)
(* Engine: the rows.                                                       *)
(***************************************************************************)
LEMMA NormalisedIsValid == \A word : Normalised(word) \in ValidClassifications
BY DEF Normalised, ValidClassifications

\* The classification of a failure, from the first entry that is about it.
LEMMA Classified ==
  ASSUME NEW failures, NEW answer,
         answer.clusters \in Seq(Seq([id : STRING, word : STRING])),
         NEW k \in DOMAIN failures
  PROVE  LET result == BuildOutput(failures, answer)
             cl     == result.classifications[k]
             named  == ClustersOf(answer, failures[k])
         IN  /\ cl.id = failures[k] /\ cl.word \in ValidClassifications
             /\ named = {} => cl = Unassigned(failures[k])
             /\ named # {} =>
                  cl.cluster \in Nat /\ cl.cluster + 1 \in named /\ \A c \in named : cl.cluster + 1 <= c
<1> DEFINE id == failures[k]
           cs == answer.clusters
           n  == Len(cs)
           E  == Entries(answer)
           pieces == Pieces(answer)
           map == FoldLeft(Collect, <<>>, E)
           named == ClustersOf(answer, id)
           cl == BuildOutput(failures, answer).classifications[k]
<1>1. /\ n \in Nat /\ DOMAIN cs = 1 .. n
      /\ \A c \in 1 .. n : DOMAIN pieces[c] = DOMAIN cs[c] /\ DOMAIN cs[c] = 1 .. Len(cs[c])
      /\ \A c \in 1 .. n : \A i \in DOMAIN cs[c] : pieces[c][i] = Entry(c, cs[c][i])
  BY DEF Pieces
<1>2. Joined(E, pieces, n)
  BY EntriesJoined
<1>3. cl = IF id \in DOMAIN map THEN map[id] ELSE Unassigned(id)
  BY DEF BuildOutput
<1>4. E \in Seq(EntriesOfAnswers) /\ Len(E) \in Nat /\ DOMAIN E = 1 .. Len(E)
  BY <1>2 DEF Joined
<1>5. map = Collected(E, DOMAIN E)
  BY <1>4, FoldCollects
<1>6. \A c : c \in named <=> c \in 1 .. n /\ \E i \in DOMAIN cs[c] : cs[c][i].id = id
  BY <1>1 DEF ClustersOf, ToSet
<1> HIDE DEF E, pieces, map, cl, named, cs, n
\* An entry about the failure is in a cluster that names it, and the other way round.
<1>7. ASSUME NEW j \in DOMAIN E, E[j].id = id
      PROVE  E[j].cluster \in Nat /\ E[j].cluster + 1 \in named
  <2>1. PICK c \in 1 .. n : \E i \in DOMAIN pieces[c] : E[j] = pieces[c][i]
    BY <1>2, <1>7 DEF Joined
  <2>2. PICK i \in DOMAIN cs[c] : E[j] = Entry(c, cs[c][i])
    BY <1>1, <2>1
  <2>3. E[j].cluster = c - 1 /\ E[j].id = cs[c][i].id
    BY <2>2 DEF Entry
  <2> QED BY <1>1, <1>6, <1>7, <2>1, <2>3
<1>8. ASSUME NEW c \in named
      PROVE  c \in Nat /\ \E j \in DOMAIN E : E[j].id = id /\ E[j].cluster = c - 1
  <2>1. PICK i \in DOMAIN cs[c] : c \in 1 .. n /\ cs[c][i].id = id
    BY <1>6, <1>8
  <2>2. pieces[c][i] = Entry(c, cs[c][i]) /\ i \in DOMAIN pieces[c]
    BY <1>1, <2>1
  <2>3. PICK j \in DOMAIN E : E[j] = pieces[c][i]
    BY <1>2, <2>1, <2>2 DEF Joined
  <2> QED BY <1>1, <2>1, <2>2, <2>3 DEF Entry
<1>9. CASE named = {}
  <2>1. id \notin DOMAIN map
    BY <1>5, <1>7, <1>9 DEF Collected
  <2>2. cl = Unassigned(id)
    BY <1>3, <2>1
  <2> QED BY <1>9, <2>2 DEF Unassigned, ValidClassifications, cl, named
<1>10. CASE named # {}
  <2> DEFINE j == FirstFor(E, DOMAIN E, id)
  <2>1. \E i \in DOMAIN E : E[i].id = id
    BY <1>8, <1>10
  <2>2. DOMAIN E \subseteq Nat
    BY <1>4
  <2>3. IsFirst(j, E, DOMAIN E, id)
    BY <2>1, <2>2, FirstExists
  <2>4. cl = Classification(E[j])
    BY <1>3, <1>5, <2>1 DEF Collected
  <2> HIDE DEF j
  <2>5. cl.id = id /\ cl.word \in ValidClassifications /\ cl.cluster = E[j].cluster
    BY <2>3, <2>4, NormalisedIsValid DEF Classification, IsFirst
  <2>6. E[j].cluster \in Nat /\ E[j].cluster + 1 \in named
    BY <1>7, <2>3 DEF IsFirst
  <2>7. ASSUME NEW c \in named PROVE E[j].cluster + 1 <= c
    <3>1. c \in Nat
      BY <1>8
    <3>2. PICK i \in DOMAIN E : E[i].id = id /\ E[i].cluster = c - 1
      BY <1>8
    <3>3. j <= i /\ j \in DOMAIN E
      BY <2>3, <3>2 DEF IsFirst
    <3>4. E[j].cluster <= E[i].cluster
      BY <1>2, <3>2, <3>3 DEF Joined
    <3> QED BY <2>6, <3>1, <3>2, <3>4
  <2> QED BY <1>10, <2>5, <2>6, <2>7 DEF cl, named
<1> QED BY <1>9, <1>10

LEMMA MinIsLeast ==
  ASSUME NEW S, S \subseteq Nat, NEW m \in S, \A c \in S : m <= c
  PROVE  Min(S) = m
<1>1. \E x \in S : \A c \in S : x <= c
  OBVIOUS
<1>2. Min(S) \in S /\ \A c \in S : Min(S) <= c
  BY <1>1 DEF Min
<1>3. Min(S) <= m /\ m <= Min(S) /\ m \in Nat /\ Min(S) \in Nat
  BY <1>2
<1> QED BY <1>3

LEMMA RowOfFailure ==
  ASSUME NEW failures \in FailureLists, NEW answer \in Answers
  PROVE  LET rows == RowsFor(failures, answer)
         IN  /\ DOMAIN rows = DOMAIN failures
             /\ \A k \in DOMAIN failures :
                  LET named == IF answer.ok THEN ClustersOf(answer, failures[k]) ELSE {}
                  IN  /\ rows[k].test = failures[k] /\ rows[k].word \in ValidClassifications
                      /\ rows[k].cluster = IF named = {} THEN 0 ELSE Min(named)
                      /\ named = {} => rows[k].word = "unknown"
<1> DEFINE result == TriageOutput(failures, answer)
           rows == RowsFor(failures, answer)
<1>0. answer.clusters \in Seq(Seq([id : STRING, word : STRING]))
  BY EngineAssumption
<1>1. DOMAIN result.classifications = DOMAIN failures
  BY DEF TriageOutput, BuildOutput, FallbackOutput
<1>2. rows = [k \in DOMAIN result.classifications |->
                [test |-> result.classifications[k].id,
                 cluster |-> ClusterID(result, result.classifications[k]),
                 word |-> result.classifications[k].word]]
  BY DEF RowsFor, Rows
<1> HIDE DEF rows, result
<1>3. ASSUME NEW k \in DOMAIN failures
      PROVE  LET named == IF answer.ok THEN ClustersOf(answer, failures[k]) ELSE {}
             IN  /\ rows[k].test = failures[k] /\ rows[k].word \in ValidClassifications
                 /\ rows[k].cluster = IF named = {} THEN 0 ELSE Min(named)
                 /\ named = {} => rows[k].word = "unknown"
  <2> DEFINE cl == result.classifications[k]
             named == IF answer.ok THEN ClustersOf(answer, failures[k]) ELSE {}
  <2>1. rows[k].test = cl.id /\ rows[k].cluster = ClusterID(result, cl) /\ rows[k].word = cl.word
    BY <1>1, <1>2
  <2>2. CASE named = {}
    <3>1. cl = Unassigned(failures[k])
      <4>1. CASE answer.ok
        BY <1>0, <2>2, <4>1, Classified DEF result, TriageOutput
      <4>2. CASE ~answer.ok
        BY <4>2 DEF result, TriageOutput, FallbackOutput
      <4> QED BY <4>1, <4>2
    <3>2. cl.id = failures[k] /\ cl.word = "unknown" /\ cl.cluster = -1
      BY <3>1 DEF Unassigned
    <3> HIDE DEF cl
    <3>3. ClusterID(result, cl) = 0
      BY <3>2 DEF ClusterID
    <3> QED BY <2>1, <2>2, <3>2, <3>3 DEF ValidClassifications
  <2>3. CASE named # {}
    <3>1. answer.ok /\ named = ClustersOf(answer, failures[k])
      BY <2>3
    <3>2. result = BuildOutput(failures, answer)
      BY <3>1 DEF result, TriageOutput
    <3>3. /\ cl.id = failures[k] /\ cl.word \in ValidClassifications
          /\ cl.cluster \in Nat /\ cl.cluster + 1 \in named /\ \A c \in named : cl.cluster + 1 <= c
      BY <1>0, <2>3, <3>1, <3>2, Classified
    <3>4. result.clusters = Len(answer.clusters)
      BY <3>2 DEF BuildOutput
    <3>5. named \subseteq 1 .. Len(answer.clusters) /\ Len(answer.clusters) \in Nat
      BY <1>0, <3>1 DEF ClustersOf
    <3> HIDE DEF cl, named
    <3>6. ClusterID(result, cl) = cl.cluster + 1
      BY <3>3, <3>4, <3>5 DEF ClusterID
    <3>7. named \subseteq Nat
      BY <3>5
    <3>8. Min(named) = cl.cluster + 1
      BY <3>3, <3>7, MinIsLeast
    <3> QED BY <2>1, <2>3, <3>3, <3>6, <3>8 DEF named
  <2> QED BY <2>2, <2>3
<1> QED BY <1>1, <1>2, <1>3 DEF rows

(* Whatever the LLM answers, in any words, about any tests and however     *)
(* often, each failure becomes one row that the database accepts, in the   *)
(* cluster that names it first, or in none and unknown.                    *)
THEOREM EngineAcceptsAnyAnswer == AllInsertable /\ AllPlaced
<1>1. AllInsertable
  <2> SUFFICES ASSUME NEW failures \in FailureLists, NEW answer \in Answers
               PROVE  LET rows == RowsFor(failures, answer)
                      IN  Insertable(rows) /\ [k \in DOMAIN rows |-> rows[k].test] = failures
    BY DEF AllInsertable
  <2> DEFINE rows == RowsFor(failures, answer)
  <2>1. /\ DOMAIN rows = DOMAIN failures
        /\ \A k \in DOMAIN failures :
             rows[k].test = failures[k] /\ rows[k].word \in ValidClassifications
    BY RowOfFailure
  <2>2. failures \in Seq(STRING) /\ IsInjective(failures)
    BY EngineAssumption
  <2> HIDE DEF rows
  <2>3. Insertable(rows)
    BY <2>1, <2>2 DEF Insertable, IsInjective
  <2>4. [k \in DOMAIN rows |-> rows[k].test] = failures
    BY <2>1, <2>2
  <2> QED BY <2>3, <2>4 DEF rows
<1>2. AllPlaced
  BY RowOfFailure DEF AllPlaced
<1> QED BY <1>1, <1>2

(* When a job comes to persist an answer, the database takes its rows. *)
THEOREM AnyAnswerStored == Spec => []AnyAnswerIsStored
<1>1. AnyAnswerIsStored
  BY EngineAcceptsAnyAnswer DEF AnyAnswerIsStored
<1> QED BY <1>1, PTL

============================================================================
