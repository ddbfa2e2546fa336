------------------------------- MODULE Engine -------------------------------
(***************************************************************************)
(* What the triage engine makes of the answer of the LLM, and what of it   *)
(* becomes rows: pure functions of the failures and the answer.  Triage    *)
(* takes from here that the database accepts what a job persists.          *)
(*                                                                         *)
(* The failures are the sequence of their test_result_ids.  An answer is   *)
(* [ok, clusters]: whether the call and the parsing succeed, and then the  *)
(* sequence of clusters, each a sequence of entries [id, word].  Nothing   *)
(* says that the ids are those of the failures, that an id occurs once, or *)
(* that the words are known.                                               *)
(***************************************************************************)
EXTENDS Integers, Sequences, SequencesExt

CONSTANTS
  FailureLists,  \* the failures of reports
  Answers        \* the answers of the LLM

\* A failure is listed once, as ids are primary keys; an answer is any that
\* decodes.
ASSUME EngineAssumption ==
  /\ \A failures \in FailureLists : failures \in Seq(STRING) /\ IsInjective(failures)
  /\ \A answer \in Answers :
       answer.clusters \in Seq(Seq([id : STRING, word : STRING]))

ValidClassifications == {"new", "flaky", "regression", "unknown"}

-----------------------------------------------------------------------------
(***************************************************************************)
(* buildOutput: the entries cluster by cluster are collected in a map.     *)
(* Clusters are counted from 0, and -1 is none.                            *)
(***************************************************************************)
Entry(c, e) == [cluster |-> c - 1, id |-> e.id, word |-> e.word]

Entries(answer) ==
  FlattenSeq([c \in DOMAIN answer.clusters |->
                [k \in DOMAIN answer.clusters[c] |-> Entry(c, answer.clusters[c][k])]])

Normalised(word) == IF word \in ValidClassifications THEN word ELSE "unknown"

Classification(entry) ==
  [id |-> entry.id, cluster |-> entry.cluster, word |-> Normalised(entry.word)]

Collect_LastWins(classified, entry) ==
  [id \in DOMAIN classified \cup {entry.id} |->
     IF id = entry.id THEN Classification(entry) ELSE classified[id]]

Collect(classified, entry) ==
  [id \in DOMAIN classified \cup {entry.id} |->
     IF id \in DOMAIN classified THEN classified[id] ELSE Classification(entry)]

Unassigned(id) == [id |-> id, cluster |-> -1, word |-> "unknown"]

BuildOutput(failures, answer) ==
  LET classified == FoldLeft(Collect, <<>>, Entries(answer))
  IN  [clusters |-> Len(answer.clusters),
       classifications |->
         [k \in DOMAIN failures |->
            IF failures[k] \in DOMAIN classified THEN classified[failures[k]]
                                                 ELSE Unassigned(failures[k])]]

FallbackOutput(failures) ==
  [clusters |-> 0,
   classifications |-> [k \in DOMAIN failures |-> Unassigned(failures[k])]]

\* Engine.Triage, called when there are failures.
TriageOutput(failures, answer) ==
  IF answer.ok THEN BuildOutput(failures, answer) ELSE FallbackOutput(failures)

-----------------------------------------------------------------------------
(***************************************************************************)
(* PersistOutput: a cluster gets an id, for which its position stands, and *)
(* a classification the id of its cluster, or none (0).                    *)
(***************************************************************************)
ClusterID(result, cl) ==
  IF 0 <= cl.cluster /\ cl.cluster < result.clusters THEN cl.cluster + 1 ELSE 0

Rows(result) ==
  LET cls == result.classifications
  IN  [k \in DOMAIN cls |->
         [test |-> cls[k].id, cluster |-> ClusterID(result, cls[k]), word |-> cls[k].word]]

\* UNIQUE (triage_id, test_result_id) and the CHECK of classification.
Insertable(rows) ==
  /\ \A j, k \in DOMAIN rows : rows[j].test = rows[k].test => j = k
  /\ \A k \in DOMAIN rows : rows[k].word \in ValidClassifications

-----------------------------------------------------------------------------
\* The clusters in which the answer puts a test, counted from 1.
ClustersOf(answer, id) ==
  {c \in DOMAIN answer.clusters : \E e \in ToSet(answer.clusters[c]) : e.id = id}

RowsFor(failures, answer) == Rows(TriageOutput(failures, answer))

\* The database takes the rows of every answer, and there is one per failure.
AllInsertable ==
  \A failures \in FailureLists, answer \in Answers :
    LET rows == RowsFor(failures, answer)
    IN  Insertable(rows) /\ [k \in DOMAIN rows |-> rows[k].test] = failures

\* A failure is in the cluster that names it first, or in none and unknown.
AllPlaced ==
  \A failures \in FailureLists, answer \in Answers :
    \A k \in DOMAIN failures :
      LET row   == RowsFor(failures, answer)[k]
          named == IF answer.ok THEN ClustersOf(answer, failures[k]) ELSE {}
      IN  /\ row.cluster = IF named = {} THEN 0 ELSE Min(named)
          /\ named = {} => row.word = "unknown"
=============================================================================
