---------------------------- MODULE TriageEngine ----------------------------
(***************************************************************************)
(* The jobs of Triage, which take from the engine what they persist.       *)
(***************************************************************************)
EXTENDS Triage, Engine

\* When a job comes to persist what the engine made of an answer, the database
\* takes it: whatever the LLM said of other tests, twice or in words of its own,
\* and if it said nothing at all, each failure gets one row, in the cluster that
\* names it first.
AnyAnswerIsStored ==
  (\E i \in Slots : slot[i].at = "persist") => AllInsertable /\ AllPlaced
=============================================================================
