----------------------------- MODULE MC_Triage -----------------------------
(***************************************************************************)
(* Small instances of Triage for TLC, and the answers for Engine: up to    *)
(* two clusters of up to two entries about one of the failures, the other  *)
(* or a test that did not fail, in a word that is known or not.            *)
(***************************************************************************)
EXTENDS TriageEngine

CONSTANTS r1, r2   \* model values

OneReport  == {r1}
TwoReports == {r1, r2}
NoFaults   == {}
AllFaults  == FaultKinds

AllFailures == {<<"a">>, <<"a", "b">>, <<"b", "a">>}

SeqUpTo2(S)  == {<<>>} \cup {<<x>> : x \in S} \cup {<<x, y>> : x, y \in S}
SomeEntries  == [id : {"a", "b", "other"}, word : {"flaky", "broken"}]
AllAnswers   == [ok : BOOLEAN, clusters : SeqUpTo2(SeqUpTo2(SomeEntries))]
=============================================================================
