---------------------------- MODULE Reports_proofs ----------------------------
(***************************************************************************)
(* Proofs about Reports, for any payloads, gates, requests and sizes of    *)
(* the triage pool: ingest and deletion are what Triage says they are,     *)
(* nothing refers to a report that was never committed or to a gate that   *)
(* is gone, no failed gate stays unannounced, a failure is never excused   *)
(* by its own report, and a row of the duration history counts, bounds and *)
(* averages the runs that were committed.                                  *)
(***************************************************************************)
EXTENDS Reports, Sums

-----------------------------------------------------------------------------
(***************************************************************************)
(* The refinement.                                                         *)
(***************************************************************************)

\* Each step of ingest, evaluation or deletion is one of Triage, or leaves its
\* tables alone.
LEMMA StepOfTriage ==
  ASSUME [Next]_vars, setup.triage
  PROVE  [T!Next]_triageVars
<1> USE DEF triageVars, evaluationVars, ingestVars, gateVars
<1>1. ASSUME NEW r \in Reports, Commit(r) PROVE T!Next
  BY <1>1 DEF Commit, Store, T!Next
<1>2. ASSUME NEW r \in Reports, Enqueue(r) PROVE T!Next
  BY <1>2 DEF Enqueue, T!Next
<1>3. ASSUME NEW r \in Reports, DeleteReport(r) PROVE T!Next
  BY <1>3 DEF DeleteReport, T!Next
<1>4. ASSUME NEW r \in Reports, Begin(r) \/ Link(r) \/ Upsert(r) \/ Abort(r) \/ ListGates(r) \/ Announce(r)
      PROVE  UNCHANGED triageVars
  BY <1>4 DEF Begin, Link, Upsert, Abort, ListGates, Announce
<1>5. ASSUME NEW x \in Sessions, Ask(x) \/ EvaluationStep(x)
      PROVE  UNCHANGED triageVars
  BY <1>5 DEF Ask, EvaluationStep, ReadBaseline, ReadNames, EvaluateGate, EndEvaluation
<1>6. CASE EditGates
  BY <1>6 DEF EditGates
<1>7. CASE TriageStep
  BY <1>7 DEF TriageStep, T!Next
<1>8. CASE UNCHANGED vars
  BY <1>8 DEF vars
<1> HIDE DEF triageVars
<1> QED
  BY <1>1, <1>2, <1>3, <1>4, <1>5, <1>6, <1>7, <1>8 DEF Next, IngestStep, BreakDeadlock, Sessions

(* The composition implements the module Triage: with an LLM provider,     *)
(* what ingest, deletion and retries do to its tables is what it says.     *)
THEOREM IngestImplementsTriage == Spec => ImplementsTriage
<1>1. Init => T!Init
  BY DEF Init
<1>2. [Next]_vars => [setup.triage => T!Next]_triageVars
  BY StepOfTriage
<1> QED BY <1>1, <1>2, PTL DEF Spec, ImplementsTriage

-----------------------------------------------------------------------------
(***************************************************************************)
(* The inductive invariant.                                                *)
(***************************************************************************)
Committing == {"enqueue", "gates", "evaluate", "announce", "done"}
Evaluating == {"baseline", "names", "rules"}

\* A report that was there once: rows may refer to it, or to what it left.
Known(r) == present[r] # "none"

\* The shape of a gate, a session and a slot, whatever the fields hold.
IsGate(g) == DOMAIN g = {"state", "rules", "enabled"}

IsSession(s) == DOMAIN s = {"at", "report", "todo", "base", "previous"}

SlotRecords == [report : Reports \cup {None}, at : T!Stages \cup {"free"}, ok : BOOLEAN,
                verdict : T!Verdicts]

Shapes ==
  /\ present \in [Reports -> {"none", "stored", "deleted"}]
  /\ triage \in [Reports -> {"none", "pending"} \cup T!Verdicts]
  /\ handler \in [Reports -> {"idle", "enqueue"}]
  /\ slot \in [T!Slots -> SlotRecords]
  /\ DOMAIN at = Reports /\ DOMAIN gates = Gates /\ \A g \in Gates : IsGate(gates[g])
  /\ answer \in [Reports -> {None, "passed", "failed"}]
  /\ DOMAIN events = Reports
  /\ DOMAIN session = Sessions /\ \A x \in Sessions : IsSession(session[x])

\* What the triage has of a report that was never committed: nothing.
NoTriage ==
  \A r \in Reports : ~Known(r) =>
    triage[r] = "none" /\ handler[r] = "idle" /\ \A i \in T!Slots : slot[i].report # r

\* Create goes on after the commit only, and events come last.
AfterCommit ==
  \A r \in Reports : /\ at[r] \in Committing => Known(r)
                     /\ ~Known(r) => events[r] = {}

\* Sessions and the execution refer to what was committed.
RefersToKnown ==
  /\ \A x \in Sessions, r \in Reports : session[x].report = r \/ session[x].base = r => Known(r)
  /\ \A x \in Sessions : \A todo \in session[x].todo : todo.gate \in Gates
  /\ \A x \in Sessions : session[x].at \in Evaluating => session[x].report \in Reports
  /\ linked \in Reports => Known(linked)

\* Create's own evaluation is of its report, while it waits for it.
OwnSession ==
  \A r \in Reports : session[r].at \in Evaluating => at[r] = "evaluate" /\ session[r].report = r

\* A failed gate makes the answer fail, and that stands until it is announced.
FailureStands ==
  /\ \A e \in evaluations : e.report \in Reports /\ e.gate \in Gates
       /\ (e.by = e.report /\ ~e.passed => answer[e.report] = "failed")
  /\ \A r \in Reports : at[r] = "done" /\ answer[r] = "failed" => "gate.failed" \in events[r]

IInv == /\ Shapes /\ NoTriage /\ AfterCommit /\ RefersToKnown /\ OwnSession
        /\ EvaluationsHaveOwners /\ FailureStands

-----------------------------------------------------------------------------
\* Which steps write what the invariant is about.
OnlyWriters ==
  /\ present' # present => \E r \in Reports : Commit(r) \/ DeleteReport(r)
  /\ triage' # triage => TriageStep \/ \E r \in Reports : DeleteReport(r)
  /\ handler' # handler => TriageStep \/ \E r \in Reports : Commit(r) \/ Enqueue(r)
  /\ slot' # slot => TriageStep \/ \E r \in Reports : Enqueue(r)
  /\ at' # at => \/ \E r \in Reports : \/ Begin(r) \/ Link(r) \/ Commit(r) \/ Abort(r)
                                       \/ Enqueue(r) \/ ListGates(r) \/ Announce(r)
                 \/ \E x \in Sessions : ReadBaseline(x) \/ ReadNames(x) \/ EndEvaluation(x)
  /\ events' # events => \E r \in Reports : Announce(r)
  /\ answer' # answer => \E x \in Sessions : EvaluateGate(x) \/ EndEvaluation(x)
  /\ session' # session => \/ \E r \in Reports : ListGates(r)
                           \/ \E x \in Requests : Ask(x)
                           \/ \E x \in Sessions : EvaluationStep(x)
  /\ linked' # linked => \E r \in Reports : Commit(r)
  /\ gates' # gates => EditGates
  /\ evaluations' # evaluations => \/ EditGates
                                   \/ \E r \in Reports : DeleteReport(r)
                                   \/ \E x \in Sessions : EvaluateGate(x)

\* Only those do.
LEMMA WritersKnown ==
  ASSUME [Next]_vars
  PROVE  OnlyWriters
<1> USE DEF OnlyWriters, triageVars, evaluationVars, ingestVars, gateVars
<1>1. ASSUME NEW r \in Reports, Begin(r) PROVE OnlyWriters
  BY <1>1 DEF Begin
<1>2. ASSUME NEW r \in Reports, Link(r) PROVE OnlyWriters
  BY <1>2 DEF Link
<1>3. ASSUME NEW r \in Reports, Upsert(r) PROVE OnlyWriters
  BY <1>3 DEF Upsert
<1>4. ASSUME NEW r \in Reports, Commit(r) PROVE OnlyWriters
  BY <1>4 DEF Commit, Store, T!Ingest
<1>5. ASSUME NEW r \in Reports, Abort(r) PROVE OnlyWriters
  BY <1>5 DEF Abort
<1>6. ASSUME NEW r \in Reports, Enqueue(r) PROVE OnlyWriters
  BY <1>6 DEF Enqueue, T!Enqueue, T!reportVars
<1>7. ASSUME NEW r \in Reports, ListGates(r) PROVE OnlyWriters
  BY <1>7 DEF ListGates
<1>8. ASSUME NEW r \in Reports, Announce(r) PROVE OnlyWriters
  BY <1>8 DEF Announce
<1>9. ASSUME NEW r \in Reports, DeleteReport(r) PROVE OnlyWriters
  BY <1>9 DEF DeleteReport, T!Delete
<1>10. ASSUME NEW x \in Requests, Ask(x) PROVE OnlyWriters
  BY <1>10 DEF Ask
<1>11. ASSUME NEW x \in Sessions, ReadBaseline(x) PROVE OnlyWriters
  BY <1>11 DEF ReadBaseline, EvaluationStep
<1>12. ASSUME NEW x \in Sessions, ReadNames(x) PROVE OnlyWriters
  BY <1>12 DEF ReadNames, EvaluationStep
<1>13. ASSUME NEW x \in Sessions, EvaluateGate(x) PROVE OnlyWriters
  BY <1>13 DEF EvaluateGate, EvaluationStep, CreateEvaluation
<1>14. ASSUME NEW x \in Sessions, EndEvaluation(x) PROVE OnlyWriters
  BY <1>14 DEF EndEvaluation, EvaluationStep
<1>15. CASE EditGates
  BY <1>15 DEF EditGates
<1>16. CASE TriageStep
  <2>1. present' = present
    BY <1>16 DEF TriageStep, T!RetryTriage, T!reportVars, T!JobStep, T!Claim, T!MarkPending, T!Fetch,
              T!Persist, T!Complete, T!CompleteEmpty, T!Fail, T!MarkSettled
  <2> QED BY <1>16, <2>1 DEF TriageStep
<1>17. CASE UNCHANGED vars
  BY <1>17 DEF vars
<1> HIDE DEF OnlyWriters
<1> QED
  BY <1>1, <1>2, <1>3, <1>4, <1>5, <1>6, <1>7, <1>8, <1>9,
     <1>10, <1>11, <1>12, <1>13, <1>14, <1>15, <1>16, <1>17
     DEF Next, IngestStep, BreakDeadlock, EvaluationStep

\* A report once committed is known for good.
LEMMA KnownLasts ==
  ASSUME Shapes, [Next]_vars
  PROVE  /\ present' \in [Reports -> {"none", "stored", "deleted"}]
         /\ \A r \in Reports : Known(r) => Known(r)'
<1> USE DEF Shapes, Known
<1>1. CASE present' = present
  BY <1>1
<1>2. ASSUME NEW r \in Reports, Commit(r) PROVE present' = [present EXCEPT ![r] = "stored"]
  BY <1>2 DEF Commit, Store, T!Ingest
<1>3. ASSUME NEW r \in Reports, DeleteReport(r) PROVE present' = [present EXCEPT ![r] = "deleted"]
  BY <1>3 DEF DeleteReport, T!Delete
<1> QED BY <1>1, <1>2, <1>3, WritersKnown DEF OnlyWriters

\* What a job does with its slot.
SlotMoves(i) ==
  \/ T!Release(i) \/ (\E stage \in T!Stages : T!Goto(i, stage))
  \/ (\E v \in T!Verdicts : T!Announce(i, v))
  \/ \E ok \in BOOLEAN : slot' = [slot EXCEPT ![i].at = "persist", ![i].ok = ok]

LEMMA JobMovesSlot ==
  ASSUME NEW i, T!JobStep(i)
  PROVE  SlotMoves(i)
<1> USE DEF SlotMoves, T!Verdicts, T!Stages, T!Unclaimed, T!Working
<1>1. CASE T!Claim(i) \/ T!MarkPending(i) \/ T!Fetch(i)
  BY <1>1 DEF T!Claim, T!MarkPending, T!Fetch
<1>2. CASE T!Persist(i)
  BY <1>2 DEF T!Persist
<1>3. CASE T!Complete(i) \/ T!CompleteEmpty(i) \/ T!Fail(i) \/ T!MarkSettled(i)
  BY <1>3 DEF T!Complete, T!CompleteEmpty, T!Fail, T!MarkSettled
<1> QED BY <1>1, <1>2, <1>3 DEF T!JobStep

\* A job moves its own slot, and writes the row of its report only.
LEMMA JobFrame ==
  ASSUME Shapes, NEW i \in T!Slots, T!JobStep(i)
  PROVE  /\ handler' = handler
         /\ slot' \in [T!Slots -> SlotRecords]
         /\ \A j \in T!Slots : slot'[j].report \in {slot[j].report, None}
         /\ triage' \in [Reports -> {"none", "pending"} \cup T!Verdicts]
         /\ \A r \in Reports : triage'[r] # triage[r] => slot[i].report = r
<1> USE DEF T!Verdicts, T!Stages, T!Unclaimed, T!Working
<1>1. /\ slot \in [T!Slots -> SlotRecords] /\ slot[i] \in SlotRecords
      /\ triage \in [Reports -> {"none", "pending"} \cup T!Verdicts]
  BY DEF Shapes
<1>2. handler' = handler
  BY DEF T!JobStep, T!Claim, T!MarkPending, T!Fetch, T!Persist, T!Complete, T!CompleteEmpty, T!Fail,
         T!MarkSettled
<1> DEFINE r0 == slot[i].report
<1>3. \/ triage' = triage
      \/ \E st \in {"none", "pending"} \cup T!Verdicts : triage' = [triage EXCEPT ![r0] = st]
  <2>1. CASE T!Claim(i)
    BY <2>1 DEF T!Claim
  <2>2. CASE T!MarkPending(i) \/ T!Fetch(i) \/ T!Persist(i) \/ T!MarkSettled(i)
    BY <2>2 DEF T!MarkPending, T!Fetch, T!Persist, T!MarkSettled
  <2>3. ASSUME NEW v \in T!Verdicts, T!Settle(r0, v)
        PROVE  triage' = [triage EXCEPT ![r0] = v] \/ triage' = triage
    BY <1>1, <2>3 DEF T!Settle
  <2>4. CASE T!Complete(i) \/ T!CompleteEmpty(i) \/ T!Fail(i)
    BY <2>3, <2>4 DEF T!Complete, T!CompleteEmpty, T!Fail
  <2> QED BY <2>1, <2>2, <2>4 DEF T!JobStep
<1>4. \E rec \in SlotRecords : rec.report \in {slot[i].report, None} /\ slot' = [slot EXCEPT ![i] = rec]
  <2>1. ASSUME T!Release(i) PROVE slot' = [slot EXCEPT ![i] = T!Free] /\ T!Free \in SlotRecords /\ T!Free.report = None
    BY <2>1 DEF T!Release, T!Free, SlotRecords, None
  <2>2. ASSUME NEW stage \in T!Stages, T!Goto(i, stage)
        PROVE  /\ slot' = [slot EXCEPT ![i] = [slot[i] EXCEPT !.at = stage]]
               /\ [slot[i] EXCEPT !.at = stage] \in SlotRecords
               /\ [slot[i] EXCEPT !.at = stage].report = slot[i].report
    BY <1>1, <2>2 DEF T!Goto, SlotRecords
  <2>3. ASSUME NEW v \in T!Verdicts, T!Announce(i, v)
        PROVE  /\ slot' = [slot EXCEPT ![i] = [slot[i] EXCEPT !.at = "announce", !.verdict = v]]
               /\ [slot[i] EXCEPT !.at = "announce", !.verdict = v] \in SlotRecords
               /\ [slot[i] EXCEPT !.at = "announce", !.verdict = v].report = slot[i].report
    BY <1>1, <2>3 DEF T!Announce, SlotRecords
  <2>4. ASSUME NEW ok \in BOOLEAN
        PROVE  /\ [slot[i] EXCEPT !.at = "persist", !.ok = ok] \in SlotRecords
               /\ [slot[i] EXCEPT !.at = "persist", !.ok = ok].report = slot[i].report
    BY <1>1, <2>4 DEF SlotRecords
  <2>5. SlotMoves(i)
    BY JobMovesSlot
  <2>6. ASSUME NEW ok \in BOOLEAN, slot' = [slot EXCEPT ![i].at = "persist", ![i].ok = ok]
        PROVE  slot' = [slot EXCEPT ![i] = [slot[i] EXCEPT !.at = "persist", !.ok = ok]]
    BY <1>1, <2>6
  <2>7. CASE T!Release(i)
    BY <2>1, <2>7
  <2>8. CASE \E stage \in T!Stages : T!Goto(i, stage)
    BY <2>2, <2>8
  <2>9. CASE \E v \in T!Verdicts : T!Announce(i, v)
    BY <2>3, <2>9
  <2>10. CASE \E ok \in BOOLEAN : slot' = [slot EXCEPT ![i].at = "persist", ![i].ok = ok]
    BY <2>4, <2>6, <2>10
  <2> QED BY <2>5, <2>7, <2>8, <2>9, <2>10 DEF SlotMoves
<1>5. /\ slot' \in [T!Slots -> SlotRecords]
      /\ \A j \in T!Slots : slot'[j].report \in {slot[j].report, None}
  BY <1>1, <1>4
<1>6. /\ triage' \in [Reports -> {"none", "pending"} \cup T!Verdicts]
      /\ \A r \in Reports : triage'[r] # triage[r] => r0 = r
  <2> HIDE DEF r0
  <2> QED BY <1>1, <1>3
<1> QED BY <1>2, <1>5, <1>6

-----------------------------------------------------------------------------
(***************************************************************************)
(* The steps.                                                              *)
(***************************************************************************)

\* Where Create may get to from where it is.
AtMoves(r) ==
  \/ at'[r] = at[r]
  \/ at[r] = "idle" /\ at'[r] \in {"link", "upsert"} /\ Begin(r)
  \/ at[r] = "link" /\ at'[r] = "upsert"
  \/ at[r] \in {"link", "upsert"} /\ at'[r] = "refused" /\ Abort(r)
  \/ at[r] = "upsert" /\ at'[r] \in {"enqueue", "gates"} /\ Known(r)' /\ Commit(r)
  \/ at[r] = "enqueue" /\ at'[r] = "gates"
  \/ at[r] = "gates" /\ at'[r] = "announce"
  \/ at[r] = "gates" /\ at'[r] = "evaluate" /\ ListGates(r)
  \/ at'[r] = "announce" /\ session[r].at \in Evaluating /\ session'[r] = [Idle EXCEPT !.at = "over"]
  \/ at[r] = "announce" /\ at'[r] = "done" /\ Announce(r)

\* Create gets nowhere else.
LEMMA AtStep ==
  ASSUME Shapes, [Next]_vars
  PROVE  DOMAIN at' = Reports /\ \A q \in Reports : AtMoves(q)
<1> DEFINE Goal == DOMAIN at' = Reports /\ \A q \in Reports : AtMoves(q)
<1> SUFFICES Goal
  OBVIOUS
<1> USE DEF Shapes, AtMoves, Known
<1>0. ASSUME at' = at PROVE Goal
  BY <1>0
<1>1. ASSUME NEW r \in Reports, Begin(r) PROVE Goal
  BY <1>1 DEF Begin
<1>2. ASSUME NEW r \in Reports, Link(r) PROVE Goal
  BY <1>2 DEF Link
<1>3. ASSUME NEW r \in Reports, Commit(r) PROVE Goal
  <2>1. present' = [present EXCEPT ![r] = "stored"]
    BY <1>3 DEF Commit, Store, T!Ingest
  <2>2. at[r] = "upsert" /\ \E stage \in {"enqueue", "gates"} : at' = [at EXCEPT ![r] = stage]
    BY <1>3 DEF Commit, Store
  <2> QED BY <1>3, <2>1, <2>2
<1>4. ASSUME NEW r \in Reports, Abort(r) PROVE Goal
  BY <1>4 DEF Abort, InTransaction
<1>5. ASSUME NEW r \in Reports, Enqueue(r) PROVE Goal
  BY <1>5 DEF Enqueue
<1>6. ASSUME NEW r \in Reports, ListGates(r) PROVE Goal
  <2>1. at[r] = "gates" /\ \E stage \in {"evaluate", "announce"} : at' = [at EXCEPT ![r] = stage]
    BY <1>6 DEF ListGates
  <2> QED BY <1>6, <2>1
<1>7. ASSUME NEW r \in Reports, Announce(r) PROVE Goal
  <2>1. at[r] = "announce" /\ at' = [at EXCEPT ![r] = "done"]
    BY <1>7 DEF Announce
  <2> QED BY <1>7, <2>1
<1>8. ASSUME NEW x \in Sessions, session[x].at \in Evaluating, Leave(x) PROVE Goal
  BY <1>8 DEF Leave
<1>9. ASSUME NEW x \in Sessions, ReadBaseline(x) \/ ReadNames(x) \/ EndEvaluation(x)
      PROVE  at' = at \/ (session[x].at \in Evaluating /\ Leave(x))
  BY <1>9 DEF ReadBaseline, ReadNames, EndEvaluation, Evaluating
<1> HIDE DEF Goal
<1> QED
  BY <1>0, <1>1, <1>2, <1>3, <1>4, <1>5, <1>6, <1>7, <1>8, <1>9, WritersKnown DEF OnlyWriters

\* How a session goes on; the steps that start one are the two first.
SessionMoves(x) ==
  \/ /\ x \in Reports /\ at[x] = "gates" /\ at'[x] = "evaluate"
     /\ session'[x].report = x /\ session'[x].base = None
     /\ \A todo \in session'[x].todo : todo.gate \in Gates
  \/ /\ x \in Requests /\ session'[x].base = None
     /\ session'[x].report \in Reports /\ Stored(session'[x].report)
     /\ \A todo \in session'[x].todo : todo.gate \in Gates
  \/ session'[x] = session[x]
  \/ /\ session[x].at \in Evaluating /\ session'[x].report = session[x].report
     /\ \/ session'[x].base \in {None, session[x].base}
        \/ session'[x].base \in Reports /\ Stored(session'[x].base)
     /\ session'[x].todo \subseteq session[x].todo
  \/ session'[x] = [Idle EXCEPT !.at = "over"]

\* Sessions do nothing else.
LEMMA SessionStep ==
  ASSUME Shapes, [Next]_vars
  PROVE  /\ DOMAIN session' = Sessions
         /\ \A x \in Sessions : IsSession(session'[x]) /\ SessionMoves(x)
<1> DEFINE Goal == /\ DOMAIN session' = Sessions
                   /\ \A x \in Sessions : IsSession(session'[x]) /\ SessionMoves(x)
<1> SUFFICES Goal
  OBVIOUS
<1>0. /\ DOMAIN session = Sessions /\ \A x \in Sessions : IsSession(session[x])
      /\ DOMAIN at = Reports /\ Reports \subseteq Sessions /\ Requests \subseteq Sessions
  BY DEF Shapes, Sessions
<1>1. ASSUME NEW x \in Sessions, NEW s, session' = [session EXCEPT ![x] = s], IsSession(s), SessionMoves(x)
      PROVE  Goal
  BY <1>0, <1>1 DEF SessionMoves
<1>2. ASSUME session' = session PROVE Goal
  BY <1>0, <1>2 DEF SessionMoves
<1>3. ASSUME NEW r \in Reports, ListGates(r) PROVE Goal
  <2> DEFINE todo == {[gate |-> g, rules |-> gates[g].rules] : g \in EnabledGates}
             s == [Idle EXCEPT !.at = "baseline", !.report = r, !.todo = todo]
  <2>1. \/ session' = session
        \/ session' = [session EXCEPT ![r] = s] /\ at[r] = "gates" /\ at' = [at EXCEPT ![r] = "evaluate"]
    BY <1>3 DEF ListGates
  <2>2. \A t \in todo : t.gate \in Gates
    BY DEF EnabledGates
  <2> HIDE DEF todo
  <2>3. IsSession(s) /\ s.report = r /\ s.base = None /\ s.todo = todo
    BY DEF IsSession, Idle
  <2> HIDE DEF s
  <2> QED BY <1>0, <1>1, <1>2, <2>1, <2>2, <2>3 DEF SessionMoves
<1>4. ASSUME NEW x \in Requests, Ask(x) PROVE Goal
  <2>1. PICK g \in Gates, r \in Reports :
          /\ Live(g) /\ Stored(r)
          /\ session' = [session EXCEPT ![x] =
               [Idle EXCEPT !.at = "baseline", !.report = r,
                            !.todo = {[gate |-> g, rules |-> gates[g].rules]}]]
    BY <1>4 DEF Ask
  <2> DEFINE todo == {[gate |-> g, rules |-> gates[g].rules]}
             s == [Idle EXCEPT !.at = "baseline", !.report = r, !.todo = todo]
  <2>2. \A t \in todo : t.gate \in Gates
    OBVIOUS
  <2>3. session' = [session EXCEPT ![x] = s]
    BY <2>1
  <2> HIDE DEF todo
  <2>4. IsSession(s) /\ s.report = r /\ s.base = None /\ s.todo = todo
    BY DEF IsSession, Idle
  <2> HIDE DEF s
  <2> QED BY <1>0, <1>1, <2>1, <2>2, <2>3, <2>4 DEF SessionMoves
<1>5. ASSUME NEW x \in Sessions, Leave(x) PROVE Goal
  <2> DEFINE s == [Idle EXCEPT !.at = "over"]
  <2>1. IsSession(s)
    BY DEF IsSession, Idle
  <2>2. session' = [session EXCEPT ![x] = s]
    BY <1>5 DEF Leave
  <2>3. session'[x] = s
    BY <1>0, <2>2
  <2>4. SessionMoves(x)
    BY <2>3 DEF SessionMoves
  <2> HIDE DEF s
  <2> QED BY <1>1, <2>1, <2>2, <2>4
<1>6. ASSUME NEW x \in Sessions, ReadBaseline(x) PROVE Goal
  <2>1. CASE Latest(session[x].report) = {} /\ session' = [session EXCEPT ![x].at = "rules"]
    <3> DEFINE s == [session[x] EXCEPT !.at = "rules"]
    <3>1. session' = [session EXCEPT ![x] = s]
      BY <1>0, <2>1
    <3>2. IsSession(s) /\ s.report = session[x].report /\ s.base = session[x].base /\ s.todo = session[x].todo
      BY <1>0 DEF IsSession
    <3>3. session[x].at \in Evaluating
      BY <1>6 DEF ReadBaseline, Evaluating
    <3> HIDE DEF s
    <3> QED BY <1>0, <1>1, <3>1, <3>2, <3>3 DEF SessionMoves
  <2>2. CASE \E q \in Latest(session[x].report) :
               session' = [session EXCEPT ![x].at = "names", ![x].base = q]
    <3>1. PICK q \in Latest(session[x].report) :
            session' = [session EXCEPT ![x].at = "names", ![x].base = q]
      BY <2>2
    <3> DEFINE s == [session[x] EXCEPT !.at = "names", !.base = q]
    <3>2. session' = [session EXCEPT ![x] = s]
      BY <1>0, <3>1
    <3>3. IsSession(s) /\ s.report = session[x].report /\ s.base = q /\ s.todo = session[x].todo
      BY <1>0 DEF IsSession
    <3>4. session[x].at \in Evaluating /\ q \in Reports /\ Stored(q)
      BY <1>6, <3>1 DEF ReadBaseline, Evaluating, Latest
    <3> HIDE DEF s
    <3> QED BY <1>0, <1>1, <3>2, <3>3, <3>4 DEF SessionMoves
  <2> QED BY <1>5, <1>6, <2>1, <2>2 DEF ReadBaseline
<1>7. ASSUME NEW x \in Sessions, ReadNames(x) PROVE Goal
  <2>1. CASE session' = [session EXCEPT ![x].at = "rules", ![x].base = None,
               ![x].previous = IF Stored(session[x].base)
                               THEN FailedNames(body[session[x].base]) ELSE {}]
    <3> DEFINE previous == IF Stored(session[x].base) THEN FailedNames(body[session[x].base]) ELSE {}
               s == [session[x] EXCEPT !.at = "rules", !.base = None, !.previous = previous]
    <3>1. session' = [session EXCEPT ![x] = s]
      <4> HIDE DEF previous
      <4>1. session' = [session EXCEPT ![x].at = "rules", ![x].base = None, ![x].previous = previous]
        BY <2>1 DEF previous
      <4> QED BY <1>0, <4>1
    <3> HIDE DEF previous
    <3>2. IsSession(s) /\ s.report = session[x].report /\ s.base = None /\ s.todo = session[x].todo
      BY <1>0 DEF IsSession
    <3>3. session[x].at \in Evaluating
      BY <1>7 DEF ReadNames, Evaluating
    <3> HIDE DEF s
    <3> QED BY <1>0, <1>1, <3>1, <3>2, <3>3 DEF SessionMoves
  <2> QED BY <1>5, <1>7, <2>1 DEF ReadNames
<1>8. ASSUME NEW x \in Sessions, EvaluateGate(x) PROVE Goal
  <2>1. PICK todo : session' = [session EXCEPT ![x].todo = @ \ {todo}]
    BY <1>8 DEF EvaluateGate
  <2> DEFINE s == [session[x] EXCEPT !.todo = @ \ {todo}]
  <2>2. session' = [session EXCEPT ![x] = s]
    BY <1>0, <2>1
  <2>3. /\ IsSession(s) /\ s.report = session[x].report /\ s.base = session[x].base
        /\ s.todo \subseteq session[x].todo
    BY <1>0 DEF IsSession
  <2>4. session[x].at \in Evaluating
    BY <1>8 DEF EvaluateGate, Evaluating
  <2> HIDE DEF s
  <2> QED BY <1>0, <1>1, <2>2, <2>3, <2>4 DEF SessionMoves
<1>9. ASSUME NEW x \in Sessions, EndEvaluation(x) PROVE Goal
  BY <1>5, <1>9 DEF EndEvaluation
<1> HIDE DEF Goal
<1> QED
  BY <1>2, <1>3, <1>4, <1>6, <1>7, <1>8, <1>9, WritersKnown DEF OnlyWriters, EvaluationStep

\* What the triage gains is about reports that were committed.
TriageShapes ==
  /\ triage \in [Reports -> {"none", "pending"} \cup T!Verdicts]
  /\ handler \in [Reports -> {"idle", "enqueue"}]
  /\ slot \in [T!Slots -> SlotRecords]

\* Jobs and handlers are only ever about reports that are known.
LEMMA NoTriageStep ==
  ASSUME IInv, [Next]_vars
  PROVE  TriageShapes' /\ NoTriage'
<1> DEFINE Goal == TriageShapes' /\ NoTriage'
<1> SUFFICES Goal
  OBVIOUS
<1>0. /\ Shapes /\ NoTriage /\ TriageShapes
      /\ \A r \in Reports : Known(r) => Known(r)'
  BY KnownLasts DEF IInv, TriageShapes, Shapes
<1>1. ASSUME UNCHANGED <<triage, handler, slot>> PROVE Goal
  BY <1>0, <1>1 DEF TriageShapes, NoTriage
<1>2. ASSUME NEW r \in Reports, Known(r)', UNCHANGED <<triage, slot>>,
             handler' = [handler EXCEPT ![r] = "enqueue"]
      PROVE  Goal
  BY <1>0, <1>2 DEF TriageShapes, NoTriage
<1>3. ASSUME NEW r \in Reports, Commit(r) PROVE Goal
  <2>1. present' = [present EXCEPT ![r] = "stored"] /\ UNCHANGED <<triage, slot>>
        /\ handler' \in {handler, [handler EXCEPT ![r] = "enqueue"]}
    BY <1>3 DEF Commit, Store, T!Ingest
  <2>2. Known(r)'
    BY <1>0, <2>1 DEF Known, Shapes
  <2> QED BY <1>1, <1>2, <2>1, <2>2
<1>4. ASSUME NEW r \in Reports, Enqueue(r) PROVE Goal
  <2>1. handler[r] = "enqueue" /\ handler' = [handler EXCEPT ![r] = "idle"] /\ UNCHANGED triage
    BY <1>4 DEF Enqueue, T!Enqueue
  <2>2. Known(r)'
    BY <1>0, <2>1 DEF NoTriage
  <2>3. \/ slot' = slot
        \/ \E i \in T!Slots : slot' = [slot EXCEPT ![i] = [T!Free EXCEPT !.report = r, !.at = "claim"]]
    BY <1>4 DEF Enqueue, T!Enqueue
  <2> DEFINE job == [T!Free EXCEPT !.report = r, !.at = "claim"]
  <2>4. job \in SlotRecords /\ job.report = r
    BY DEF T!Free, SlotRecords, T!Stages, T!Unclaimed, T!Verdicts
  <2> HIDE DEF job
  <2>5. slot' \in [T!Slots -> SlotRecords] /\ \A i \in T!Slots : slot'[i].report \in {slot[i].report, r}
    BY <1>0, <2>3, <2>4 DEF TriageShapes, job
  <2> QED BY <1>0, <2>1, <2>2, <2>5 DEF TriageShapes, NoTriage
<1>5. ASSUME NEW r \in Reports, DeleteReport(r) PROVE Goal
  <2>1. triage' = [triage EXCEPT ![r] = "none"] /\ UNCHANGED <<handler, slot>>
    BY <1>5 DEF DeleteReport, T!Delete
  <2> QED BY <1>0, <2>1 DEF TriageShapes, NoTriage
<1>6. ASSUME NEW r \in Reports, T!RetryTriage(r) PROVE Goal
  <2>1. /\ triage[r] # "none" /\ UNCHANGED slot
        /\ triage' = [triage EXCEPT ![r] = "pending"] /\ handler' = [handler EXCEPT ![r] = "enqueue"]
    BY <1>6 DEF T!RetryTriage, T!Verdicts
  <2>2. Known(r)'
    BY <1>0, <2>1 DEF NoTriage
  <2> QED BY <1>0, <2>1, <2>2 DEF TriageShapes, NoTriage
<1>7. ASSUME NEW i \in T!Slots, T!JobStep(i) PROVE Goal
  <2>1. /\ handler' = handler /\ slot' \in [T!Slots -> SlotRecords]
        /\ \A j \in T!Slots : slot'[j].report \in {slot[j].report, None}
        /\ triage' \in [Reports -> {"none", "pending"} \cup T!Verdicts]
        /\ \A r \in Reports : triage'[r] # triage[r] => slot[i].report = r
    BY <1>0, <1>7, JobFrame
  <2>2. None \notin Reports
    BY ReportsAssumption
  <2>3. ASSUME NEW r \in Reports, ~Known(r)'
        PROVE  triage'[r] = "none" /\ handler'[r] = "idle" /\ \A j \in T!Slots : slot'[j].report # r
    <3>1. triage[r] = "none" /\ handler[r] = "idle" /\ \A j \in T!Slots : slot[j].report # r
      BY <1>0, <2>3 DEF NoTriage
    <3> QED BY <2>1, <2>2, <3>1
  <2> QED BY <1>0, <2>1, <2>3 DEF TriageShapes, NoTriage
<1> HIDE DEF Goal
<1> QED BY <1>1, <1>3, <1>4, <1>5, <1>6, <1>7, WritersKnown DEF OnlyWriters, TriageStep

\* Gates stay rows, and one that goes takes its evaluations along.
LEMMA GateStep ==
  ASSUME Shapes, [Next]_vars
  PROVE  /\ DOMAIN gates' = Gates /\ \A g \in Gates : IsGate(gates'[g])
         /\ gates' # gates => evaluations' \subseteq evaluations
         /\ \A g \in Gates : Live(g) /\ ~Live(g)' => \A e \in evaluations' : e.gate # g
<1> USE DEF Live
<1>0. DOMAIN gates = Gates /\ \A g \in Gates : IsGate(gates[g])
  BY DEF Shapes
<1>1. CASE gates' = gates
  BY <1>0, <1>1
<1>2. ASSUME NEW g \in Gates, NEW rules, CreateGate(g),
             gates' = [gates EXCEPT ![g] = [state |-> "live", rules |-> rules, enabled |-> TRUE]]
      PROVE  /\ DOMAIN gates' = Gates /\ \A h \in Gates : IsGate(gates'[h])
             /\ evaluations' = evaluations
             /\ \A h \in Gates : Live(h) => Live(h)'
  BY <1>0, <1>2 DEF CreateGate, IsGate
<1>3. ASSUME NEW g \in Gates, NEW rules, NEW enabled, UpdateGate(g),
             gates' = [gates EXCEPT ![g].rules = rules, ![g].enabled = enabled]
      PROVE  /\ DOMAIN gates' = Gates /\ \A h \in Gates : IsGate(gates'[h])
             /\ evaluations' = evaluations
             /\ \A h \in Gates : Live(h) => Live(h)'
  <2>1. gates' = [gates EXCEPT ![g] = [gates[g] EXCEPT !.rules = rules, !.enabled = enabled]]
    BY <1>0, <1>3
  <2> QED BY <1>0, <1>3, <2>1 DEF UpdateGate, IsGate
<1>4. ASSUME NEW g \in Gates, DeleteGate(g)
      PROVE  /\ DOMAIN gates' = Gates /\ \A h \in Gates : IsGate(gates'[h])
             /\ evaluations' \subseteq evaluations /\ \A e \in evaluations' : e.gate # g
             /\ \A h \in Gates \ {g} : Live(h) => Live(h)'
  BY <1>0, <1>4 DEF DeleteGate, IsGate, NoGate
<1>5. CASE EditGates
  <2>1. PICK g \in Gates : CreateGate(g) \/ UpdateGate(g) \/ DeleteGate(g)
    BY <1>5 DEF EditGates
  <2>2. CASE CreateGate(g)
    <3>1. PICK rules :
            gates' = [gates EXCEPT ![g] = [state |-> "live", rules |-> rules, enabled |-> TRUE]]
      BY <2>2 DEF CreateGate
    <3> QED BY <1>2, <2>2, <3>1
  <2>3. CASE UpdateGate(g)
    <3>1. PICK rules, enabled :
            gates' = [gates EXCEPT ![g].rules = rules, ![g].enabled = enabled]
      BY <2>3 DEF UpdateGate
    <3> QED BY <1>3, <2>3, <3>1
  <2>4. CASE DeleteGate(g)
    BY <1>4, <2>4
  <2> QED BY <2>1, <2>2, <2>3, <2>4
<1> QED BY <1>1, <1>5, WritersKnown DEF OnlyWriters

\* The answer of Create, as it gets worse, and the rows it writes on the way.
EvaluationMoves ==
  \/ /\ evaluations' \subseteq evaluations
     /\ \A r \in Reports : answer[r] = "failed" => answer'[r] = "failed"
  \/ \E x \in Sessions : \E todo \in session[x].todo, K \in Looks(x) :
       LET r == session[x].report
           g == todo.gate
           passed == Passes(todo.rules, Data(x, K))
       IN
       /\ session[x].at = "rules" /\ r \in Reports /\ Stored(r) /\ g \in Gates /\ Live(g)
       /\ evaluations' = evaluations \cup
            {[gate |-> g, report |-> r, rules |-> todo.rules, passed |-> passed, by |-> x]}
       /\ UNCHANGED <<gates, present>>
       /\ \A q \in Reports : answer[q] = "failed" => answer'[q] = "failed"
       /\ x \in Reports /\ ~passed => answer'[x] = "failed"

Answers == {None, "passed", "failed"}

\* Evaluations and answers change no other way, and only with the rules read.
LEMMA EvaluationsStep ==
  ASSUME IInv, [Next]_vars
  PROVE  /\ answer' \in [Reports -> Answers]
         /\ EvaluationMoves
         /\ \A r \in Reports : answer'[r] # answer[r] => session[r].at = "rules"
<1> DEFINE Goal == /\ answer' \in [Reports -> Answers]
                   /\ EvaluationMoves
                   /\ \A r \in Reports : answer'[r] # answer[r] => session[r].at = "rules"
<1> SUFFICES Goal
  OBVIOUS
<1>0. answer \in [Reports -> Answers]
  BY DEF IInv, Shapes, Answers
<1>1. ASSUME answer' = answer, evaluations' \subseteq evaluations PROVE Goal
  BY <1>0, <1>1 DEF EvaluationMoves
<1>2. ASSUME NEW x \in Sessions, EndEvaluation(x) PROVE Goal
  <2>1. /\ session[x].at = "rules" /\ evaluations' = evaluations
        /\ answer' = IF x \in Reports /\ answer[x] = None THEN [answer EXCEPT ![x] = "passed"] ELSE answer
    BY <1>2 DEF EndEvaluation, gateVars
  <2> QED BY <1>0, <2>1 DEF EvaluationMoves, Answers, None
<1>3. ASSUME NEW x \in Sessions, EvaluateGate(x) PROVE Goal
  <2> DEFINE r == session[x].report
  <2>0. session[x].at = "rules" /\ r \in Reports
    BY <1>3 DEF EvaluateGate, IInv, RefersToKnown, Evaluating
  <2>1. PICK todo \in session[x].todo, K \in Looks(x) :
          LET passed == Passes(todo.rules, Data(x, K)) IN
          \/ /\ \/ CreateEvaluation(todo.gate, r, Stored(r), todo.rules, passed, x)
                \/ UNCHANGED gateVars
             /\ answer' = IF x \in Reports THEN [answer EXCEPT ![x] = Worse(@, passed)] ELSE answer
          \/ UNCHANGED <<answer, gateVars>>
    BY <1>3 DEF EvaluateGate
  <2> DEFINE passed == Passes(todo.rules, Data(x, K))
  <2>2. passed \in BOOLEAN /\ todo.gate \in Gates
    BY DEF Passes, IInv, RefersToKnown
  <2> HIDE DEF passed, r
  <2>3. UNCHANGED present
    BY <1>3 DEF EvaluateGate, triageVars
  <2>4. CASE UNCHANGED <<answer, gateVars>>
    BY <1>1, <2>4 DEF gateVars
  <2>5. CASE answer' = IF x \in Reports THEN [answer EXCEPT ![x] = Worse(@, passed)] ELSE answer
    <3>1. /\ answer' \in [Reports -> Answers]
          /\ \A q \in Reports : answer[q] = "failed" => answer'[q] = "failed"
          /\ x \in Reports /\ ~passed => answer'[x] = "failed"
          /\ \A q \in Reports : answer'[q] # answer[q] => q = x
      BY <1>0, <2>2, <2>5 DEF Worse, Answers
    <3>2. CASE UNCHANGED gateVars
      BY <2>0, <3>1, <3>2 DEF EvaluationMoves, gateVars
    <3>3. CASE CreateEvaluation(todo.gate, r, Stored(r), todo.rules, passed, x)
      <4>1. EvaluationMoves
        BY <2>0, <2>2, <2>3, <3>1, <3>3 DEF EvaluationMoves, CreateEvaluation, r, passed
      <4> QED BY <2>0, <3>1, <4>1
    <3> QED BY <2>1, <2>4, <3>2, <3>3 DEF passed, r
  <2> QED BY <2>1, <2>4, <2>5 DEF passed, r
<1>4. ASSUME NEW r \in Reports, DeleteReport(r) PROVE evaluations' \subseteq evaluations
  BY <1>4 DEF DeleteReport
<1>5. ASSUME EditGates PROVE evaluations' \subseteq evaluations
  BY <1>5 DEF EditGates, CreateGate, UpdateGate, DeleteGate
<1> HIDE DEF Goal
<1> QED BY <1>1, <1>2, <1>3, <1>4, <1>5, WritersKnown DEF OnlyWriters

\* Tables keep their shape.
LEMMA ShapesStep ==
  ASSUME IInv, [Next]_vars
  PROVE  Shapes'
<1>0. Shapes
  BY DEF IInv
<1>1. present' \in [Reports -> {"none", "stored", "deleted"}]
  BY <1>0, KnownLasts
<1>2. TriageShapes'
  BY NoTriageStep
<1>3. DOMAIN at' = Reports
  BY <1>0, AtStep
<1>4. DOMAIN gates' = Gates /\ \A g \in Gates : IsGate(gates'[g])
  BY <1>0, GateStep
<1>5. answer' \in [Reports -> Answers]
  BY EvaluationsStep
<1>6. DOMAIN events' = Reports
  <2>1. ASSUME NEW r \in Reports, Announce(r) PROVE DOMAIN events' = DOMAIN events
    BY <2>1 DEF Announce
  <2> QED BY <1>0, <2>1, WritersKnown DEF OnlyWriters, Shapes
<1>7. DOMAIN session' = Sessions /\ \A x \in Sessions : IsSession(session'[x])
  BY <1>0, SessionStep
<1> QED BY <1>1, <1>2, <1>3, <1>4, <1>5, <1>6, <1>7 DEF Shapes, TriageShapes, Answers

\* Only a commit leads to what comes after it.
LEMMA AfterCommitStep ==
  ASSUME IInv, [Next]_vars
  PROVE  AfterCommit'
<1>0. /\ Shapes /\ AfterCommit /\ OwnSession
      /\ \A r \in Reports : Known(r) => Known(r)'
  BY KnownLasts DEF IInv
<1> SUFFICES ASSUME NEW r \in Reports
             PROVE  /\ at'[r] \in Committing => Known(r)'
                    /\ ~Known(r)' => events'[r] = {}
  BY DEF AfterCommit
<1>1. at'[r] \in Committing => Known(r)'
  <2>1. AtMoves(r)
    BY <1>0, AtStep
  <2>2. session[r].at \in Evaluating => at[r] = "evaluate"
    BY <1>0 DEF OwnSession
  <2> QED BY <1>0, <2>1, <2>2 DEF AtMoves, AfterCommit, Committing
<1>2. ASSUME ~Known(r)' PROVE events'[r] = {}
  <2>1. ~Known(r) /\ events[r] = {}
    BY <1>0, <1>2 DEF AfterCommit
  <2>2. ASSUME NEW q \in Reports, Announce(q) PROVE q # r /\ events'[r] = events[r]
    <3>1. Known(q)
      BY <1>0, <2>2 DEF Announce, AfterCommit, Committing
    <3>2. q # r
      BY <2>1, <3>1
    <3> QED BY <1>0, <2>2, <3>2 DEF Announce, Shapes
  <2> QED BY <2>1, <2>2, WritersKnown DEF OnlyWriters
<1> QED BY <1>1, <1>2

\* Sessions take up reports that are known, and stay with them.
LEMMA RefersToKnownStep ==
  ASSUME IInv, [Next]_vars
  PROVE  RefersToKnown'
<1>0. /\ Shapes /\ AfterCommit /\ RefersToKnown
      /\ \A r \in Reports : Known(r) => Known(r)'
  BY KnownLasts DEF IInv
<1>1. None \notin Reports /\ Reports \cap Requests = {}
  BY ReportsAssumption
<1>2. ASSUME NEW x \in Sessions
      PROVE  /\ \A r \in Reports : session'[x].report = r \/ session'[x].base = r => Known(r)'
             /\ \A todo \in session'[x].todo : todo.gate \in Gates
             /\ session'[x].at \in Evaluating => session'[x].report \in Reports
  <2>1. SessionMoves(x)
    BY <1>0, SessionStep
  <2>2. CASE x \in Reports /\ at[x] = "gates" /\ session'[x].report = x /\ session'[x].base = None
             /\ \A todo \in session'[x].todo : todo.gate \in Gates
    <3>1. Known(x)'
      BY <1>0, <2>2 DEF AfterCommit, Committing
    <3> QED BY <1>1, <2>2, <3>1
  <2>3. CASE /\ session'[x].base = None
             /\ session'[x].report \in Reports /\ Stored(session'[x].report)
             /\ \A todo \in session'[x].todo : todo.gate \in Gates
    <3>1. Known(session'[x].report)
      BY <2>3 DEF Known, Stored
    <3> QED BY <1>0, <1>1, <2>3, <3>1
  <2>4. CASE session'[x] = session[x]
    BY <1>0, <2>4 DEF RefersToKnown
  <2>5. CASE /\ session[x].at \in Evaluating /\ session'[x].report = session[x].report
             /\ \/ session'[x].base \in {None, session[x].base}
                \/ session'[x].base \in Reports /\ Stored(session'[x].base)
             /\ session'[x].todo \subseteq session[x].todo
    <3>1. /\ \A r \in Reports : session[x].report = r \/ session[x].base = r => Known(r)'
          /\ \A todo \in session[x].todo : todo.gate \in Gates
          /\ session[x].report \in Reports
      BY <1>0, <2>5 DEF RefersToKnown
    <3>2. session'[x].base \in Reports /\ Stored(session'[x].base) => Known(session'[x].base)
      BY DEF Known, Stored
    <3> QED BY <1>0, <1>1, <2>5, <3>1, <3>2
  <2>6. CASE session'[x] = [Idle EXCEPT !.at = "over"]
    <3>1. /\ session'[x].report = None /\ session'[x].base = None /\ session'[x].todo = {}
          /\ session'[x].at \notin Evaluating
      BY <2>6 DEF Idle, Evaluating
    <3> QED BY <1>1, <3>1
  <2> QED BY <2>1, <2>2, <2>3, <2>4, <2>5, <2>6 DEF SessionMoves
<1>3. linked' \in Reports => present'[linked'] # "none"
  <2>1. ASSUME linked' = linked, linked' \in Reports PROVE present'[linked'] # "none"
    <3>1. linked \in Reports /\ Known(linked)
      BY <1>0, <2>1 DEF RefersToKnown
    <3>2. present'[linked] # "none"
      BY <1>0, <3>1 DEF Known
    <3> QED BY <2>1, <3>2 DEF Known
  <2>2. ASSUME NEW r \in Reports, Commit(r), linked' = r PROVE present'[linked'] # "none"
    <3>1. present' = [present EXCEPT ![r] = "stored"]
      BY <2>2 DEF Commit, Store, T!Ingest
    <3> QED BY <1>0, <2>2, <3>1 DEF Known, Shapes
  <2>3. ASSUME NEW r \in Reports, Commit(r) PROVE linked' \in {r, linked}
    BY <2>3 DEF Commit
  <2> QED BY <2>1, <2>2, <2>3, WritersKnown DEF OnlyWriters
<1> QED BY <1>2, <1>3 DEF RefersToKnown, Known

\* Create waits for its session as long as that evaluates.
LEMMA OwnSessionStep ==
  ASSUME IInv, [Next]_vars
  PROVE  OwnSession'
<1>0. Shapes /\ OwnSession
  BY DEF IInv
<1>1. None \notin Reports /\ Reports \cap Requests = {}
  BY ReportsAssumption
<1> SUFFICES ASSUME NEW r \in Reports, session'[r].at \in Evaluating
             PROVE  at'[r] = "evaluate" /\ session'[r].report = r
  BY DEF OwnSession
<1>2. SessionMoves(r) /\ AtMoves(r) /\ r \in Sessions /\ r \notin Requests
  BY <1>0, <1>1, SessionStep, AtStep DEF Sessions
<1>3. session'[r] # [Idle EXCEPT !.at = "over"]
  BY DEF Idle, Evaluating
<1>4. session[r].at \in Evaluating => at[r] = "evaluate" /\ session[r].report = r
  BY <1>0 DEF OwnSession
<1>5. at[r] = "evaluate" => at'[r] = "evaluate"
  BY <1>2, <1>3 DEF AtMoves
<1> QED BY <1>2, <1>3, <1>4, <1>5 DEF SessionMoves

\* Foreign keys keep the owners of an evaluation, cascades remove it with them.
LEMMA EvaluationsHaveOwnersStep ==
  ASSUME IInv, [Next]_vars
  PROVE  EvaluationsHaveOwners'
<1>0. Shapes /\ EvaluationsHaveOwners /\ EvaluationMoves /\ FailureStands
  BY EvaluationsStep DEF IInv
<1> SUFFICES ASSUME NEW e \in evaluations'
             PROVE  Live(e.gate)' /\ Stored(e.report)'
  BY DEF EvaluationsHaveOwners, Live, Stored
<1>1. CASE e \in evaluations
  <2>1. e.gate \in Gates /\ e.report \in Reports /\ Live(e.gate) /\ Stored(e.report)
    BY <1>0, <1>1 DEF EvaluationsHaveOwners, FailureStands
  <2>2. Live(e.gate)'
    <3>1. \A g \in Gates : Live(g) /\ ~Live(g)' => \A d \in evaluations' : d.gate # g
      BY <1>0, GateStep
    <3> QED BY <2>1, <3>1 DEF Live
  <2>3. Stored(e.report)'
    <3>1. ASSUME NEW r \in Reports, Commit(r) PROVE Stored(e.report)'
      <4>1. present' = [present EXCEPT ![r] = "stored"]
        BY <3>1 DEF Commit, Store, T!Ingest
      <4> QED BY <1>0, <2>1, <4>1 DEF Stored, Shapes
    <3>2. ASSUME NEW r \in Reports, DeleteReport(r) PROVE Stored(e.report)'
      <4>1. present' = [present EXCEPT ![r] = "deleted"] /\ e.report # r
        BY <3>2 DEF DeleteReport, T!Delete
      <4> QED BY <1>0, <2>1, <4>1 DEF Stored, Shapes
    <3>3. ASSUME present' = present PROVE Stored(e.report)'
      BY <2>1, <3>3 DEF Stored
    <3> QED BY <3>1, <3>2, <3>3, WritersKnown DEF OnlyWriters
  <2> QED BY <2>2, <2>3
<1>2. CASE e \notin evaluations
  <2>1. PICK x, todo, passed :
          /\ session[x].report \in Reports /\ Stored(session[x].report) /\ Live(todo.gate)
          /\ e = [gate |-> todo.gate, report |-> session[x].report, rules |-> todo.rules,
                  passed |-> passed, by |-> x]
          /\ UNCHANGED <<gates, present>>
    BY <1>0, <1>2 DEF EvaluationMoves
  <2>2. e.gate = todo.gate /\ e.report = session[x].report
    BY <2>1
  <2> QED BY <2>1, <2>2 DEF Live, Stored
<1> QED BY <1>1, <1>2

\* A failure is in the answer before events are chosen by it.
LEMMA FailureStandsStep ==
  ASSUME IInv, [Next]_vars
  PROVE  FailureStands'
<1>0. /\ Shapes /\ FailureStands /\ OwnSession /\ EvaluationMoves
      /\ \A r \in Reports : answer'[r] # answer[r] => session[r].at = "rules"
  BY EvaluationsStep DEF IInv
<1>1. None \notin Reports /\ Reports \cap Requests = {}
  BY ReportsAssumption
<1>2. ASSUME NEW e \in evaluations'
      PROVE  /\ e.report \in Reports /\ e.gate \in Gates
             /\ e.by = e.report /\ ~e.passed => answer'[e.report] = "failed"
  <2>1. CASE e \in evaluations
    <3>1. /\ e.report \in Reports /\ e.gate \in Gates
          /\ e.by = e.report /\ ~e.passed => answer[e.report] = "failed"
      BY <1>0, <2>1 DEF FailureStands
    <3>2. \A r \in Reports : answer[r] = "failed" => answer'[r] = "failed"
      BY <1>0 DEF EvaluationMoves
    <3> QED BY <3>1, <3>2
  <2>2. CASE e \notin evaluations
    <3>1. PICK x, todo, passed :
            /\ session[x].report \in Reports /\ todo.gate \in Gates
            /\ e = [gate |-> todo.gate, report |-> session[x].report, rules |-> todo.rules,
                    passed |-> passed, by |-> x]
            /\ x \in Reports /\ ~passed => answer'[x] = "failed"
      BY <1>0, <2>2 DEF EvaluationMoves
    <3>2. e.report = session[x].report /\ e.gate = todo.gate /\ e.passed = passed /\ e.by = x
      BY <3>1
    <3> QED BY <3>1, <3>2
  <2> QED BY <2>1, <2>2
<1>3. ASSUME NEW r \in Reports, at'[r] = "done", answer'[r] = "failed"
      PROVE  "gate.failed" \in events'[r]
  <2>1. AtMoves(r)
    BY <1>0, AtStep
  <2>2. CASE at[r] = "done"
    <3>1. answer[r] = "failed"
      BY <1>0, <1>3, <2>2 DEF OwnSession, Evaluating
    <3>2. "gate.failed" \in events[r]
      BY <1>0, <2>2, <3>1 DEF FailureStands
    <3>3. ASSUME NEW q \in Reports, Announce(q) PROVE events'[r] = events[r]
      <4>1. q # r
        BY <2>2, <3>3 DEF Announce
      <4> QED BY <1>0, <3>3, <4>1 DEF Announce, Shapes
    <3> QED BY <3>2, <3>3, WritersKnown DEF OnlyWriters
  <2>3. CASE Announce(r)
    <3>1. answer' = answer
      BY <2>3 DEF Announce
    <3>2. events'[r] = {"report.submitted"} \cup (IF answer[r] = "failed" THEN {"gate.failed"} ELSE {})
      BY <1>0, <2>3 DEF Announce, Shapes
    <3> QED BY <1>3, <3>1, <3>2
  <2> QED BY <1>3, <2>1, <2>2, <2>3 DEF AtMoves
<1> QED BY <1>2, <1>3 DEF FailureStands

-----------------------------------------------------------------------------
(***************************************************************************)
(* The theorems.                                                           *)
(***************************************************************************)

\* The tables are empty at first, but for the gates.
LEMMA InvariantAtFirst == Init => IInv
<1> SUFFICES ASSUME Init
             PROVE  IInv
  OBVIOUS
<1> USE DEF Init
<1>0. None \notin Reports
  BY ReportsAssumption
<1>1. Shapes
  <2>1. /\ present \in [Reports -> {"none", "stored", "deleted"}]
        /\ triage \in [Reports -> {"none", "pending"} \cup T!Verdicts]
        /\ handler \in [Reports -> {"idle", "enqueue"}]
        /\ DOMAIN at = Reports /\ DOMAIN events = Reports
        /\ answer \in [Reports -> {None, "passed", "failed"}]
    BY DEF T!Init
  <2>2. slot \in [T!Slots -> SlotRecords]
    <3>1. T!Free \in SlotRecords
      BY DEF T!Free, SlotRecords, T!Verdicts, None
    <3> QED BY <3>1 DEF T!Init
  <2>3. DOMAIN gates = Gates /\ \A g \in Gates : IsGate(gates[g])
    <3>1. \A g \in DOMAIN setup.gates : IsGate(setup.gates[g])
      BY ReportsAssumption DEF IsGate
    <3>2. IsGate(NoGate)
      BY DEF IsGate, NoGate
    <3> QED BY <3>1, <3>2 DEF GatesInit
  <2>4. DOMAIN session = Sessions /\ \A x \in Sessions : IsSession(session[x])
    BY DEF IsSession, Idle
  <2> QED BY <2>1, <2>2, <2>3, <2>4 DEF Shapes
<1>2. NoTriage
  BY <1>0 DEF NoTriage, T!Init, T!Free, None
<1>3. AfterCommit
  BY DEF AfterCommit, Committing
<1>4. RefersToKnown /\ OwnSession
  BY <1>0 DEF RefersToKnown, OwnSession, Idle, Evaluating, Sessions
<1>5. EvaluationsHaveOwners /\ FailureStands
  BY DEF EvaluationsHaveOwners, FailureStands, GatesInit
<1> QED BY <1>1, <1>2, <1>3, <1>4, <1>5 DEF IInv

(* The inductive invariant: what triage, sessions, evaluations and events  *)
(* refer to was committed, and a failed gate stands in the answer.         *)
THEOREM Invariance == Spec => []IInv
<1>1. IInv /\ [Next]_vars => IInv'
  <2> SUFFICES ASSUME IInv, [Next]_vars
               PROVE  IInv'
    OBVIOUS
  <2>1. Shapes' /\ NoTriage' /\ AfterCommit'
    BY ShapesStep, NoTriageStep, AfterCommitStep
  <2>2. RefersToKnown' /\ OwnSession'
    BY RefersToKnownStep, OwnSessionStep
  <2>3. EvaluationsHaveOwners' /\ FailureStands'
    BY EvaluationsHaveOwnersStep, FailureStandsStep
  <2> QED BY <2>1, <2>2, <2>3 DEF IInv
<1> QED BY InvariantAtFirst, <1>1, PTL DEF Spec

(* Nothing refers to a report that was never committed, and no evaluation  *)
(* outlives its gate or report, although no handler keeps a transaction    *)
(* open from its reads to its writes.                                      *)
THEOREM FoundedTraces == Spec => []TracesAreFounded
<1>1. IInv => TracesAreFounded
  <2> SUFFICES ASSUME IInv
               PROVE  UncommittedLeavesNoTrace
    BY DEF IInv, TracesAreFounded
  <2> SUFFICES ASSUME NEW r \in Reports, present[r] = "none"
               PROVE  /\ linked # r
                      /\ triage[r] = "none" /\ handler[r] = "idle"
                      /\ \A i \in T!Slots : slot[i].report # r
                      /\ \A e \in evaluations : e.report # r
                      /\ events[r] = {}
                      /\ \A x \in Sessions : session[x].report # r /\ session[x].base # r
    BY DEF UncommittedLeavesNoTrace
  <2>1. ~Known(r)
    BY DEF Known
  <2>2. triage[r] = "none" /\ handler[r] = "idle" /\ \A i \in T!Slots : slot[i].report # r
    BY <2>1 DEF IInv, NoTriage
  <2>3. linked # r /\ \A x \in Sessions : session[x].report # r /\ session[x].base # r
    BY <2>1 DEF IInv, RefersToKnown
  <2>4. events[r] = {}
    BY <2>1 DEF IInv, AfterCommit
  <2>5. \A e \in evaluations : e.report # r
    BY DEF IInv, EvaluationsHaveOwners, Stored
  <2> QED BY <2>2, <2>3, <2>4, <2>5
<1> QED BY Invariance, <1>1, PTL

(* The subscribers of gate.failed hear of every gate that Create recorded  *)
(* as failed, whatever the order of the gates and the errors in between.   *)
THEOREM FailuresAreAnnounced == Spec => []FailureIsAnnounced
<1>1. IInv => FailureIsAnnounced
  BY DEF IInv, FailureStands, FailureIsAnnounced
<1> QED BY Invariance, <1>1, PTL

-----------------------------------------------------------------------------
(***************************************************************************)
(* What was submitted.                                                     *)
(***************************************************************************)

\* The results of a payload, whatever names and durations they have.
WellFormed(p) == p.results \in Seq(Results)

LEMMA ResultsOfPayload ==
  ASSUME NEW p, WellFormed(p)
  PROVE  /\ Len(p.results) \in Nat /\ DOMAIN p.results = 1 .. Len(p.results)
         /\ \A i \in DOMAIN p.results :
              Key(p.results[i]) \in Keys /\ p.results[i].duration \in Int
<1>1. p.results \in Seq(Results)
  BY DEF WellFormed
<1>2. Len(p.results) \in Nat /\ DOMAIN p.results = 1 .. Len(p.results)
  BY <1>1
<1>3. \A i \in DOMAIN p.results : p.results[i] \in Results
  BY <1>1
<1>4. \A res \in Results : Key(res) \in Keys /\ res.duration \in Int
  BY DEF Results, Key, Keys
<1> QED BY <1>2, <1>3, <1>4

\* What Create has begun with came from a client.
BodiesAreWellFormed ==
  /\ DOMAIN setup = {"triage", "gates", "edits", "requests", "payloads"}
  /\ \A payload \in setup.payloads : WellFormed(payload)
  /\ DOMAIN body = Reports
  /\ \A r \in Reports : at[r] # "idle" => WellFormed(body[r])
  /\ \A r \in Reports : Known(r) => at[r] # "idle"

\* The body stays as it came.
LEMMA BodiesStep ==
  ASSUME IInv, BodiesAreWellFormed, [Next]_vars
  PROVE  BodiesAreWellFormed'
<1>0. Shapes /\ OwnSession
  BY DEF IInv
<1>1. /\ DOMAIN setup' = {"triage", "gates", "edits", "requests", "payloads"}
      /\ setup'.payloads = setup.payloads
  <2>1. CASE EditGates
    BY <2>1 DEF EditGates, BodiesAreWellFormed
  <2>2. CASE setup' = setup
    BY <2>2 DEF BodiesAreWellFormed
  <2>3. setup' = setup \/ EditGates
    BY DEF Next, vars, IngestStep, EvaluationStep, Begin, Link, Upsert, Commit, BreakDeadlock, Abort,
           Enqueue, ListGates, Announce, Ask, ReadBaseline, ReadNames, EvaluateGate, EndEvaluation,
           DeleteReport, TriageStep
  <2> QED BY <2>1, <2>2, <2>3
<1>2. \/ body' = body
      \/ \E r \in Reports, payload \in setup.payloads : body' = [body EXCEPT ![r] = payload]
  <2>1. ASSUME NEW r \in Reports, Begin(r)
        PROVE  \E payload \in setup.payloads : body' = [body EXCEPT ![r] = payload]
    BY <2>1 DEF Begin
  <2>2. body' = body \/ \E r \in Reports : Begin(r)
    BY DEF Next, vars, IngestStep, EvaluationStep, Link, Upsert, Commit, BreakDeadlock, Abort,
           Enqueue, ListGates, Announce, Ask, ReadBaseline, ReadNames, EvaluateGate, EndEvaluation,
           DeleteReport, TriageStep, EditGates, ingestVars
  <2> QED BY <2>1, <2>2
<1>3. ASSUME NEW r \in Reports PROVE at'[r] # "idle" => WellFormed(body'[r])
  <2>1. ASSUME at[r] # "idle" PROVE WellFormed(body'[r])
    BY <1>2, <2>1 DEF BodiesAreWellFormed
  <2>2. ASSUME at[r] = "idle", at'[r] # "idle" PROVE WellFormed(body'[r])
    <3>2. Begin(r)
      BY <1>0, <2>2, AtStep DEF AtMoves, OwnSession
    <3>3. PICK payload \in setup.payloads : body' = [body EXCEPT ![r] = payload]
      BY <3>2 DEF Begin
    <3> QED BY <3>3 DEF BodiesAreWellFormed
  <2> QED BY <2>1, <2>2
<1>4. ASSUME NEW r \in Reports PROVE Known(r)' => at'[r] # "idle"
  <2>1. AtMoves(r)
    BY <1>0, AtStep
  <2>2. at[r] # "idle" => at'[r] # "idle"
    BY <2>1 DEF AtMoves
  <2>3. Known(r)' => Known(r) \/ at[r] = "upsert"
    <3>1. ASSUME NEW q \in Reports, Commit(q) PROVE at[q] = "upsert" /\ present' = [present EXCEPT ![q] = "stored"]
      BY <3>1 DEF Commit, Store, T!Ingest
    <3>2. ASSUME NEW q \in Reports, DeleteReport(q)
          PROVE  present[q] = "stored" /\ present' = [present EXCEPT ![q] = "deleted"]
      BY <3>2 DEF DeleteReport, T!Delete
    <3> QED BY <1>0, <3>1, <3>2, WritersKnown DEF OnlyWriters, Known, Shapes
  <2> QED BY <2>2, <2>3 DEF BodiesAreWellFormed
<1>5. DOMAIN body' = Reports
  BY <1>2 DEF BodiesAreWellFormed
<1> QED BY <1>1, <1>3, <1>4, <1>5 DEF BodiesAreWellFormed

LEMMA BodiesWellFormed == Spec => []BodiesAreWellFormed
<1>1. Init => BodiesAreWellFormed
  <2> SUFFICES ASSUME Init
               PROVE  BodiesAreWellFormed
    OBVIOUS
  <2>1. setup \in Setups /\ present = [r \in Reports |-> "none"]
    BY DEF Init, T!Init
  <2> QED BY <2>1, ReportsAssumption DEF Init, BodiesAreWellFormed, Known, WellFormed
<1>2. IInv /\ BodiesAreWellFormed /\ [Next]_vars => BodiesAreWellFormed'
  BY BodiesStep
<1> QED BY <1>1, <1>2, Invariance, PTL DEF Spec

-----------------------------------------------------------------------------
(***************************************************************************)
(* Who holds which rows of the duration history.                           *)
(***************************************************************************)

\* A transaction has upserted the first of its results, and their rows.
HoldsItsRows(r) ==
  /\ upserted[r] \in 0 .. IF at[r] = "upsert" THEN Len(body[r].results) ELSE 0
  /\ DOMAIN staged[r] = {Key(body[r].results[i]) : i \in 1 .. upserted[r]}

\* Its rows stay its own until it ends.
HistoryIsLocked ==
  /\ DOMAIN staged = Reports /\ DOMAIN upserted = Reports /\ DOMAIN history = Keys
  /\ \A r \in Reports : HoldsItsRows(r)
  /\ \A r, s \in Reports : r # s => DOMAIN staged[r] \cap DOMAIN staged[s] = {}
  /\ \A r \in Reports : at[r] \in {"idle", "link", "upsert", "refused"} => ~Known(r)

\* Who writes the history.
LEMMA HistoryWriters ==
  ASSUME [Next]_vars
  PROVE  \/ UNCHANGED <<upserted, staged, history>>
         \/ \E r \in Reports : Upsert(r) \/ Commit(r) \/ Abort(r)
  BY DEF Next, vars, IngestStep, EvaluationStep, Begin, Link, BreakDeadlock, Enqueue, ListGates,
         Announce, Ask, ReadBaseline, ReadNames, EvaluateGate, EndEvaluation, DeleteReport,
         TriageStep, EditGates, ingestVars

\* What is submitted does not change any more.
LEMMA BodiesStay ==
  ASSUME IInv, BodiesAreWellFormed, [Next]_vars, NEW r \in Reports, at[r] # "idle"
  PROVE  body'[r] = body[r]
<1>1. ASSUME NEW q \in Reports, Begin(q) PROVE body'[r] = body[r]
  <2>1. q # r
    BY <1>1 DEF Begin
  <2>2. PICK payload \in setup.payloads : body' = [body EXCEPT ![q] = payload]
    BY <1>1 DEF Begin
  <2> QED BY <2>1, <2>2 DEF BodiesAreWellFormed
<1>2. body' = body \/ \E q \in Reports : Begin(q)
  BY DEF Next, vars, IngestStep, EvaluationStep, Link, Upsert, Commit, BreakDeadlock, Abort,
         Enqueue, ListGates, Announce, Ask, ReadBaseline, ReadNames, EvaluateGate, EndEvaluation,
         DeleteReport, TriageStep, EditGates, ingestVars
<1> QED BY <1>1, <1>2

\* Locks keep the transactions apart.
LEMMA LockStep ==
  ASSUME IInv, BodiesAreWellFormed, HistoryIsLocked, [Next]_vars
  PROVE  HistoryIsLocked'
<1>0. /\ Shapes /\ OwnSession /\ DOMAIN at' = Reports
      /\ \A r \in Reports : AtMoves(r)
  BY AtStep DEF IInv
<1>1. \A r \in Reports : at'[r] \in {"idle", "link", "upsert", "refused"}
                           => at[r] \in {"idle", "link", "upsert", "refused"} /\ ~Commit(r)
  <2>1. ASSUME NEW r \in Reports, Commit(r) PROVE at'[r] \in {"enqueue", "gates"}
    BY <1>0, <2>1 DEF Commit, Store, Shapes
  <2> QED BY <1>0, <2>1 DEF AtMoves
<1>2. \A r \in Reports : at'[r] \in {"idle", "link", "upsert", "refused"} => ~Known(r)'
  <2>1. ASSUME NEW r \in Reports, ~Known(r), ~Commit(r) PROVE ~Known(r)'
    <3>1. ASSUME NEW q \in Reports, Commit(q) PROVE present' = [present EXCEPT ![q] = "stored"] /\ q # r
      BY <2>1, <3>1 DEF Commit, Store, T!Ingest
    <3>2. ASSUME NEW q \in Reports, DeleteReport(q)
          PROVE  present[q] = "stored" /\ present' = [present EXCEPT ![q] = "deleted"]
      BY <3>2 DEF DeleteReport, T!Delete
    <3> QED BY <1>0, <2>1, <3>1, <3>2, WritersKnown DEF OnlyWriters, Known, Shapes
  <2> QED BY <1>1, <2>1 DEF HistoryIsLocked
\* Every transaction but the one of r keeps what it has.
<1>3. ASSUME NEW s \in Reports, upserted'[s] = upserted[s], staged'[s] = staged[s],
             at[s] = "upsert" => at'[s] = "upsert"
      PROVE  HoldsItsRows(s)'
  <2>1. CASE at[s] = "upsert"
    <3>1. body'[s] = body[s]
      BY <2>1, BodiesStay
    <3> QED BY <1>3, <2>1, <3>1 DEF HistoryIsLocked, HoldsItsRows
  <2>2. CASE at[s] # "upsert"
    <3>1. upserted[s] = 0 /\ DOMAIN staged[s] = {}
      BY <2>2 DEF HistoryIsLocked, HoldsItsRows
    <3>2. 0 \in 0 .. IF at'[s] = "upsert" THEN Len(body'[s].results) ELSE 0
      <4>1. CASE at'[s] = "upsert"
        <5>1. at[s] \in {"idle", "link"}
          BY <1>0, <2>2, <4>1 DEF AtMoves
        <5>2. BodiesAreWellFormed'
          BY BodiesStep
        <5>3. Len(body'[s].results) \in Nat
          BY <4>1, <5>2, ResultsOfPayload DEF BodiesAreWellFormed
        <5> QED BY <4>1, <5>3
      <4> QED BY <4>1
    <3> QED BY <1>3, <3>1, <3>2 DEF HoldsItsRows
  <2> QED BY <2>1, <2>2
<1>4. ASSUME NEW r \in Reports, Commit(r) \/ Abort(r) PROVE HistoryIsLocked'
  <2>1. /\ staged' = [staged EXCEPT ![r] = <<>>] /\ upserted' = [upserted EXCEPT ![r] = 0]
        /\ DOMAIN history' = Keys
    BY <1>4 DEF Commit, Abort, HistoryIsLocked
  <2>2. /\ DOMAIN staged' = Reports /\ DOMAIN upserted' = Reports
        /\ DOMAIN staged'[r] = {} /\ upserted'[r] = 0 /\ at'[r] # "upsert"
        /\ \A s \in Reports \ {r} : /\ staged'[s] = staged[s] /\ upserted'[s] = upserted[s]
                                    /\ at'[s] = at[s]
    <3>1. \E stage \in {"enqueue", "gates", "refused"} : at' = [at EXCEPT ![r] = stage]
      BY <1>4 DEF Commit, Abort, Store
    <3> QED BY <1>0, <2>1, <3>1 DEF HistoryIsLocked, Shapes
  <2>3. HoldsItsRows(r)'
    BY <2>2 DEF HoldsItsRows
  <2>4. \A s \in Reports : HoldsItsRows(s)'
    BY <1>3, <2>2, <2>3
  <2>5. \A s, q \in Reports : s # q => DOMAIN staged'[s] \cap DOMAIN staged'[q] = {}
    BY <2>2 DEF HistoryIsLocked
  <2> QED BY <1>2, <2>1, <2>2, <2>4, <2>5 DEF HistoryIsLocked
<1>5. ASSUME NEW r \in Reports, Upsert(r) PROVE HistoryIsLocked'
  <2> DEFINE k == Key(NextResult(r))
             row == Rolled(IF k \in DOMAIN staged[r] THEN staged[r][k] ELSE history[k], NextResult(r))
             n == upserted[r]
  <2>1. /\ at[r] = "upsert" /\ at' = at /\ history' = history /\ body' = body
        /\ n < Len(body[r].results)
        /\ \A s \in Reports : ~WaitsFor(r, s)
        /\ staged' = [staged EXCEPT ![r] = With(staged[r], k, row)]
        /\ upserted' = [upserted EXCEPT ![r] = n + 1]
    BY <1>5 DEF Upsert, Upserting, WriteRow, HistoryIsLocked
  <2>2. Upserting(r)
    BY <1>5 DEF Upsert
  <2>3. \A s \in Reports \ {r} : k \notin DOMAIN staged[s]
    <3>1. \A s \in Reports : at[s] # "upsert" => DOMAIN staged[s] = {}
      BY DEF HistoryIsLocked, HoldsItsRows
    <3> QED BY <2>1, <2>2, <3>1 DEF WaitsFor, LockedBy
  <2>4. k = Key(body[r].results[n + 1])
    BY DEF NextResult
  <2> HIDE DEF k, row
  <2>5. /\ DOMAIN staged' = Reports /\ DOMAIN upserted' = Reports
        /\ \A s \in Reports \ {r} : staged'[s] = staged[s] /\ upserted'[s] = upserted[s]
        /\ DOMAIN staged'[r] = DOMAIN staged[r] \cup {k} /\ upserted'[r] = n + 1
    BY <2>1 DEF HistoryIsLocked, With
  <2>6. HoldsItsRows(r)'
    <3> DEFINE len == Len(body[r].results)
    <3>1. n \in 0 .. len /\ len \in Nat /\ n < len
      BY <2>1, ResultsOfPayload DEF HistoryIsLocked, HoldsItsRows, BodiesAreWellFormed
    <3>2. DOMAIN staged[r] = {Key(body[r].results[i]) : i \in 1 .. n}
      BY DEF HistoryIsLocked, HoldsItsRows
    <3> HIDE DEF n, len
    <3>3. n + 1 \in 0 .. len /\ 1 .. (n + 1) = (1 .. n) \cup {n + 1}
      BY <3>1
    <3>4. DOMAIN staged'[r] = {Key(body[r].results[i]) : i \in 1 .. (n + 1)}
      BY <2>4, <2>5, <3>2, <3>3
    <3> QED BY <2>1, <2>5, <3>3, <3>4 DEF HoldsItsRows, len
  <2>7. \A s \in Reports : HoldsItsRows(s)'
    BY <1>3, <2>1, <2>5, <2>6
  <2>8. \A s, q \in Reports : s # q => DOMAIN staged'[s] \cap DOMAIN staged'[q] = {}
    BY <2>3, <2>5 DEF HistoryIsLocked
  <2> QED BY <1>2, <2>1, <2>5, <2>7, <2>8 DEF HistoryIsLocked
<1>6. ASSUME UNCHANGED <<upserted, staged, history>>, \A r \in Reports : ~Commit(r) /\ ~Abort(r)
      PROVE  HistoryIsLocked'
  <2>1. \A s \in Reports : at[s] = "upsert" => at'[s] = "upsert"
    BY <1>0, <1>6 DEF AtMoves, OwnSession
  <2>2. \A s \in Reports : HoldsItsRows(s)'
    BY <1>3, <1>6, <2>1
  <2> QED BY <1>2, <1>6, <2>2 DEF HistoryIsLocked
<1> QED BY <1>4, <1>5, <1>6, HistoryWriters

\* In every reachable state.
LEMMA RowsLocked == Spec => []HistoryIsLocked
<1>1. Init => HistoryIsLocked
  <2> SUFFICES ASSUME Init
               PROVE  HistoryIsLocked
    OBVIOUS
  <2>1. /\ DOMAIN staged = Reports /\ DOMAIN upserted = Reports /\ DOMAIN history = Keys
        /\ \A r \in Reports : DOMAIN staged[r] = {} /\ upserted[r] = 0 /\ at[r] = "idle" /\ ~Known(r)
    BY DEF Init, T!Init, Known
  <2> QED BY <2>1 DEF HistoryIsLocked, HoldsItsRows
<1>2. IInv /\ BodiesAreWellFormed /\ HistoryIsLocked /\ [Next]_vars => HistoryIsLocked'
  BY LockStep
<1> QED BY <1>1, <1>2, Invariance, BodiesWellFormed, PTL DEF Spec

-----------------------------------------------------------------------------
(***************************************************************************)
(* What a row of the history says of the durations it was made from.       *)
(***************************************************************************)
\* The average is off the mean by no more than half a millisecond per run.
Near(avg, n, total) ==
  -(n * (n - 1)) <= 2 * (total - avg * n) /\ 2 * (total - avg * n) <= n * (n - 1)

NextAverage(avg, n, d) == Quotient(avg * n + d, n + 1)

Tells(row, took) ==
  LET n     == row.count
      runs  == DOMAIN took
      total == SumOver(took, runs)
  IN  /\ IsFiniteSet(runs) /\ n = Cardinality(runs)
      /\ \A c \in runs : took[c] \in Int
      /\ row.avg \in Int
      /\ Near(row.avg, n, total)
      /\ n > 0 => /\ row.min \in {took[c] : c \in runs} /\ row.max \in {took[c] : c \in runs}
                  /\ row.min <= row.avg /\ row.avg <= row.max

\* The durations with those of one run more.
WithRun(took, c, d) == [q \in DOMAIN took \cup {c} |-> IF q = c THEN d ELSE took[q]]

\* Division towards minus infinity, of what is not negative.
LEMMA Division ==
  ASSUME NEW a \in Nat, NEW b \in Nat, b > 0
  PROVE  a \div b \in Nat /\ (a \div b) * b <= a /\ a < (a \div b) * b + b
OBVIOUS

LEMMA TimesMonotone ==
  ASSUME NEW k \in Int, NEW q \in Int, NEW b \in Nat, b > 0, q < k
  PROVE  q * b + b <= k * b
<1>1. (q + 1) * b <= k * b
  OBVIOUS
<1>2. (q + 1) * b = q * b + b
  OBVIOUS
<1> QED BY <1>1, <1>2

(* A quotient that is truncated towards zero.                              *)
LEMMA QuotientBounds ==
  ASSUME NEW a \in Int, NEW b \in Nat, b > 0
  PROVE  LET q == Quotient(a, b)
         IN  /\ q \in Int /\ -b < a - q * b /\ a - q * b < b
             /\ \A k \in Int : k * b <= a => k <= q
             /\ \A k \in Int : a <= k * b => q <= k
<1>1. CASE a >= 0
  <2> DEFINE q == a \div b
  <2>1. q \in Int /\ q * b <= a /\ a < q * b + b
    BY <1>1, Division
  <2>2. Quotient(a, b) = q
    BY <1>1 DEF Quotient
  <2> HIDE DEF q
  <2>3. q * b \in Int /\ \A k \in Int : k * b \in Int
    BY <2>1
  <2>4. -b < a - q * b /\ a - q * b < b
    BY <2>1, <2>3
  <2>5. ASSUME NEW k \in Int, k * b <= a, ~ (k <= q) PROVE FALSE
    BY <2>1, <2>3, <2>5, TimesMonotone
  <2>6. ASSUME NEW k \in Int, a <= k * b, ~ (q <= k) PROVE FALSE
    BY <2>1, <2>3, <2>6, TimesMonotone
  <2> QED BY <2>1, <2>2, <2>4, <2>5, <2>6
<1>2. CASE ~ (a >= 0)
  <2> DEFINE p == (-a) \div b
             q == -p
  <2>1. p \in Int /\ p * b <= -a /\ -a < p * b + b
    BY <1>2, Division
  <2>2. Quotient(a, b) = q
    BY <1>2 DEF Quotient
  <2> HIDE DEF p
  <2>3. q \in Int /\ q * b = -(p * b) /\ p * b \in Int /\ \A k \in Int : k * b \in Int
    BY <2>1
  <2> HIDE DEF q
  <2>4. -b < a - q * b /\ a - q * b < b
    BY <2>1, <2>3
  <2>5. ASSUME NEW k \in Int, k * b <= a, ~ (k <= q) PROVE FALSE
    BY <2>1, <2>3, <2>5, TimesMonotone
  <2>6. ASSUME NEW k \in Int, a <= k * b, ~ (q <= k) PROVE FALSE
    BY <2>1, <2>3, <2>6, TimesMonotone
  <2> QED BY <2>2, <2>3, <2>4, <2>5, <2>6
<1> QED BY <1>1, <1>2

(* The average, truncated, of one run more.                                *)
LEMMA AverageRolls ==
  ASSUME NEW n \in Nat, NEW avg \in Int, NEW d \in Int, NEW total \in Int,
         Near(avg, n, total)
  PROVE  LET new == NextAverage(avg, n, d)
         IN  /\ new \in Int /\ Near(new, n + 1, total + d)
             /\ \A k \in Int : (n > 0 => k <= avg) /\ k <= d => k <= new
             /\ \A k \in Int : (n > 0 => avg <= k) /\ d <= k => new <= k
<1> DEFINE new == NextAverage(avg, n, d)
           old == avg * n
           all == new * (n + 1)
<1>1. old \in Int /\ n * (n - 1) = n * n - n /\ (n + 1) * n = n * n + n /\ n * n \in Nat
  OBVIOUS
<1>2. /\ new \in Int /\ -(n + 1) < (old + d) - all /\ (old + d) - all < n + 1
      /\ \A k \in Int : k * (n + 1) <= old + d => k <= new
      /\ \A k \in Int : old + d <= k * (n + 1) => new <= k
  <2> DEFINE a == old + d
             b == n + 1
  <2>1. a \in Int /\ b \in Nat /\ b > 0
    BY <1>1
  <2>2. new = Quotient(a, b)
    BY DEF NextAverage
  <2> HIDE DEF a, b, new
  <2>3. /\ new \in Int /\ -b < a - new * b /\ a - new * b < b
        /\ \A k \in Int : k * b <= a => k <= new
        /\ \A k \in Int : a <= k * b => new <= k
    BY <2>1, <2>2, QuotientBounds
  <2> QED BY <2>3 DEF a, b
<1> HIDE DEF new
<1>3. all \in Int
  BY <1>2
<1>4. ASSUME NEW k \in Int, n > 0 => k <= avg, k <= d PROVE k <= new
  <2>1. k * n <= old
    <3>1. CASE n = 0
      BY <3>1
    <3>2. CASE n > 0
      BY <1>4, <3>2
    <3> QED BY <3>1, <3>2
  <2>2. k * (n + 1) = k * n + k /\ k * n \in Int
    OBVIOUS
  <2>3. k * (n + 1) <= old + d
    <3> HIDE DEF old
    <3> QED BY <1>1, <1>4, <2>1, <2>2
  <2> QED BY <1>2, <2>3
<1>5. ASSUME NEW k \in Int, n > 0 => avg <= k, d <= k PROVE new <= k
  <2>1. old <= k * n
    <3>1. CASE n = 0
      BY <3>1
    <3>2. CASE n > 0
      BY <1>5, <3>2
    <3> QED BY <3>1, <3>2
  <2>2. k * (n + 1) = k * n + k /\ k * n \in Int
    OBVIOUS
  <2>3. old + d <= k * (n + 1)
    <3> HIDE DEF old
    <3> QED BY <1>1, <1>5, <2>1, <2>2
  <2> QED BY <1>2, <2>3
<1>6. /\ -((n + 1) * ((n + 1) - 1)) <= 2 * (total + d - all)
      /\ 2 * (total + d - all) <= (n + 1) * ((n + 1) - 1)
  <2> DEFINE sq == n * n
  <2>1. -(sq - n) <= 2 * (total - old) /\ 2 * (total - old) <= sq - n
    BY <1>1 DEF Near
  <2>2. sq \in Nat
    BY <1>1
  <2> HIDE DEF old, all, sq
  <2>3. -(sq + n) <= 2 * (total + d - all) /\ 2 * (total + d - all) <= sq + n
    BY <1>1, <1>2, <1>3, <2>1, <2>2
  <2>4. (n + 1) * ((n + 1) - 1) = sq + n
    BY <1>1 DEF sq
  <2> QED BY <2>3, <2>4
<1>7. Near(new, n + 1, total + d)
  <2> DEFINE m == n + 1
             t == total + d
  <2>1. -(m * (m - 1)) <= 2 * (t - new * m) /\ 2 * (t - new * m) <= m * (m - 1)
    <3>1. new \in Int /\ m \in Nat /\ t \in Int /\ all = new * m /\ (n + 1) - 1 = m - 1
      BY <1>2
    <3> QED BY <1>6, <3>1
  <2> HIDE DEF m, t
  <2>2. Near(new, m, t)
    BY <2>1 DEF Near
  <2> QED BY <2>2 DEF m, t
<1> QED BY <1>2, <1>4, <1>5, <1>7 DEF new

LEMMA RowRolls ==
  ASSUME NEW row, NEW took, Tells(row, took), NEW c, c \notin DOMAIN took,
         NEW res, res.duration \in Int
  PROVE  Tells(Rolled(row, res), WithRun(took, c, res.duration))
<1> DEFINE runs  == DOMAIN took
           n     == row.count
           d     == res.duration
           more  == WithRun(took, c, d)
           total == SumOver(took, runs)
           new   == Rolled(row, res)
<1>1. /\ IsFiniteSet(runs) /\ n = Cardinality(runs) /\ n \in Nat
      /\ \A q \in runs : took[q] \in Int
      /\ row.avg \in Int /\ d \in Int /\ total \in Int
      /\ Near(row.avg, n, total)
      /\ n > 0 => /\ row.min \in {took[q] : q \in runs} /\ row.max \in {took[q] : q \in runs}
                  /\ row.min <= row.avg /\ row.avg <= row.max
  BY SumInteger, FS_CardinalityType DEF Tells
<1>2. /\ DOMAIN more = runs \cup {c} /\ more[c] = d
      /\ \A q \in runs : more[q] = took[q]
  BY DEF WithRun
<1>3. IsFiniteSet(runs \cup {c}) /\ Cardinality(runs \cup {c}) = n + 1
  BY <1>1, FS_AddElement
<1>4. SumOver(more, runs \cup {c}) = total + d
  <2> HIDE DEF more
  <2>1. \A q \in runs \cup {c} : more[q] \in Int
    BY <1>1, <1>2
  <2>2. SumOver(more, runs \cup {c}) = more[c] + SumOver(more, runs)
    BY <1>1, <2>1, SumAddInteger
  <2>3. total = SumOver(more, runs)
    BY <1>1, <1>2, SumEqual
  <2> HIDE DEF total, runs, d, n
  <2> QED BY <1>1, <1>2, <2>2, <2>3
<1>5. /\ new.count = n + 1 /\ new.avg = NextAverage(row.avg, n, d)
      /\ new.min = IF n > 0 /\ row.min < d THEN row.min ELSE d
      /\ new.max = IF n > 0 /\ row.max > d THEN row.max ELSE d
  BY DEF Rolled, NextAverage
<1> HIDE DEF runs, n, d, more, total, new
<1>6. /\ new.avg \in Int /\ Near(new.avg, n + 1, total + d)
      /\ \A k \in Int : (n > 0 => k <= row.avg) /\ k <= d => k <= new.avg
      /\ \A k \in Int : (n > 0 => row.avg <= k) /\ d <= k => new.avg <= k
  <2> DEFINE avg == row.avg
             next == NextAverage(avg, n, d)
  <2>1. avg \in Int /\ Near(avg, n, total) /\ n \in Nat /\ d \in Int /\ total \in Int
    BY <1>1
  <2> HIDE DEF avg
  <2>2. /\ next \in Int /\ Near(next, n + 1, total + d)
        /\ \A k \in Int : (n > 0 => k <= avg) /\ k <= d => k <= next
        /\ \A k \in Int : (n > 0 => avg <= k) /\ d <= k => next <= k
    BY <2>1, AverageRolls
  <2>3. new.avg = next
    BY <1>5 DEF avg
  <2> HIDE DEF next
  <2> QED BY <2>2, <2>3 DEF avg
<1>7. n > 0 => row.min \in Int /\ row.max \in Int
  BY <1>1
<1>8. /\ new.min \in {more[q] : q \in runs \cup {c}} /\ new.max \in {more[q] : q \in runs \cup {c}}
  <2>1. {took[q] : q \in runs} \cup {d} \subseteq {more[q] : q \in runs \cup {c}}
    BY <1>2
  <2>2. new.min \in {took[q] : q \in runs} \cup {d}
    BY <1>1, <1>5
  <2>3. new.max \in {took[q] : q \in runs} \cup {d}
    BY <1>1, <1>5
  <2> QED BY <2>1, <2>2, <2>3
<1>9. new.min <= new.avg
  <2>1. new.min \in Int /\ (n > 0 => new.min <= row.avg) /\ new.min <= d
    <3>1. CASE n > 0 /\ row.min < d
      BY <1>1, <1>5, <1>7, <3>1
    <3>2. CASE ~ (n > 0 /\ row.min < d)
      BY <1>1, <1>5, <1>7, <3>2
    <3> QED BY <3>1, <3>2
  <2> QED BY <1>6, <2>1
<1>10. new.avg <= new.max
  <2>1. new.max \in Int /\ (n > 0 => row.avg <= new.max) /\ d <= new.max
    <3>1. CASE n > 0 /\ row.max > d
      BY <1>1, <1>5, <1>7, <3>1
    <3>2. CASE ~ (n > 0 /\ row.max > d)
      BY <1>1, <1>5, <1>7, <3>2
    <3> QED BY <3>1, <3>2
  <2> QED BY <1>6, <2>1
<1>11. \A q \in runs \cup {c} : more[q] \in Int
  BY <1>1, <1>2
<1>12. Tells(new, more)
  <2> DEFINE all == SumOver(more, DOMAIN more)
             m   == new.count
  <2>1. m = n + 1 /\ all = total + d /\ DOMAIN more = runs \cup {c}
    BY <1>2, <1>4, <1>5
  <2>2. Near(new.avg, m, all)
    <3> HIDE DEF m, all
    <3> QED BY <1>6, <2>1
  <2>3. m > 0 => /\ new.min \in {more[q] : q \in DOMAIN more}
                 /\ new.max \in {more[q] : q \in DOMAIN more}
                 /\ new.min <= new.avg /\ new.avg <= new.max
    BY <1>8, <1>9, <1>10, <2>1
  <2> QED BY <1>3, <1>6, <1>11, <2>1, <2>2, <2>3 DEF Tells
<1> QED BY <1>12 DEF new, more, d

-----------------------------------------------------------------------------
(***************************************************************************)
(* The rows of the history in terms of what was committed.                 *)
(***************************************************************************)

\* The durations of results, each given by its report and its place.
Durations(C) == [c \in C |-> body[c[1]].results[c[2]].duration]

\* What the transaction of r has upserted under k, on top of what is committed.
Done(r, k) == {i \in 1 .. upserted[r] : Key(body[r].results[i]) = k}

Staged(r, k) == Committed(k) \cup ({r} \X Done(r, k))

\* A row in the table stands for what is committed, a row that a transaction
\* holds for its own results too.
HistoryIsRolled ==
  /\ \A k \in Keys : Tells(history[k], Durations(Committed(k)))
  /\ \A r \in Reports : \A k \in DOMAIN staged[r] : Tells(staged[r][k], Durations(Staged(r, k)))

\* A committed result, and where it is.
LEMMA CommittedPlaces ==
  \A k, c : c \in Committed(k) <=>
    \E r \in Reports : \E i \in Positions(r, k) : Known(r) /\ c = <<r, i>>
<1> SUFFICES ASSUME NEW k, NEW c
             PROVE  c \in Committed(k) <=>
                      \E r \in Reports : \E i \in Positions(r, k) : Known(r) /\ c = <<r, i>>
  OBVIOUS
<1> HIDE DEF Positions
<1> QED BY DEF Committed, Known

\* A report is committed once, with the body it came with.
LEMMA CommittedMoves ==
  ASSUME IInv, BodiesAreWellFormed, HistoryIsLocked, [Next]_vars, NEW k \in Keys
  PROVE  \/ Committed(k)' = Committed(k) /\ \A r \in Reports : ~Commit(r)
         \/ \E r \in Reports :
              Commit(r) /\ Committed(k)' = Committed(k) \cup ({r} \X Positions(r, k))
<1>0. Shapes /\ \A r \in Reports : Known(r) => body'[r] = body[r]
  BY BodiesStay DEF IInv, BodiesAreWellFormed
<1>1. ASSUME NEW r \in Reports, Commit(r)
      PROVE  Committed(k)' = Committed(k) \cup ({r} \X Positions(r, k))
  <2>1. body' = body /\ present' = [present EXCEPT ![r] = "stored"]
    BY <1>1 DEF Commit, Store, T!Ingest
  <2>2. {q \in Reports : present'[q] # "none"} = {q \in Reports : present[q] # "none"} \cup {r}
    BY <1>0, <2>1 DEF Shapes
  <2>3. \A q : Positions(q, k)' = Positions(q, k)
    BY <2>1 DEF Positions
  <2> DEFINE known == {q \in Reports : present[q] # "none"}
  <2>4. Committed(k)' = UNION {{q} \X Positions(q, k) : q \in known \cup {r}}
    BY <2>2, <2>3 DEF Committed
  <2>5. Committed(k) = UNION {{q} \X Positions(q, k) : q \in known}
    BY DEF Committed
  <2> HIDE DEF known
  <2> QED BY <2>4, <2>5
<1>2. ASSUME \A r \in Reports : ~Commit(r)
      PROVE  Committed(k)' = Committed(k)
  <2>1. \A r \in Reports : present'[r] = "none" <=> present[r] = "none"
    <3>1. ASSUME NEW r \in Reports, DeleteReport(r)
          PROVE  present[r] = "stored" /\ present' = [present EXCEPT ![r] = "deleted"]
      BY <3>1 DEF DeleteReport, T!Delete
    <3> QED BY <1>0, <1>2, <3>1, WritersKnown DEF OnlyWriters, Shapes
  <2>2. \A r \in Reports : Known(r) => Positions(r, k)' = Positions(r, k)
    BY <1>0 DEF Positions
  <2>3. {q \in Reports : present'[q] # "none"} = {q \in Reports : present[q] # "none"}
    BY <2>1
  <2> QED BY <2>2, <2>3 DEF Committed, Known
<1> QED BY <1>1, <1>2

\* Results in the history stay what they were.
LEMMA CommittedBodiesStay ==
  ASSUME IInv, BodiesAreWellFormed, [Next]_vars, NEW k
  PROVE  \A c \in Committed(k) : body'[c[1]] = body[c[1]]
<1>1. \A r \in Reports : Known(r) => body'[r] = body[r]
  BY BodiesStay DEF BodiesAreWellFormed
<1> QED BY <1>1, CommittedPlaces

\* An upsert folds the duration of one result into the row that stands for
\* the others.
LEMMA UpsertRolls ==
  ASSUME IInv, BodiesAreWellFormed, HistoryIsLocked, HistoryIsRolled, [Next]_vars,
         NEW r \in Reports, Upsert(r)
  PROVE  \A k \in DOMAIN staged'[r] : Tells(staged'[r][k], Durations(Staged(r, k))')
<1>0. PICK n, res, k0 : n = upserted[r] /\ res = body[r].results[n + 1] /\ k0 = Key(res)
  OBVIOUS
<1> DEFINE row == IF k0 \in DOMAIN staged[r] THEN staged[r][k0] ELSE history[k0]
<1>1. /\ at[r] = "upsert" /\ body' = body /\ present' = present /\ n < Len(body[r].results)
      /\ staged' = [staged EXCEPT ![r] = With(staged[r], k0, Rolled(row, res))]
      /\ upserted' = [upserted EXCEPT ![r] = n + 1]
  BY <1>0 DEF Upsert, Upserting, WriteRow, NextResult, HistoryIsLocked, triageVars
<1>2. /\ n \in Nat /\ n + 1 \in DOMAIN body[r].results
      /\ k0 \in Keys /\ res.duration \in Int
      /\ 1 .. (n + 1) = (1 .. n) \cup {n + 1}
      /\ ~Known(r)
  <2>1. WellFormed(body[r])
    BY <1>1 DEF BodiesAreWellFormed
  <2>2. n \in Nat /\ Len(body[r].results) \in Nat
    BY <1>0, <1>1, <2>1, ResultsOfPayload DEF HistoryIsLocked, HoldsItsRows
  <2>3. n + 1 \in 1 .. Len(body[r].results) /\ 1 .. (n + 1) = (1 .. n) \cup {n + 1}
    BY <1>1, <2>2
  <2> QED BY <1>0, <1>1, <2>1, <2>2, <2>3, ResultsOfPayload DEF HistoryIsLocked
<1> HIDE DEF row
<1>3. /\ DOMAIN staged'[r] = DOMAIN staged[r] \cup {k0}
      /\ staged'[r][k0] = Rolled(row, res)
      /\ \A k \in DOMAIN staged[r] : k # k0 => staged'[r][k] = staged[r][k]
      /\ upserted'[r] = n + 1
  BY <1>1 DEF With, HistoryIsLocked
<1>4. /\ Done(r, k0)' = Done(r, k0) \cup {n + 1} /\ n + 1 \notin Done(r, k0)
      /\ \A k : k # k0 => Done(r, k)' = Done(r, k)
  <2>1. \A k : Done(r, k)' = {i \in (1 .. n) \cup {n + 1} : Key(body[r].results[i]) = k}
    BY <1>1, <1>2, <1>3 DEF Done
  <2>2. \A k : Done(r, k) = {i \in 1 .. n : Key(body[r].results[i]) = k}
    BY <1>0 DEF Done
  <2>3. Key(body[r].results[n + 1]) = k0 /\ n + 1 \notin 1 .. n
    BY <1>0, <1>2
  <2> QED BY <2>1, <2>2, <2>3
<1>5. \A k : Committed(k)' = Committed(k)
  BY <1>1 DEF Committed, Positions
<1>6. ASSUME NEW k \in DOMAIN staged[r], k # k0
      PROVE  Tells(staged'[r][k], Durations(Staged(r, k))')
  <2>1. Staged(r, k)' = Staged(r, k)
    BY <1>4, <1>5, <1>6 DEF Staged
  <2>2. Durations(Staged(r, k))' = Durations(Staged(r, k))
    BY <1>1, <2>1 DEF Durations
  <2> QED BY <1>3, <1>6, <2>2 DEF HistoryIsRolled
<1>7. Tells(staged'[r][k0], Durations(Staged(r, k0))')
  <2> DEFINE C == Staged(r, k0)
             c == <<r, n + 1>>
  <2>1. c \notin C /\ Staged(r, k0)' = C \cup {c}
    <3>1. c \notin Committed(k0)
      <4>1. \A q, i : c = <<q, i>> => q = r
        OBVIOUS
      <4> QED BY <1>2, <4>1, CommittedPlaces
    <3>2. c \notin {r} \X Done(r, k0)
      BY <1>4
    <3>3. {r} \X (Done(r, k0) \cup {n + 1}) = ({r} \X Done(r, k0)) \cup {c}
      OBVIOUS
    <3> QED BY <1>4, <1>5, <3>1, <3>2, <3>3 DEF Staged
  <2>2. Tells(row, Durations(C))
    <3>1. CASE k0 \in DOMAIN staged[r]
      BY <3>1 DEF HistoryIsRolled, row
    <3>2. CASE k0 \notin DOMAIN staged[r]
      <4>1. Done(r, k0) = {}
        BY <3>2 DEF Done, HistoryIsLocked, HoldsItsRows
      <4>2. C = Committed(k0)
        BY <4>1 DEF Staged
      <4> QED BY <1>2, <3>2, <4>2 DEF HistoryIsRolled, row
    <3> QED BY <3>1, <3>2
  <2>3. Durations(Staged(r, k0))' = WithRun(Durations(C), c, res.duration)
    <3>1. Durations(Staged(r, k0))' = [q \in C \cup {c} |-> body[q[1]].results[q[2]].duration]
      BY <1>1, <2>1 DEF Durations
    <3>2. body[c[1]].results[c[2]].duration = res.duration
      BY <1>0
    <3> HIDE DEF C, c
    <3> QED BY <3>1, <3>2 DEF WithRun, Durations
  <2>4. c \notin DOMAIN Durations(C)
    BY <2>1 DEF Durations
  <2> HIDE DEF C, c
  <2> QED BY <1>2, <1>3, <2>2, <2>3, <2>4, RowRolls
<1> QED BY <1>3, <1>6, <1>7

\* A commit puts the rows of the transaction in place of those of the table.
LEMMA CommitRolls ==
  ASSUME IInv, BodiesAreWellFormed, HistoryIsLocked, HistoryIsRolled, [Next]_vars,
         NEW r \in Reports, Commit(r)
  PROVE  /\ \A k \in Keys : Tells(history'[k], Durations(Committed(k))')
         /\ \A k \in Keys \ DOMAIN staged[r] : Committed(k)' = Committed(k)
<1>1. /\ at[r] = "upsert" /\ body' = body /\ upserted[r] >= Len(body[r].results)
      /\ present' = [present EXCEPT ![r] = "stored"]
      /\ history' = [k \in Keys |-> IF k \in DOMAIN staged[r] THEN staged[r][k] ELSE history[k]]
  <2>1. WellFormed(body[r]) /\ at[r] = "upsert"
    BY DEF Commit, BodiesAreWellFormed
  <2>2. Len(body[r].results) \in Nat /\ upserted[r] \in 0 .. Len(body[r].results)
    BY <2>1, ResultsOfPayload DEF HistoryIsLocked, HoldsItsRows
  <2> QED BY <2>2 DEF Commit, Store, T!Ingest, Upserting
<1>2. /\ DOMAIN body[r].results = 1 .. upserted[r]
      /\ DOMAIN staged[r] = {Key(body[r].results[i]) : i \in 1 .. upserted[r]}
  <2>1. WellFormed(body[r])
    BY <1>1 DEF BodiesAreWellFormed
  <2>2. upserted[r] = Len(body[r].results)
    BY <1>1, <2>1, ResultsOfPayload DEF HistoryIsLocked, HoldsItsRows
  <2> QED BY <2>1, <2>2, ResultsOfPayload DEF HistoryIsLocked, HoldsItsRows
<1>3. \A k : Done(r, k) = Positions(r, k)
  BY <1>2 DEF Done, Positions
<1>4. ASSUME NEW k \in Keys
      PROVE  Committed(k)' = Committed(k) \cup ({r} \X Positions(r, k))
  <2>1. \A q \in Reports : Commit(q) => q = r
    <3>1. ASSUME NEW q \in Reports, Commit(q), q # r PROVE FALSE
      <4>1. at'[q] # "upsert" /\ at[q] = "upsert"
        BY <3>1 DEF Commit, Store, IInv, Shapes
      <4>2. at'[q] = at[q]
        BY <3>1 DEF Commit, Store, IInv, Shapes
      <4> QED BY <4>1, <4>2
    <3> QED BY <3>1
  <2> QED BY <2>1, CommittedMoves
<1>5. ASSUME NEW k \in Keys PROVE Tells(history'[k], Durations(Committed(k))')
  <2>1. CASE k \in DOMAIN staged[r]
    <3>1. Committed(k)' = Staged(r, k)
      BY <1>3, <1>4 DEF Staged
    <3>2. Durations(Committed(k))' = Durations(Staged(r, k))
      BY <1>1, <3>1 DEF Durations
    <3> QED BY <1>1, <2>1, <3>2 DEF HistoryIsRolled
  <2>2. CASE k \notin DOMAIN staged[r]
    <3>1. Committed(k)' = Committed(k)
      BY <1>2, <1>4, <2>2 DEF Positions
    <3>2. Durations(Committed(k))' = Durations(Committed(k))
      BY <1>1, <3>1 DEF Durations
    <3> QED BY <1>1, <2>2, <3>2 DEF HistoryIsRolled
  <2> QED BY <2>1, <2>2
<1>6. ASSUME NEW k \in Keys \ DOMAIN staged[r] PROVE Committed(k)' = Committed(k)
  BY <1>2, <1>4, <1>6 DEF Positions
<1> QED BY <1>5, <1>6

\* Where r does not write, its rows stand for what they stood for.
LEMMA RowsStay ==
  ASSUME IInv, BodiesAreWellFormed, HistoryIsLocked, HistoryIsRolled, [Next]_vars,
         NEW r \in Reports, NEW k \in DOMAIN staged[r],
         staged'[r] = staged[r], upserted'[r] = upserted[r], Committed(k)' = Committed(k)
  PROVE  Tells(staged'[r][k], Durations(Staged(r, k))')
<1>1. at[r] = "upsert"
  <2>1. at[r] # "upsert" => upserted[r] = 0
    BY DEF HistoryIsLocked, HoldsItsRows
  <2>2. upserted[r] = 0 => DOMAIN staged[r] = {}
    BY DEF HistoryIsLocked, HoldsItsRows
  <2> QED BY <2>1, <2>2
<1>2. body'[r] = body[r]
  BY <1>1, BodiesStay
<1>3. Staged(r, k)' = Staged(r, k)
  BY <1>2 DEF Staged, Done
<1>4. \A c \in Staged(r, k) : body'[c[1]] = body[c[1]]
  BY <1>2, CommittedBodiesStay DEF Staged
<1>5. Durations(Staged(r, k))' = Durations(Staged(r, k))
  BY <1>3, <1>4 DEF Durations
<1> QED BY <1>5 DEF HistoryIsRolled

LEMMA RollStep ==
  ASSUME IInv, BodiesAreWellFormed, HistoryIsLocked, HistoryIsRolled, [Next]_vars
  PROVE  HistoryIsRolled'
<1>0. \A r \in Reports : DOMAIN staged[r] \subseteq Keys
  <2> SUFFICES ASSUME NEW r \in Reports, NEW k \in DOMAIN staged[r] PROVE k \in Keys
    OBVIOUS
  <2>1. PICK i \in 1 .. upserted[r] : k = Key(body[r].results[i])
    BY DEF HistoryIsLocked, HoldsItsRows
  <2>2. at[r] = "upsert" /\ upserted[r] \in 0 .. Len(body[r].results)
    BY <2>1 DEF HistoryIsLocked, HoldsItsRows
  <2>3. WellFormed(body[r])
    BY <2>2 DEF BodiesAreWellFormed
  <2>4. i \in DOMAIN body[r].results
    BY <2>1, <2>2, <2>3, ResultsOfPayload
  <2> QED BY <2>1, <2>3, <2>4, ResultsOfPayload
<1>1. ASSUME NEW r \in Reports, Commit(r) PROVE HistoryIsRolled'
  <2>1. /\ DOMAIN staged'[r] = {}
        /\ \A s \in Reports \ {r} : /\ staged'[s] = staged[s] /\ upserted'[s] = upserted[s]
                                    /\ DOMAIN staged[s] \cap DOMAIN staged[r] = {}
    BY <1>1 DEF Commit, HistoryIsLocked
  <2>2. \A k \in Keys : Tells(history'[k], Durations(Committed(k))')
    BY <1>1, CommitRolls
  <2>3. ASSUME NEW s \in Reports \ {r}, NEW k \in DOMAIN staged[s]
        PROVE  Tells(staged'[s][k], Durations(Staged(s, k))')
    <3>1. k \in Keys \ DOMAIN staged[r]
      BY <1>0, <2>1
    <3>2. Committed(k)' = Committed(k)
      BY <1>1, <3>1, CommitRolls
    <3> QED BY <2>1, <3>2, RowsStay
  <2> QED BY <2>1, <2>2, <2>3 DEF HistoryIsRolled
<1>2. ASSUME \A r \in Reports : ~Commit(r)
      PROVE  \A k \in Keys : /\ Committed(k)' = Committed(k)
                             /\ Tells(history'[k], Durations(Committed(k))')
  <2>1. history' = history
    BY <1>2, HistoryWriters DEF Upsert, Abort
  <2> SUFFICES ASSUME NEW k \in Keys
               PROVE  /\ Committed(k)' = Committed(k)
                      /\ Tells(history'[k], Durations(Committed(k))')
    OBVIOUS
  <2>2. Committed(k)' = Committed(k)
    BY <1>2, CommittedMoves
  <2>3. Durations(Committed(k))' = Durations(Committed(k))
    BY <2>2, CommittedBodiesStay DEF Durations
  <2> QED BY <2>1, <2>2, <2>3 DEF HistoryIsRolled
<1>3. ASSUME NEW r \in Reports, Upsert(r), \A q \in Reports : ~Commit(q) PROVE HistoryIsRolled'
  <2>1. \A s \in Reports \ {r} : staged'[s] = staged[s] /\ upserted'[s] = upserted[s]
    BY <1>3 DEF Upsert, WriteRow, HistoryIsLocked
  <2>2. \A s \in Reports \ {r} : \A k \in DOMAIN staged[s] :
          Tells(staged'[s][k], Durations(Staged(s, k))')
    BY <1>0, <1>2, <1>3, <2>1, RowsStay
  <2>3. \A k \in DOMAIN staged'[r] : Tells(staged'[r][k], Durations(Staged(r, k))')
    BY <1>3, UpsertRolls
  <2> QED BY <1>2, <1>3, <2>1, <2>2, <2>3 DEF HistoryIsRolled
<1>4. ASSUME NEW r \in Reports, Abort(r), \A q \in Reports : ~Commit(q) PROVE HistoryIsRolled'
  <2>1. /\ DOMAIN staged'[r] = {}
        /\ \A s \in Reports \ {r} : staged'[s] = staged[s] /\ upserted'[s] = upserted[s]
    BY <1>4 DEF Abort, HistoryIsLocked
  <2>2. \A s \in Reports \ {r} : \A k \in DOMAIN staged[s] :
          Tells(staged'[s][k], Durations(Staged(s, k))')
    BY <1>0, <1>2, <1>4, <2>1, RowsStay
  <2> QED BY <1>2, <1>4, <2>1, <2>2 DEF HistoryIsRolled
<1>5. ASSUME UNCHANGED <<upserted, staged, history>>, \A q \in Reports : ~Commit(q)
      PROVE  HistoryIsRolled'
  <2>1. \A s \in Reports : \A k \in DOMAIN staged[s] :
          Tells(staged'[s][k], Durations(Staged(s, k))')
    BY <1>0, <1>2, <1>5, RowsStay
  <2> QED BY <1>2, <1>5, <2>1 DEF HistoryIsRolled
<1> QED BY <1>1, <1>3, <1>4, <1>5, HistoryWriters

LEMMA RollStart == Init => HistoryIsRolled
<1> SUFFICES ASSUME Init
             PROVE  HistoryIsRolled
  OBVIOUS
<1>1. \A r \in Reports : DOMAIN staged[r] = {} /\ present[r] = "none"
  BY DEF Init, T!Init
<1>2. ASSUME NEW k \in Keys PROVE Tells(history[k], Durations(Committed(k)))
  <2>1. Committed(k) = {}
    BY <1>1 DEF Committed
  <2> DEFINE took == Durations(Committed(k))
  <2>2. DOMAIN took = {}
    BY <2>1 DEF Durations
  <2>3. history[k] = NoHistory
    BY DEF Init
  <2>4. NoHistory.count = 0 /\ NoHistory.avg = 0
    BY DEF NoHistory
  <2> HIDE DEF took
  <2>5. SumOver(took, {}) = 0
    BY SumEmpty
  <2>6. Near(0, 0, 0)
    BY DEF Near
  <2>7. IsFiniteSet({}) /\ Cardinality({}) = 0
    BY FS_EmptySet
  <2>8. Tells(NoHistory, took)
    BY <2>2, <2>4, <2>5, <2>6, <2>7 DEF Tells
  <2> QED BY <2>3, <2>8 DEF took
<1> QED BY <1>1, <1>2 DEF HistoryIsRolled

\* Rows in the table and rows being written stand for the runs they count.
LEMMA HistoryRolled == Spec => []HistoryIsRolled
<1>1. IInv /\ BodiesAreWellFormed /\ HistoryIsLocked /\ HistoryIsRolled /\ [Next]_vars
      => HistoryIsRolled'
  BY RollStep
<1> QED BY RollStart, <1>1, Invariance, BodiesWellFormed, RowsLocked, PTL DEF Spec

\* What is taken for a row are the durations of what is committed under it.
LEMMA RolledIsTaken ==
  ASSUME HistoryIsRolled, NEW k \in Keys
  PROVE  Tells(history[k], Took(k)) /\ DOMAIN Took(k) = Committed(k)
BY DEF HistoryIsRolled, Took, Durations

(* No run is lost from the duration history and none is counted twice,     *)
(* whatever submissions overlap, wait for each other, fail or are ended as *)
(* victims of a deadlock.                                                  *)
THEOREM NoRunIsLost == Spec => []HistoryCountsResults
<1>1. HistoryIsRolled => HistoryCountsResults
  BY RolledIsTaken DEF Tells, HistoryCountsResults
<1> QED BY <1>1, HistoryRolled, PTL

(* The duration history, from which shard plans are made, says what the    *)
(* committed reports say of each test in each suite, however their         *)
(* transactions overlap and whatever a payload repeats: how often it ran,  *)
(* its shortest and longest run, and an average between the two whose      *)
(* truncations add up to no more than half a millisecond per run.          *)
THEOREM HistoryTellsTheTruth == Spec => []HistoryIsTrue
<1>1. HistoryIsRolled => HistoryIsPlausible
  <2> SUFFICES ASSUME HistoryIsRolled, NEW k \in Keys, history[k].count > 0
               PROVE  LET n     == history[k].count
                          took  == Took(k)
                          total == MapThenSumSet(LAMBDA c : took[c], DOMAIN took)
                          drift == total - history[k].avg * n
                          seen  == {took[c] : c \in DOMAIN took}
                      IN  /\ history[k].min \in seen /\ history[k].max \in seen
                          /\ history[k].min <= history[k].avg
                          /\ history[k].avg <= history[k].max
                          /\ -(n * (n - 1)) <= 2 * drift /\ 2 * drift <= n * (n - 1)
    BY DEF HistoryIsPlausible
  <2> DEFINE took == Took(k)
             row  == history[k]
             all  == SumOver(took, DOMAIN took)
  <2>1. Tells(row, took) /\ row.count > 0
    BY RolledIsTaken
  <2>2. /\ row.min \in {took[c] : c \in DOMAIN took} /\ row.max \in {took[c] : c \in DOMAIN took}
        /\ row.min <= row.avg /\ row.avg <= row.max
        /\ Near(row.avg, row.count, all)
    <3> HIDE DEF took, row
    <3> QED BY <2>1 DEF Tells
  <2>3. all = MapThenSumSet(LAMBDA c : took[c], DOMAIN took)
    BY DEF SumOver
  <2> HIDE DEF all
  <2> QED BY <2>2, <2>3 DEF Near
<1> QED BY <1>1, HistoryRolled, NoRunIsLost, PTL DEF HistoryIsTrue

-----------------------------------------------------------------------------
(***************************************************************************)
(* What excuses a failure.                                                 *)
(***************************************************************************)

\* Another report, there or there once, has the names among its failed ones.
Excused(names, r) ==
  names = {} \/ \E s \in Reports \ {r} : Known(s) /\ names \subseteq FailedNames(body[s])

\* What a session has read of the baseline, or is about to.
Founded(s) ==
  s.at \in Evaluating => /\ s.base \in {None} \cup (Reports \ {s.report})
                         /\ s.at = "names" => s.base # None
                         /\ Excused(s.previous, s.report)

Judged(e) ==
  e.passed /\ (\E rule \in e.rules : rule.type = "no_new_failures")
    => Excused(SurelyFailed(e), e.report)

FailuresAreFounded ==
  /\ \A x \in Sessions : Founded(session[x])
  /\ \A e \in evaluations : Judged(e)

\* An excuse stands.
LEMMA ExcuseStands ==
  ASSUME IInv, BodiesAreWellFormed, [Next]_vars, NEW names, NEW r, Excused(names, r)
  PROVE  names = {} \/ \E s \in Reports \ {r} : Known(s)' /\ names \subseteq FailedNames(body'[s])
<1>1. \A s \in Reports : Known(s) => Known(s)' /\ body'[s] = body[s]
  BY KnownLasts, BodiesStay DEF IInv, BodiesAreWellFormed
<1> QED BY <1>1 DEF Excused

\* Sessions take their excuses from another report, and keep them.
LEMMA SessionsFounded ==
  ASSUME IInv, FailuresAreFounded, [Next]_vars
  PROVE  \A x \in Sessions : Founded(session'[x])
<1> DEFINE Goal == \A x \in Sessions : Founded(session'[x])
<1>0. /\ DOMAIN session = Sessions /\ \A x \in Sessions : IsSession(session[x])
      /\ \A x \in Sessions : Founded(session[x])
      /\ Reports \subseteq Sessions /\ Requests \subseteq Sessions /\ None \notin Reports
  BY ReportsAssumption DEF IInv, Shapes, Sessions, FailuresAreFounded
<1>1. ASSUME session' = session PROVE Goal
  BY <1>0, <1>1
<1>2. ASSUME NEW x \in Sessions, NEW s, session' = [session EXCEPT ![x] = s], Founded(s)
      PROVE  Goal
  BY <1>0, <1>2
<1>3. \A r, todo : Founded([Idle EXCEPT !.at = "baseline", !.report = r, !.todo = todo])
  BY DEF Founded, Idle, Excused
<1>4. ASSUME NEW x \in Sessions, Leave(x) PROVE Goal
  <2>1. Founded([Idle EXCEPT !.at = "over"])
    BY DEF Founded, Idle, Evaluating
  <2> QED BY <1>2, <1>4, <2>1 DEF Leave
<1>5. ASSUME NEW r \in Reports, ListGates(r) PROVE Goal
  <2>1. \/ session' = session
        \/ \E todo : session' = [session EXCEPT ![r] =
                       [Idle EXCEPT !.at = "baseline", !.report = r, !.todo = todo]]
    BY <1>5 DEF ListGates
  <2> QED BY <1>0, <1>1, <1>2, <1>3, <2>1
<1>6. ASSUME NEW x \in Requests, Ask(x) PROVE Goal
  <2>1. \E r, todo : session' = [session EXCEPT ![x] =
                       [Idle EXCEPT !.at = "baseline", !.report = r, !.todo = todo]]
    BY <1>6 DEF Ask
  <2> QED BY <1>0, <1>2, <1>3, <2>1
<1>7. ASSUME NEW x \in Sessions, ReadBaseline(x) PROVE Goal
  <2>0. session[x].at \in Evaluating /\ IsSession(session[x]) /\ Founded(session[x])
    BY <1>0, <1>7 DEF ReadBaseline, Evaluating
  <2>1. CASE session' = [session EXCEPT ![x].at = "rules"]
    <3> DEFINE s == [session[x] EXCEPT !.at = "rules"]
    <3>1. session' = [session EXCEPT ![x] = s]
      BY <1>0, <2>1
    <3>2. Founded(s)
      BY <2>0 DEF Founded, IsSession
    <3> HIDE DEF s
    <3> QED BY <1>2, <3>1, <3>2
  <2>2. ASSUME NEW q \in Latest(session[x].report),
               session' = [session EXCEPT ![x].at = "names", ![x].base = q]
        PROVE  Goal
    <3> DEFINE s == [session[x] EXCEPT !.at = "names", !.base = q]
    <3>1. session' = [session EXCEPT ![x] = s]
      BY <1>0, <2>2
    <3>2. q \in Reports \ {session[x].report}
      BY DEF Latest
    <3>3. Founded(s)
      BY <1>0, <2>0, <3>2 DEF Founded, IsSession
    <3> HIDE DEF s
    <3> QED BY <1>2, <3>1, <3>3
  <2> QED BY <1>4, <1>7, <2>1, <2>2 DEF ReadBaseline
<1>8. ASSUME NEW x \in Sessions, ReadNames(x) PROVE Goal
  <2> DEFINE base     == session[x].base
             previous == IF Stored(base) THEN FailedNames(body[base]) ELSE {}
             s        == [session[x] EXCEPT !.at = "rules", !.base = None, !.previous = previous]
  <2>0. /\ session[x].at = "names" /\ IsSession(session[x])
        /\ base \in Reports \ {session[x].report}
    BY <1>0, <1>8 DEF ReadNames, Founded, Evaluating
  <2>1. CASE session' = [session EXCEPT ![x].at = "rules", ![x].base = None, ![x].previous = previous]
    <3>1. session' = [session EXCEPT ![x] = s]
      <4> HIDE DEF previous
      <4> QED BY <1>0, <2>1
    <3>2. Excused(previous, session[x].report)
      BY <2>0 DEF Excused, Known, Stored
    <3> HIDE DEF previous
    <3>3. Founded(s)
      BY <2>0, <3>2 DEF Founded, IsSession
    <3> HIDE DEF s
    <3> QED BY <1>2, <3>1, <3>3
  <2> QED BY <1>4, <1>8, <2>1 DEF ReadNames
<1>9. ASSUME NEW x \in Sessions, EvaluateGate(x) PROVE Goal
  <2>1. PICK todo : session' = [session EXCEPT ![x].todo = @ \ {todo}]
    BY <1>9 DEF EvaluateGate
  <2> DEFINE s == [session[x] EXCEPT !.todo = @ \ {todo}]
  <2>2. session' = [session EXCEPT ![x] = s]
    BY <1>0, <2>1
  <2>3. IsSession(session[x]) /\ Founded(session[x])
    BY <1>0
  <2>4. Founded(s)
    BY <2>3 DEF Founded, IsSession
  <2> HIDE DEF s
  <2> QED BY <1>2, <2>2, <2>4
<1>10. ASSUME NEW x \in Sessions, EndEvaluation(x) PROVE Goal
  BY <1>4, <1>10 DEF EndEvaluation
<1> HIDE DEF Goal
<1>11. Goal
  BY <1>1, <1>5, <1>6, <1>7, <1>8, <1>9, <1>10, WritersKnown DEF OnlyWriters, EvaluationStep
<1> QED BY <1>11 DEF Goal

\* Whatever failed in all its results, or for Create in any, is measured.
LEMMA FailuresAreLookedAt ==
  ASSUME IInv, NEW x \in Sessions, session[x].at = "rules", NEW K \in Looks(x),
         NEW e, e.report = session[x].report, e.by = x
  PROVE  SurelyFailed(e) \subseteq Data(x, K).current
<1> DEFINE r == session[x].report
           b == body[r]
<1>0. r \in Reports /\ (x \in Reports => r = x)
  BY DEF IInv, RefersToKnown, OwnSession, Evaluating
<1>1. Data(x, K).current = {b.results[k].name : k \in {j \in K : b.results[j].status = "failed"}}
  BY DEF Data
<1>2. CASE x \in Reports
  <2>1. K = DOMAIN b.results
    BY <1>2 DEF Looks
  <2>2. SurelyFailed(e) = FailedNames(b)
    BY <1>0, <1>2 DEF SurelyFailed
  <2> QED BY <1>1, <2>1, <2>2 DEF FailedNames, ToSet
<1>3. CASE x \notin Reports
  <2>1. /\ K \in SUBSET DOMAIN b.results
        /\ \A t \in Names(b) : Cardinality({k \in K : b.results[k].name = t}) = 1
    BY <1>3 DEF Looks
  <2>2. SurelyFailed(e) = Names(b) \ {b.results[k].name : k \in {j \in DOMAIN b.results :
                                                             b.results[j].status # "failed"}}
    BY <1>0, <1>3 DEF SurelyFailed
  <2>3. ASSUME NEW t \in SurelyFailed(e) PROVE t \in Data(x, K).current
    <3>1. t \in Names(b) /\ \A j \in DOMAIN b.results : b.results[j].name = t => b.results[j].status = "failed"
      BY <2>2
    <3>2. {k \in K : b.results[k].name = t} # {}
      BY <2>1, <3>1, FS_EmptySet
    <3> QED BY <1>1, <2>1, <3>1, <3>2
  <2> QED BY <2>3
<1> QED BY <1>2, <1>3

\* An evaluation that is written is judged by what its session has read.
LEMMA EvaluationsFounded ==
  ASSUME IInv, FailuresAreFounded, [Next]_vars
  PROVE  \A e \in evaluations' : Judged(e)
<1> SUFFICES ASSUME NEW e \in evaluations', e \notin evaluations PROVE Judged(e)
  BY DEF FailuresAreFounded
<1>1. PICK x \in Sessions : \E todo \in session[x].todo, K \in Looks(x) :
        /\ session[x].at = "rules"
        /\ e = [gate |-> todo.gate, report |-> session[x].report, rules |-> todo.rules,
                passed |-> Passes(todo.rules, Data(x, K)), by |-> x]
  BY EvaluationsStep DEF EvaluationMoves
<1>2. PICK todo \in session[x].todo, K \in Looks(x) :
        /\ session[x].at = "rules"
        /\ e = [gate |-> todo.gate, report |-> session[x].report, rules |-> todo.rules,
                passed |-> Passes(todo.rules, Data(x, K)), by |-> x]
  BY <1>1
<1> DEFINE data == Data(x, K)
<1>3. /\ e.report = session[x].report /\ e.rules = todo.rules /\ e.by = x
      /\ e.passed <=> Passes(todo.rules, data)
  BY <1>2
<1>4. SurelyFailed(e) \subseteq data.current
  BY <1>2, <1>3, FailuresAreLookedAt
<1>5. data.previous = session[x].previous
  BY DEF Data
<1>6. Excused(session[x].previous, session[x].report)
  BY <1>2 DEF FailuresAreFounded, Founded, Evaluating
<1> HIDE DEF data
<1>7. ASSUME NEW rule \in todo.rules, rule.type = "no_new_failures", Passes(todo.rules, data)
      PROVE  data.current \subseteq data.previous
  <2>1. Holds(rule, data)
    BY <1>7 DEF Passes
  <2> QED BY <1>7, <2>1 DEF Holds, NewFailures
<1>8. ASSUME SurelyFailed(e) \subseteq session[x].previous
      PROVE  Excused(SurelyFailed(e), session[x].report)
  BY <1>6, <1>8 DEF Excused
<1> QED BY <1>3, <1>4, <1>5, <1>7, <1>8 DEF Judged

LEMMA FoundedStep ==
  ASSUME IInv, BodiesAreWellFormed, FailuresAreFounded, [Next]_vars
  PROVE  FailuresAreFounded'
<1>1. ASSUME NEW x \in Sessions PROVE Founded(session[x])'
  <2>1. Founded(session'[x])
    BY SessionsFounded
  <2> DEFINE s == session'[x]
  <2>2. Excused(s.previous, s.report)
        => s.previous = {} \/ \E q \in Reports \ {s.report} :
             Known(q)' /\ s.previous \subseteq FailedNames(body'[q])
    BY ExcuseStands
  <2>3. Excused(s.previous, s.report) => Excused(session[x].previous, session[x].report)'
    BY <2>2 DEF Excused, FailedNames
  <2> QED BY <2>1, <2>3 DEF Founded
<1>2. ASSUME NEW e \in evaluations' PROVE Judged(e)'
  <2>1. Judged(e)
    BY EvaluationsFounded
  <2>2. SurelyFailed(e)' = SurelyFailed(e)
    <3>1. e.report \in Reports /\ Known(e.report)
      <4>1. CASE e \in evaluations
        BY <4>1 DEF IInv, EvaluationsHaveOwners, FailureStands, Stored, Known
      <4>2. CASE e \notin evaluations
        <5>1. PICK x, todo, passed :
                /\ session[x].report \in Reports /\ Stored(session[x].report)
                /\ e = [gate |-> todo.gate, report |-> session[x].report, rules |-> todo.rules,
                        passed |-> passed, by |-> x]
          BY <4>2, EvaluationsStep DEF EvaluationMoves
        <5>2. e.report = session[x].report
          BY <5>1
        <5> QED BY <5>1, <5>2 DEF Stored, Known
      <4> QED BY <4>1, <4>2
    <3>2. body'[e.report] = body[e.report]
      BY <3>1, BodiesStay DEF BodiesAreWellFormed
    <3> QED BY <3>2 DEF SurelyFailed, FailedNames, Names
  <2> DEFINE names == SurelyFailed(e)
  <2>3. Excused(names, e.report)
        => names = {} \/ \E q \in Reports \ {e.report} :
             Known(q)' /\ names \subseteq FailedNames(body'[q])
    BY ExcuseStands
  <2>4. Excused(names, e.report) => Excused(SurelyFailed(e), e.report)'
    BY <2>2, <2>3 DEF Excused, FailedNames
  <2> QED BY <2>1, <2>4 DEF Judged
<1> QED BY <1>1, <1>2 DEF FailuresAreFounded

(* A failure is never excused by the report it is in: where a gate with    *)
(* the rule no_new_failures has passed, what failed in the report failed   *)
(* in one other report too, whatever is submitted, edited or deleted while *)
(* the evaluation goes from statement to statement.                        *)
THEOREM FailuresAreExcused == Spec => []FailuresAreExcusedByOthers
<1>1. Init => FailuresAreFounded
  BY DEF Init, FailuresAreFounded, Founded, Idle, Evaluating, GatesInit
<1>2. IInv /\ BodiesAreWellFormed /\ FailuresAreFounded /\ [Next]_vars => FailuresAreFounded'
  BY FoundedStep
<1>3. FailuresAreFounded => FailuresAreExcusedByOthers
  BY DEF FailuresAreFounded, Judged, Excused, FailuresAreExcusedByOthers, Known
<1> QED BY <1>1, <1>2, <1>3, Invariance, BodiesWellFormed, PTL DEF Spec

-----------------------------------------------------------------------------
(***************************************************************************)
(* Types.                                                                  *)
(***************************************************************************)
LEMMA JobTypes ==
  ASSUME T!TypeOK, NEW i \in T!Slots, T!JobStep(i)
  PROVE  /\ slot' \in [T!Slots -> T!Jobs \cup {T!Free}]
         /\ mirror' \in [Reports -> {"none", "pending"} \cup T!Verdicts]
         /\ output' \in [Reports -> BOOLEAN]
         /\ UNCHANGED <<failing, reader>>
<1>1. /\ slot \in [T!Slots -> T!Jobs \cup {T!Free}]
      /\ mirror \in [Reports -> {"none", "pending"} \cup T!Verdicts]
      /\ output \in [Reports -> BOOLEAN]
  BY DEF T!TypeOK
<1>2. slot[i] \in T!Jobs
  <2>1. slot[i].at # "free"
    BY DEF T!JobStep, T!Claim, T!MarkPending, T!Fetch, T!Persist, T!Complete, T!CompleteEmpty,
           T!Fail, T!MarkSettled
  <2>2. T!Free.at = "free"
    BY DEF T!Free
  <2> QED BY <1>1, <2>1, <2>2
<1>3. \E job \in T!Jobs \cup {T!Free} : slot' = [slot EXCEPT ![i] = job]
  <2>1. CASE T!Release(i)
    BY <2>1 DEF T!Release
  <2>2. CASE \E stage \in T!Stages : T!Goto(i, stage)
    <3>1. PICK stage \in T!Stages : slot' = [slot EXCEPT ![i].at = stage]
      BY <2>2 DEF T!Goto
    <3>2. slot' = [slot EXCEPT ![i] = [slot[i] EXCEPT !.at = stage]]
      BY <1>1, <3>1
    <3>3. [slot[i] EXCEPT !.at = stage] \in T!Jobs
      BY <1>2 DEF T!Jobs
    <3> QED BY <3>2, <3>3
  <2>3. CASE \E v \in T!Verdicts : T!Announce(i, v)
    <3>1. PICK v \in T!Verdicts : slot' = [slot EXCEPT ![i].at = "announce", ![i].verdict = v]
      BY <2>3 DEF T!Announce
    <3>2. slot' = [slot EXCEPT ![i] = [slot[i] EXCEPT !.at = "announce", !.verdict = v]]
      BY <1>1, <3>1
    <3>3. [slot[i] EXCEPT !.at = "announce", !.verdict = v] \in T!Jobs
      BY <1>2 DEF T!Jobs, T!Stages
    <3> QED BY <3>2, <3>3
  <2>4. CASE \E ok \in BOOLEAN : slot' = [slot EXCEPT ![i].at = "persist", ![i].ok = ok]
    <3>1. PICK ok \in BOOLEAN : slot' = [slot EXCEPT ![i].at = "persist", ![i].ok = ok]
      BY <2>4
    <3>2. slot' = [slot EXCEPT ![i] = [slot[i] EXCEPT !.at = "persist", !.ok = ok]]
      BY <1>1, <3>1
    <3>3. [slot[i] EXCEPT !.at = "persist", !.ok = ok] \in T!Jobs
      BY <1>2 DEF T!Jobs, T!Stages, T!Working
    <3> QED BY <3>2, <3>3
  <2> QED BY <2>1, <2>2, <2>3, <2>4, JobMovesSlot DEF SlotMoves
<1>4. slot' \in [T!Slots -> T!Jobs \cup {T!Free}]
  BY <1>1, <1>3
<1> DEFINE r == slot[i].report
<1>5. r \in Reports /\ slot[i].verdict \in T!Verdicts
  BY <1>2 DEF T!Jobs
<1>6. \/ mirror' = mirror
      \/ \E s \in {"pending"} \cup T!Verdicts : T!SetMirror(r, s)
  <2>1. CASE T!MarkPending(i) \/ T!MarkSettled(i)
    BY <1>5, <2>1 DEF T!MarkPending, T!MarkSettled
  <2>2. CASE T!Claim(i) \/ T!Fetch(i) \/ T!Persist(i) \/ T!Complete(i) \/ T!CompleteEmpty(i) \/ T!Fail(i)
    BY <2>2 DEF T!Claim, T!Fetch, T!Persist, T!Complete, T!CompleteEmpty, T!Fail
  <2> QED BY <2>1, <2>2 DEF T!JobStep
<1>7. output' = output \/ output' = [output EXCEPT ![r] = TRUE]
  <2>1. CASE T!Persist(i)
    BY <2>1 DEF T!Persist
  <2>2. CASE ~T!Persist(i)
    BY <2>2 DEF T!JobStep, T!Claim, T!MarkPending, T!Fetch, T!Complete, T!CompleteEmpty, T!Fail,
                T!MarkSettled
  <2> QED BY <2>1, <2>2
<1>8. UNCHANGED <<failing, reader>>
  BY DEF T!JobStep, T!Claim, T!MarkPending, T!Fetch, T!Persist, T!Complete, T!CompleteEmpty, T!Fail,
         T!MarkSettled, T!reportVars
<1> HIDE DEF r
<1>9. mirror' \in [Reports -> {"none", "pending"} \cup T!Verdicts]
  <2>1. ASSUME NEW s \in {"pending"} \cup T!Verdicts, T!SetMirror(r, s)
        PROVE  mirror' \in [Reports -> {"none", "pending"} \cup T!Verdicts]
    BY <1>1, <1>5, <2>1 DEF T!SetMirror
  <2> QED BY <1>1, <1>6, <2>1
<1>10. output' \in [Reports -> BOOLEAN]
  BY <1>1, <1>5, <1>7
<1> QED BY <1>4, <1>8, <1>9, <1>10

\* The tables of triage and the pool.
LEMMA TriageTypes ==
  ASSUME T!TypeOK, Shapes', [Next]_vars
  PROVE  T!TypeOK'
<1>0. /\ failing \in [Reports -> BOOLEAN]
      /\ mirror \in [Reports -> {"none", "pending"} \cup T!Verdicts]
      /\ output \in [Reports -> BOOLEAN]
      /\ slot \in [T!Slots -> T!Jobs \cup {T!Free}]
      /\ reader \in [Reports -> T!Readers]
  BY DEF T!TypeOK
<1> DEFINE Goal == /\ failing' \in [Reports -> BOOLEAN]
                   /\ mirror' \in [Reports -> {"none", "pending"} \cup T!Verdicts]
                   /\ output' \in [Reports -> BOOLEAN]
                   /\ slot' \in [T!Slots -> T!Jobs \cup {T!Free}]
                   /\ reader' = reader
<1>1. ASSUME NEW r \in Reports, Commit(r) PROVE Goal
  <2>1. UNCHANGED <<mirror, output, slot, reader>>
    BY <1>1 DEF Commit, Store, T!Ingest
  <2>2. \E failed \in BOOLEAN : failing' = [failing EXCEPT ![r] = failed]
    BY <1>1 DEF Commit, Store, T!Ingest
  <2> QED BY <1>0, <2>1, <2>2
<1>2. ASSUME NEW r \in Reports, Enqueue(r) PROVE Goal
  <2>1. UNCHANGED <<failing, mirror, output, reader>>
    BY <1>2 DEF Enqueue, T!Enqueue, T!reportVars
  <2>2. slot' = slot \/ \E i \in T!Slots :
          slot' = [slot EXCEPT ![i] = [T!Free EXCEPT !.report = r, !.at = "claim"]]
    BY <1>2 DEF Enqueue, T!Enqueue
  <2>3. [T!Free EXCEPT !.report = r, !.at = "claim"] \in T!Jobs
    BY DEF T!Free, T!Jobs, T!Stages, T!Unclaimed, T!Verdicts
  <2>4. slot' \in [T!Slots -> T!Jobs \cup {T!Free}]
    <3> DEFINE job == [T!Free EXCEPT !.report = r, !.at = "claim"]
    <3> HIDE DEF job
    <3>1. job \in T!Jobs /\ (slot' = slot \/ \E i \in T!Slots : slot' = [slot EXCEPT ![i] = job])
      BY <2>2, <2>3 DEF job
    <3> QED BY <1>0, <3>1
  <2> QED BY <1>0, <2>1, <2>4
<1>3. ASSUME NEW r \in Reports, DeleteReport(r) PROVE Goal
  BY <1>0, <1>3 DEF DeleteReport, T!Delete
<1>4. ASSUME TriageStep PROVE Goal
  <2>1. ASSUME NEW r \in Reports, T!RetryTriage(r) PROVE Goal
    BY <1>0, <2>1 DEF T!RetryTriage, T!reportVars
  <2>2. ASSUME NEW i \in T!Slots, T!JobStep(i) PROVE Goal
    BY <1>0, <2>2, JobTypes
  <2> QED BY <1>4, <2>1, <2>2 DEF TriageStep
<1>5. ASSUME UNCHANGED triageVars PROVE Goal
  BY <1>0, <1>5 DEF triageVars
<1> HIDE DEF Goal
<1>6. Goal
  <2>1. UNCHANGED triageVars \/ TriageStep
        \/ \E r \in Reports : Commit(r) \/ Enqueue(r) \/ DeleteReport(r)
    BY DEF Next, vars, IngestStep, EvaluationStep, Begin, Link, Upsert, BreakDeadlock, Abort,
           ListGates, Announce, Ask, ReadBaseline, ReadNames, EvaluateGate, EndEvaluation, EditGates
  <2> QED BY <1>1, <1>2, <1>3, <1>4, <1>5, <2>1
<1> QED BY <1>0, <1>6 DEF Goal, T!TypeOK, Shapes

\* Where an evaluation gets to, and what Create does at that moment.
SessionGoes(x) ==
  \/ session'[x].at = session[x].at
  \/ x \in Requests /\ session'[x].at = "baseline"
  \/ x \in Reports /\ at[x] = "gates" /\ at'[x] = "evaluate" /\ session'[x].at = "baseline"
  \/ session[x].at \in Evaluating /\ session'[x].at \in Evaluating
  \/ /\ session[x].at \in Evaluating /\ session'[x].at = "over"
     /\ x \in Reports => at'[x] = "announce"

LEMMA SessionPlaces ==
  ASSUME Shapes, [Next]_vars
  PROVE  \A x \in Sessions : SessionGoes(x)
<1> USE DEF SessionGoes
<1>0. /\ DOMAIN session = Sessions /\ DOMAIN at = Reports
      /\ \A x \in Sessions : IsSession(session[x])
      /\ Reports \subseteq Sessions /\ Requests \subseteq Sessions
  BY DEF Shapes, Sessions
<1> DEFINE Goal == \A x \in Sessions : SessionGoes(x)
<1>1. ASSUME session' = session PROVE Goal
  BY <1>1
<1>2. ASSUME NEW x \in Sessions, NEW s, session' = [session EXCEPT ![x] = s],
             SessionGoes(x)
      PROVE  Goal
  BY <1>0, <1>2
<1>3. ASSUME NEW r \in Reports, ListGates(r) PROVE Goal
  <2>1. CASE session' = session
    BY <1>1, <2>1
  <2>2. CASE at' = [at EXCEPT ![r] = "evaluate"]
    <3>1. PICK todo : session' = [session EXCEPT ![r] =
                        [Idle EXCEPT !.at = "baseline", !.report = r, !.todo = todo]]
      BY <1>0, <1>3, <2>2 DEF ListGates
    <3> DEFINE s == [Idle EXCEPT !.at = "baseline", !.report = r, !.todo = todo]
    <3>2. s.at = "baseline"
      BY DEF Idle
    <3> HIDE DEF s
    <3>3. session' = [session EXCEPT ![r] = s]
      BY <3>1 DEF s
    <3> QED BY <1>0, <1>2, <1>3, <2>2, <3>2, <3>3 DEF ListGates
  <2> QED BY <1>3, <2>1, <2>2 DEF ListGates
<1>4. ASSUME NEW x \in Requests, Ask(x) PROVE Goal
  <2>1. PICK r, todo : session' = [session EXCEPT ![x] =
                         [Idle EXCEPT !.at = "baseline", !.report = r, !.todo = todo]]
    BY <1>4 DEF Ask
  <2> DEFINE s == [Idle EXCEPT !.at = "baseline", !.report = r, !.todo = todo]
  <2>2. s.at = "baseline"
    BY DEF Idle
  <2> HIDE DEF s
  <2>3. session' = [session EXCEPT ![x] = s]
    BY <2>1 DEF s
  <2> QED BY <1>0, <1>2, <1>4, <2>2, <2>3
<1>5. ASSUME NEW x \in Sessions, session[x].at \in Evaluating, Leave(x) PROVE Goal
  <2> DEFINE s == [Idle EXCEPT !.at = "over"]
  <2>1. s.at = "over"
    BY DEF Idle
  <2> HIDE DEF s
  <2>2. session' = [session EXCEPT ![x] = s] /\ (x \in Reports => at'[x] = "announce")
    BY <1>0, <1>5 DEF Leave, s
  <2> QED BY <1>0, <1>2, <1>5, <2>1, <2>2
<1>6. ASSUME NEW x \in Sessions, ReadBaseline(x) PROVE Goal
  <2>1. session[x].at \in Evaluating
    BY <1>6 DEF ReadBaseline, Evaluating
  <2>2. CASE session' = [session EXCEPT ![x].at = "rules"]
    BY <1>0, <2>1, <2>2 DEF IsSession, Evaluating
  <2>3. ASSUME NEW q, session' = [session EXCEPT ![x].at = "names", ![x].base = q] PROVE Goal
    BY <1>0, <2>1, <2>3 DEF IsSession, Evaluating
  <2> QED BY <1>5, <1>6, <2>1, <2>2, <2>3 DEF ReadBaseline
<1>7. ASSUME NEW x \in Sessions, ReadNames(x) PROVE Goal
  <2>1. session[x].at \in Evaluating
    BY <1>7 DEF ReadNames, Evaluating
  <2>2. ASSUME NEW previous,
               session' = [session EXCEPT ![x].at = "rules", ![x].base = None, ![x].previous = previous]
        PROVE  Goal
    BY <1>0, <2>1, <2>2 DEF IsSession, Evaluating
  <2> QED BY <1>5, <1>7, <2>1, <2>2 DEF ReadNames
<1>8. ASSUME NEW x \in Sessions, EvaluateGate(x) PROVE Goal
  <2>1. PICK todo : session' = [session EXCEPT ![x].todo = @ \ {todo}]
    BY <1>8 DEF EvaluateGate
  <2> QED BY <1>0, <2>1 DEF IsSession
<1>9. ASSUME NEW x \in Sessions, EndEvaluation(x) PROVE Goal
  <2>1. session[x].at \in Evaluating /\ Leave(x)
    BY <1>9 DEF EndEvaluation, Evaluating
  <2> QED BY <1>5, <2>1
<1> HIDE DEF Goal
<1>10. Goal
  BY <1>1, <1>3, <1>4, <1>6, <1>7, <1>8, <1>9, WritersKnown DEF OnlyWriters, EvaluationStep
<1> QED BY <1>10 DEF Goal

Places == {"idle", "link", "upsert", "refused", "enqueue", "gates", "evaluate", "announce", "done"}

\* What TypeOK says beyond the other invariants.
Types ==
  /\ T!TypeOK
  /\ at \in [Reports -> Places]
  /\ clock \in Nat \ {0}
  /\ stamp \in [Reports -> 0 .. clock - 1]
  /\ linked \in Reports \cup {None}
  /\ \A x \in Sessions :
       /\ session[x].at \in {"idle", "baseline", "names", "rules", "over"}
       /\ x \in Reports => (session[x].at \in Evaluating <=> at[x] = "evaluate")
  /\ events \in [Reports -> SUBSET {"report.submitted", "gate.failed"}]
  /\ \A g \in Gates : gates[g].state \in {"unused", "live", "deleted"}

LEMMA TypesStep ==
  ASSUME IInv, Shapes', Types, [Next]_vars
  PROVE  Types'
<1>0. Shapes
  BY DEF IInv
<1>1. T!TypeOK'
  BY TriageTypes DEF Types
<1>2. at' \in [Reports -> Places]
  <2>1. ASSUME NEW r \in Reports,
               Begin(r) \/ Link(r) \/ Commit(r) \/ Abort(r) \/ Enqueue(r) \/ ListGates(r) \/ Announce(r)
        PROVE  \E p \in Places \cup {at[r]} : at' = [at EXCEPT ![r] = p]
    <3>1. CASE Begin(r)
      BY <3>1 DEF Begin, Places
    <3>2. CASE Link(r) \/ Abort(r)
      BY <3>2 DEF Link, Abort, Places
    <3>3. CASE Commit(r)
      BY <3>3 DEF Commit, Store, Places
    <3>4. CASE Enqueue(r)
      BY <3>4 DEF Enqueue, Places
    <3>5. CASE ListGates(r) \/ Announce(r)
      BY <3>5 DEF ListGates, Announce, Places
    <3> QED BY <2>1, <3>1, <3>2, <3>3, <3>4, <3>5
  <2>2. ASSUME NEW x \in Sessions, ReadBaseline(x) \/ ReadNames(x) \/ EndEvaluation(x)
        PROVE  at' = at \/ \E r \in Reports : at' = [at EXCEPT ![r] = "announce"]
    BY <2>2 DEF ReadBaseline, ReadNames, EndEvaluation, Leave
  <2>3. "announce" \in Places
    BY DEF Places
  <2> QED BY <2>1, <2>2, <2>3, WritersKnown DEF OnlyWriters, Types
<1>3. clock' \in Nat \ {0} /\ stamp' \in [Reports -> 0 .. clock' - 1]
  <2>1. CASE UNCHANGED <<clock, stamp>>
    BY <2>1 DEF Types
  <2>2. ASSUME NEW r \in Reports, Begin(r)
        PROVE  stamp' = [stamp EXCEPT ![r] = clock] /\ clock' = clock + 1
    BY <2>2 DEF Begin
  <2>3. UNCHANGED <<clock, stamp>> \/ \E r \in Reports : Begin(r)
    BY DEF Next, vars, IngestStep, EvaluationStep, Link, Upsert, Commit, BreakDeadlock, Abort,
           Enqueue, ListGates, Announce, Ask, ReadBaseline, ReadNames, EvaluateGate, EndEvaluation,
           DeleteReport, TriageStep, EditGates, ingestVars
  <2> QED BY <2>1, <2>2, <2>3 DEF Types
<1>4. linked' \in Reports \cup {None}
  <2>1. ASSUME NEW r \in Reports, Commit(r) PROVE linked' \in {r, linked}
    BY <2>1 DEF Commit
  <2> QED BY <2>1, WritersKnown DEF OnlyWriters, Types
<1>5. ASSUME NEW x \in Sessions
      PROVE  /\ session'[x].at \in {"idle", "baseline", "names", "rules", "over"}
             /\ x \in Reports => (session'[x].at \in Evaluating <=> at'[x] = "evaluate")
  <2>1. SessionGoes(x)
    BY <1>0, SessionPlaces
  <2>2. session'[x].at \in {"idle", "baseline", "names", "rules", "over"}
    BY <2>1 DEF SessionGoes, Types, Evaluating
  <2>3. ASSUME x \in Reports PROVE session'[x].at \in Evaluating <=> at'[x] = "evaluate"
    <3>1. AtMoves(x) /\ x \notin Requests
      BY <1>0, <2>3, AtStep, ReportsAssumption
    <3>2. session[x].at \in Evaluating <=> at[x] = "evaluate"
      BY <2>3 DEF Types
    <3>3. ListGates(x) /\ at'[x] = "evaluate" /\ at[x] = "gates" => session'[x].at = "baseline"
      <4> DEFINE todo == {[gate |-> g, rules |-> gates[g].rules] : g \in EnabledGates}
                 s == [Idle EXCEPT !.at = "baseline", !.report = x, !.todo = todo]
      <4>1. ASSUME ListGates(x), at'[x] = "evaluate" PROVE session' = [session EXCEPT ![x] = s]
        BY <1>0, <2>3, <4>1 DEF ListGates, Shapes
      <4>2. s.at = "baseline"
        BY DEF Idle
      <4> HIDE DEF s
      <4> QED BY <1>0, <4>1, <4>2 DEF Shapes
    <3>4. [Idle EXCEPT !.at = "over"].at = "over"
      BY DEF Idle
    <3> QED BY <2>1, <2>3, <3>1, <3>2, <3>3, <3>4 DEF AtMoves, SessionGoes, Evaluating
  <2> QED BY <2>2, <2>3
<1>6. events' \in [Reports -> SUBSET {"report.submitted", "gate.failed"}]
  <2>1. ASSUME NEW r \in Reports, Announce(r)
        PROVE  \E sent \in SUBSET {"report.submitted", "gate.failed"} : events' = [events EXCEPT ![r] = sent]
    BY <2>1 DEF Announce
  <2> QED BY <2>1, WritersKnown DEF OnlyWriters, Types
<1>7. \A g \in Gates : gates'[g].state \in {"unused", "live", "deleted"}
  <2>1. ASSUME NEW g \in Gates, CreateGate(g) \/ UpdateGate(g) \/ DeleteGate(g), NEW h \in Gates
        PROVE  gates'[h].state \in {gates[h].state, "live", "deleted"}
    <3>1. CASE CreateGate(g)
      BY <1>0, <3>1 DEF CreateGate, Shapes
    <3>2. CASE UpdateGate(g)
      <4>1. PICK rules, enabled : gates' = [gates EXCEPT ![g].rules = rules, ![g].enabled = enabled]
        BY <3>2 DEF UpdateGate
      <4> QED BY <1>0, <4>1 DEF Shapes, IsGate
    <3>3. CASE DeleteGate(g)
      BY <1>0, <3>3 DEF DeleteGate, Shapes, NoGate
    <3> QED BY <2>1, <3>1, <3>2, <3>3
  <2>2. gates' = gates \/ \E g \in Gates : CreateGate(g) \/ UpdateGate(g) \/ DeleteGate(g)
    BY WritersKnown DEF OnlyWriters, EditGates
  <2> QED BY <2>1, <2>2 DEF Types
<1> QED BY <1>1, <1>2, <1>3, <1>4, <1>5, <1>6, <1>7 DEF Types

LEMMA TypesAtFirst == Init => Types
<1> SUFFICES ASSUME Init
             PROVE  Types
  OBVIOUS
<1>1. T!TypeOK
  BY DEF Init, T!Init, T!TypeOK, T!Readers, T!Idle, T!Verdicts
<1>2. at \in [Reports -> Places] /\ \A r \in Reports : at[r] = "idle"
  BY DEF Init, Places
<1>3. clock \in Nat \ {0} /\ stamp \in [Reports -> 0 .. clock - 1]
  BY DEF Init
<1>4. \A x \in Sessions : session[x].at = "idle"
  BY DEF Init, Idle
<1>5. \A g \in Gates : gates[g].state \in {"unused", "live", "deleted"}
  <2>1. setup \in Setups /\ gates = [g \in Gates |-> IF g \in DOMAIN setup.gates THEN setup.gates[g] ELSE NoGate]
    BY DEF Init, GatesInit
  <2>2. \A g \in DOMAIN setup.gates : setup.gates[g].state = "live"
    BY <2>1, ReportsAssumption
  <2> QED BY <2>1, <2>2 DEF NoGate
<1>6. events \in [Reports -> SUBSET {"report.submitted", "gate.failed"}]
  BY DEF Init
<1>7. linked \in Reports \cup {None}
  BY DEF Init
<1>8. \A x \in Sessions :
        /\ session[x].at \in {"idle", "baseline", "names", "rules", "over"}
        /\ x \in Reports => (session[x].at \in Evaluating <=> at[x] = "evaluate")
  BY <1>2, <1>4 DEF Evaluating
<1> QED BY <1>1, <1>2, <1>3, <1>5, <1>6, <1>7, <1>8 DEF Types

(* Every variable keeps its type; a transaction has the rows of what it    *)
(* has upserted and only while it is open, and Create waits for an         *)
(* evaluation of gates exactly as long as one of its own is under way.     *)
THEOREM TypeCorrect == Spec => []TypeOK
<1>1. IInv /\ IInv' /\ Types /\ [Next]_vars => Types'
  BY TypesStep DEF IInv
<1>2. IInv /\ HistoryIsLocked /\ HistoryIsRolled /\ Types => TypeOK
  <2> SUFFICES ASSUME IInv, HistoryIsLocked, HistoryIsRolled, Types
               PROVE  TypeOK
    OBVIOUS
  <2>1. ASSUME NEW r \in Reports
        PROVE  /\ upserted[r] \in 0 .. IF at[r] = "upsert" THEN Len(body[r].results) ELSE 0
               /\ DOMAIN staged[r] = {Key(body[r].results[i]) : i \in 1 .. upserted[r]}
    BY DEF HistoryIsLocked, HoldsItsRows
  <2>2. ASSUME NEW k \in Keys PROVE history[k].count \in Nat /\ history[k].avg \in Int
    <3>1. Tells(history[k], Took(k))
      BY RolledIsTaken
    <3> QED BY <3>1, FS_CardinalityType DEF Tells
  <2> QED BY <2>1, <2>2 DEF TypeOK, Types, IInv, Shapes, Places, Evaluating
<1> QED BY TypesAtFirst, <1>1, <1>2, Invariance, RowsLocked, HistoryRolled, PTL DEF Spec
=============================================================================
