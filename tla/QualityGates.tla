---------------------------- MODULE QualityGates ----------------------------
(***************************************************************************)
(* Quality gates of a team: the rules and how a report is measured against *)
(* them, the table of gates with the handlers that edit it, and the table  *)
(* of evaluations.  Reports composes this module with the ingest of        *)
(* reports, which evaluates the gates.                                     *)
(*                                                                         *)
(* A rule is a record [type, threshold, decodes]: decodes is FALSE when    *)
(* its params are there and yet are not of the shape its type wants, which *)
(* only the evaluation finds out.                                          *)
(***************************************************************************)
EXTENDS Naturals, FiniteSets

CONSTANTS
  Gates,      \* gate ids
  RuleSets    \* the rule arrays of the requests, as sets of rules

RuleTypes == {"pass_rate", "zero_failures", "no_new_failures",
              "max_duration", "max_flaky_count", "min_test_count"}

\* validateRules: one rule at least, and of a known type.
ValidRules(rules) ==
  rules # {} /\ \A rule \in rules : rule.type \in RuleTypes

VARIABLES
  gates,        \* quality_gates, by id
  evaluations   \* quality_gate_evaluations, and who evaluated

gateVars == <<gates, evaluations>>

NoGate == [state |-> "unused", rules |-> {}, enabled |-> FALSE]

Live(g) == gates[g].state = "live"

-----------------------------------------------------------------------------
(***************************************************************************)
(* quality.Evaluate.  Percentages are compared as fractions, and the rate  *)
(* is 0 without tests.                                                     *)
(***************************************************************************)
PassRateAtLeast(data, threshold) ==
  IF data.tests = 0 THEN threshold = 0 ELSE data.passed * 100 >= threshold * data.tests

NewFailures(data) == data.current \ data.previous

Holds(rule, data) ==
  CASE rule.type = "pass_rate"       -> PassRateAtLeast(data, rule.threshold)
    [] rule.type = "zero_failures"   -> data.failed = 0
    [] rule.type = "no_new_failures" -> NewFailures(data) = {}
    [] rule.type = "max_duration"    -> data.duration <= rule.threshold
    [] rule.type = "max_flaky_count" -> data.flaky <= rule.threshold
    [] rule.type = "min_test_count"  -> data.tests >= rule.threshold

\* One rule that does not decode is an error of the whole evaluation.
Decodes(rules) == \A rule \in rules : rule.decodes

Passes(rules, data) == \A rule \in rules : Holds(rule, data)

-----------------------------------------------------------------------------
(***************************************************************************)
(* The handlers for maintainers, and the two statements of the evaluation. *)
(***************************************************************************)
GatesInit(configured) ==
  /\ gates = [g \in Gates |-> IF g \in DOMAIN configured THEN configured[g] ELSE NoGate]
  /\ evaluations = {}

CreateGate(g) ==
  /\ gates[g].state = "unused"
  /\ \E rules \in {rs \in RuleSets : ValidRules(rs)} :
       gates' = [gates EXCEPT ![g] = [state |-> "live", rules |-> rules, enabled |-> TRUE]]
  /\ UNCHANGED evaluations

\* The request replaces the rules, and enables the gate unless it says no.
UpdateGate(g) ==
  /\ Live(g)
  /\ \E rules \in {rs \in RuleSets : ValidRules(rs)}, enabled \in BOOLEAN :
       gates' = [gates EXCEPT ![g].rules = rules, ![g].enabled = enabled]
  /\ UNCHANGED evaluations

\* The evaluations of the gate go with it, by ON DELETE CASCADE.
DeleteGate_KeepsEvaluations(g) ==
  /\ Live(g)
  /\ gates' = [gates EXCEPT ![g] = [NoGate EXCEPT !.state = "deleted"]]
  /\ UNCHANGED evaluations

DeleteGate(g) ==
  /\ Live(g)
  /\ gates' = [gates EXCEPT ![g] = [NoGate EXCEPT !.state = "deleted"]]
  /\ evaluations' = {e \in evaluations : e.gate # g}

EnabledGates == {g \in Gates : Live(g) /\ gates[g].enabled}

\* The row needs its gate and its report (stored), by its foreign keys; its
\* details name the rules that were evaluated.
CreateEvaluation(g, r, stored, rules, passed, by) ==
  /\ Live(g) /\ stored
  /\ evaluations' = evaluations \cup
       {[gate |-> g, report |-> r, rules |-> rules, passed |-> passed, by |-> by]}
  /\ UNCHANGED gates
=============================================================================
