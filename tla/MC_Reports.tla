----------------------------- MODULE MC_Reports -----------------------------
(***************************************************************************)
(* Small instances of Reports for TLC: ingest beside triage, and ingest    *)
(* beside evaluations and edits of two gates.                              *)
(***************************************************************************)
EXTENDS Reports

CONSTANTS r1, r2, ta, tb, sa, sb, g1, g2, ask   \* model values

TwoReports == {r1, r2}
TwoTests   == {ta, tb}
TwoSuites  == {sa, sb}
TwoGates   == {g1, g2}
OneRequest == {ask}

Result(t, suite, status, duration, flaky) ==
  [name |-> t, suite |-> suite, status |-> status, duration |-> duration, flaky |-> flaky]

\* Two tests in either order, the first payload with one of them run again,
\* the second with one in two suites; and a test that fails in one of two.
Both  == [tests |-> 2, passed |-> 1, failed |-> 1, execution |-> TRUE,
          results |-> <<Result(ta, sa, "failed", 3, FALSE), Result(tb, sa, "passed", 2, TRUE),
                        Result(ta, sa, "passed", 8, FALSE)>>]
Swapped == [tests |-> 2, passed |-> 1, failed |-> 0, execution |-> FALSE,
            results |-> <<Result(tb, sa, "skipped", -5, FALSE),
                          Result(ta, sb, "other", 1, FALSE), Result(ta, sa, "passed", 104, FALSE)>>]
Alone == [tests |-> 1, passed |-> 0, failed |-> 1, execution |-> FALSE,
          results |-> <<Result(ta, sa, "failed", 6, FALSE)>>]
Mixed == [tests |-> 2, passed |-> 1, failed |-> 1, execution |-> FALSE,
          results |-> <<Result(ta, sa, "failed", 6, FALSE), Result(ta, sb, "passed", 1, FALSE),
                        Result(tb, sa, "failed", 2, FALSE)>>]

Empty   == [tests |-> 0, passed |-> 0, failed |-> 0, execution |-> FALSE, results |-> <<>>]
Misspelt == [Alone EXCEPT !.results[1].status = "fail"]

Rule(type, threshold) == [type |-> type, threshold |-> threshold, decodes |-> TRUE]

Strict == {Rule("zero_failures", 0), Rule("max_flaky_count", 0)}
NoNew  == {Rule("no_new_failures", 0), Rule("max_duration", 9)}
Loose  == {Rule("pass_rate", 50), Rule("min_test_count", 1), Rule("no_new_failures", 0)}
Broken == {[type |-> "pass_rate", threshold |-> 0, decodes |-> FALSE]}

SomeRules == {NoNew, Broken, {}}

Gate(rules) == [state |-> "live", rules |-> rules, enabled |-> TRUE]

WithTriage == [triage |-> TRUE, gates |-> <<>>, edits |-> 0, requests |-> {},
               payloads |-> {Both, Swapped, Empty, Misspelt}]
Asked      == [triage |-> FALSE, gates |-> (g1 :> Gate(NoNew)), edits |-> 0,
               requests |-> {ask}, payloads |-> {Mixed}]
Edited     == [triage |-> FALSE, gates |-> (g1 :> Gate(NoNew)), edits |-> 1,
               requests |-> {}, payloads |-> {Alone}]
BothGates  == [triage |-> FALSE, gates |-> (g1 :> Gate(Strict)) @@ (g2 :> Gate(Loose)),
               edits |-> 0, requests |-> {}, payloads |-> {Both, Swapped}]
AllSetups  == {WithTriage, Asked, Edited, BothGates}
AskedOnly  == {Asked}
=============================================================================
