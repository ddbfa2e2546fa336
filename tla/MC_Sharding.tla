---------------------------- MODULE MC_Sharding ----------------------------
(***************************************************************************)
(* Small instances of Sharding for TLC: five tests.  The first history has *)
(* the lengths of Graham's worst case for two workers, the third those     *)
(* that an unsorted list spreads badly over three.                         *)
(***************************************************************************)
EXTENDS Sharding

TestSet == 1..5
InOrder == [t \in TestSet |-> t]

\* Averages by suite: one row, rows in two suites that add up, or none.
Row(x, ms) == [y \in {x} |-> ms]
TwoRows    == [y \in {1, 2} |-> y]
NoRows     == [y \in {} |-> 0]

HistorySet ==
  {<<Row(1, 3), Row(1, 3), Row(2, 2), Row(2, 2), Row(2, 2)>>,
   <<Row(2, 2), TwoRows, Row(1, 2), NoRows, Row(1, 3)>>,
   <<NoRows, NoRows, Row(1, 0), Row(2, 6), Row(3, 6)>>}

\* None; a test that needs two; a chain in three pieces; a cycle with a test that needs itself.
Relations == {{}, {<<1, 2>>, <<1, 3>>}, {<<1, 3>>, <<2, 4>>, <<4, 3>>}, {<<1, 2>>, <<2, 1>>, <<5, 5>>}}
AllStrategies == {"duration_balanced", "round_robin", "suite_grouped"}
=============================================================================
