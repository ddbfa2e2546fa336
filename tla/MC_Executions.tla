--------------------------- MODULE MC_Executions ---------------------------
(***************************************************************************)
(* Small instances of Executions for TLC.                                  *)
(***************************************************************************)
EXTENDS Executions

OneExec   == {1}
TwoExecs  == {1, 2}
NoFaults  == {}
Nobody    == {}
AllFaults == FaultKinds
KubeFault == {"kube"}
=============================================================================
