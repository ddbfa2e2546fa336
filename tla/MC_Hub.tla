------------------------------- MODULE MC_Hub -------------------------------
(***************************************************************************)
(* A small instance of Hub for TLC: one client that follows two sources,   *)
(* whose broadcasts may overlap.                                           *)
(***************************************************************************)
EXTENDS Hub

CONSTANTS c1, b1, b2   \* model values

OneClient  == {c1}
TwoSources == {b1, b2}
AllFollow  == OneClient \X TwoSources
=============================================================================
