------------------------------ MODULE MC_Teams ------------------------------
(***************************************************************************)
(* A small instance of Teams for TLC.                                      *)
(***************************************************************************)
EXTENDS Teams, TLC

\* The model values are interchangeable, and no liveness is checked with them.
Symmetries == Permutations(Emails) \cup Permutations(Passwords) \cup Permutations(Cookies)
                \cup Permutations(Slots)
=============================================================================
