---------------------------- MODULE MC_Webhooks ----------------------------
(***************************************************************************)
(* Small instances of Webhooks for TLC.                                    *)
(***************************************************************************)
EXTENDS Webhooks

CONSTANTS h1, h2, e1   \* model values

OneHook   == {h1}
TwoHooks  == {h1, h2}
OneEvent  == {e1}
AllFaults == FaultKinds
=============================================================================
