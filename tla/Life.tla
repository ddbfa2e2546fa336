-------------------------------- MODULE Life --------------------------------
(***************************************************************************)
(* What the life of an execution comes to, with neither the cluster, the   *)
(* network nor the reconciler's pass: a worker that starts and ends once,  *)
(* a status that says what the worker has come to unless a user or the     *)
(* server overrules it, and verdicts announced to webhooks some time after *)
(* they were heard, or never.                                              *)
(***************************************************************************)
CONSTANT Execs

VARIABLES
  status,     \* the status that users read
  owed,       \* the verdicts heard and to be announced
  announced,  \* the verdicts announced
  worker      \* "none", "alive", then "succeeded" or "dead"

vars == <<status, owed, announced, worker>>

Init ==
  /\ status = [e \in Execs |-> "absent"]
  /\ owed = [e \in Execs |-> {}]
  /\ announced = [e \in Execs |-> {}]
  /\ worker = [e \in Execs |-> "none"]

Become(e, s) == status' = [status EXCEPT ![e] = s]

Submit(e) ==
  /\ status[e] = "absent"
  /\ Become(e, "pending")
  /\ UNCHANGED <<owed, announced, worker>>

\* A worker starts for a row that is there, whatever its status, and may end at once.
Start(e) ==
  /\ status[e] # "absent"
  /\ worker[e] = "none"
  /\ \E now \in {"alive", "dead"} : worker' = [worker EXCEPT ![e] = now]
  /\ UNCHANGED <<status, owed, announced>>

End(e) ==
  /\ worker[e] = "alive"
  /\ \E how \in {"succeeded", "dead"} : worker' = [worker EXCEPT ![e] = how]
  /\ UNCHANGED <<status, owed, announced>>

\* What a worker may have said of itself, now or at any time before.
MayHaveSaid(e, s) ==
  \/ s = "running"   /\ worker[e] # "none"
  \/ s = "completed" /\ worker[e] = "succeeded"
  \/ s = "failed"    /\ worker[e] = "dead"
  \/ s = "cancelled" /\ worker[e] = "dead"

Verdicts == {"completed", "failed"}

\* It is heard, however late and whatever the status has become.  The server
\* may end right after it has stored what it heard.
Hear(e, s) ==
  /\ MayHaveSaid(e, s)
  /\ Become(e, s)
  /\ \E v \in SUBSET ({s} \cap Verdicts) : owed' = [owed EXCEPT ![e] = @ \cup v]
  /\ UNCHANGED <<announced, worker>>

\* A verdict that was heard is announced.
Announce(e, s) ==
  /\ s \in owed[e]
  /\ owed' = [owed EXCEPT ![e] = @ \ {s}]
  /\ announced' = [announced EXCEPT ![e] = @ \cup {s}]
  /\ UNCHANGED <<status, worker>>

\* The server ends in between: nobody will be told.
Forget(e, s) ==
  /\ s \in owed[e]
  /\ owed' = [owed EXCEPT ![e] = @ \ {s}]
  /\ UNCHANGED <<status, announced, worker>>

Cancel(e) ==
  /\ status[e] \in {"pending", "running"}
  /\ Become(e, "cancelled")
  /\ UNCHANGED <<owed, announced, worker>>

\* The server fails an execution that seems lost, and tells nobody.
GiveUp(e) ==
  /\ status[e] = "running"
  /\ Become(e, "failed")
  /\ UNCHANGED <<owed, announced, worker>>

Next ==
  \E e \in Execs :
    \/ Submit(e) \/ Start(e) \/ End(e) \/ Cancel(e) \/ GiveUp(e)
    \/ \E s \in {"running", "completed", "failed", "cancelled"} : Hear(e, s)
    \/ \E s \in Verdicts : Announce(e, s) \/ Forget(e, s)

Spec == Init /\ [][Next]_vars
=============================================================================
