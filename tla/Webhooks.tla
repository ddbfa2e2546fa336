------------------------------ MODULE Webhooks ------------------------------
(***************************************************************************)
(* Outgoing webhooks: Notifier.Notify, which hands the matching webhooks   *)
(* of an event to a bounded pool of delivery goroutines, Dispatcher.Send   *)
(* with its retries, the log of deliveries, and the handler that sends a   *)
(* logged delivery again.                                                  *)
(*                                                                         *)
(* One action is one statement on the database, one HTTP request to an     *)
(* endpoint, or one attempt to take a slot of the pool.                    *)
(***************************************************************************)
EXTENDS Naturals, FiniteSets

CONSTANTS
  Hooks,       \* the webhooks of a team, all subscribed to the events
  Events,      \* the notifications, one call of Notify each
  Retried,     \* the webhooks whose deliveries users may send again
  PoolSize,    \* defaultWorkerPoolSize, the capacity of the semaphore
  MaxRetries,  \* Dispatcher.maxRetries, the attempts of one Send
  Faults       \* the kinds of fault that may occur (see FaultKinds)

(***************************************************************************)
(* "db":    a statement fails, or its context is over.                     *)
(* "abort": the client of the retry handler disconnects.                   *)
(* "crash": the process ends; notifications live only in its memory.       *)
(***************************************************************************)
FaultKinds == {"db", "abort", "crash"}

ASSUME ConstantsAssumption ==
  /\ IsFiniteSet(Hooks)
  /\ IsFiniteSet(Events)
  /\ Retried \subseteq Hooks
  /\ PoolSize \in Nat
  /\ MaxRetries \in Nat \ {0}
  /\ Faults \subseteq FaultKinds

VARIABLES
  hook,      \* the webhook's row: "none", "enabled", "disabled" or "deleted"
  notify,    \* the goroutine of Notify: "idle", "list" or "over"
  todo,      \* the webhooks it has listed and not yet handed on
  sem,       \* the slots taken of the semaphore
  send,      \* the calls of Send, by event, webhook and caller
  received,  \* the requests of each call that reached the endpoint
  accepted,  \* the events the endpoint of a webhook has answered with 2xx
  log        \* the rows of webhook_deliveries

vars == <<hook, notify, todo, sem, send, received, accepted, log>>

\* A call of Send is the pool's ("auto") or the retry handler's ("manual").
Calls == Events \X Hooks \X {"auto", "manual"}
Pooled(c) == c[3] = "auto"

Answers  == {"ok", "rejected", "error"}
InFlight == {"send", "backoff", "record"}

\* at is the next statement of the call, attempt its number, answer the last one.
Unsent  == [at |-> "none", attempt |-> 0, answer |-> "none"]
Started == [at |-> "send", attempt |-> 1, answer |-> "none"]

Busy == {c \in Calls : Pooled(c) /\ send[c].at \in InFlight}

TypeOK ==
  /\ hook \in [Hooks -> {"none", "enabled", "disabled", "deleted"}]
  /\ notify \in [Events -> {"idle", "list", "over"}]
  /\ todo \in [Events -> SUBSET Hooks]
  /\ sem \in 0 .. PoolSize
  /\ send \in [Calls -> [at: {"none", "dropped", "over"} \cup InFlight,
                         attempt: 0 .. MaxRetries, answer: {"none"} \cup Answers]]
  /\ received \in [Calls -> 0 .. MaxRetries]
  /\ accepted \subseteq Events \X Hooks
  /\ log \subseteq Calls \X Answers

Init ==
  /\ hook = [h \in Hooks |-> "none"]
  /\ notify = [e \in Events |-> "idle"]
  /\ todo = [e \in Events |-> {}]
  /\ sem = 0
  /\ send = [c \in Calls |-> Unsent]
  /\ received = [c \in Calls |-> 0]
  /\ accepted = {}
  /\ log = {}

(***************************************************************************)
(* The handlers that create, update and delete webhooks.                   *)
(***************************************************************************)
CreateHook(h) ==
  /\ hook[h] = "none"
  /\ hook' = [hook EXCEPT ![h] = "enabled"]
  /\ UNCHANGED <<notify, todo, sem, send, received, accepted, log>>

UpdateHook(h) ==
  /\ hook[h] \in {"enabled", "disabled"}
  /\ \E setting \in {"enabled", "disabled"} : hook' = [hook EXCEPT ![h] = setting]
  /\ UNCHANGED <<notify, todo, sem, send, received, accepted, log>>

\* The deliveries go with the webhook (ON DELETE CASCADE).
DeleteHook(h) ==
  /\ hook[h] \in {"enabled", "disabled"}
  /\ hook' = [hook EXCEPT ![h] = "deleted"]
  /\ log' = {row \in log : row[1][2] # h}
  /\ UNCHANGED <<notify, todo, sem, send, received, accepted>>

(***************************************************************************)
(* Notifier.Notify.                                                        *)
(***************************************************************************)
Notify(e) ==
  /\ notify[e] = "idle"
  /\ notify' = [notify EXCEPT ![e] = "list"]
  /\ UNCHANGED <<hook, todo, sem, send, received, accepted, log>>

\* ListByTeamAndEvent; when it fails the event reaches nobody.
ListHooks(e) ==
  /\ notify[e] = "list"
  /\ notify' = [notify EXCEPT ![e] = "over"]
  /\ \/ todo' = [todo EXCEPT ![e] = {h \in Hooks : hook[h] = "enabled"}]
     \/ "db" \in Faults /\ UNCHANGED todo
  /\ UNCHANGED <<hook, sem, send, received, accepted, log>>

\* The semaphore takes the delivery if a slot is free, or it is dropped.
Dispatch(e, h) ==
  LET c == <<e, h, "auto">> IN
  /\ h \in todo[e]
  /\ todo' = [todo EXCEPT ![e] = @ \ {h}]
  /\ \/ /\ sem < PoolSize
        /\ sem' = sem + 1
        /\ send' = [send EXCEPT ![c] = Started]
     \/ /\ sem = PoolSize
        /\ send' = [send EXCEPT ![c].at = "dropped"]
        /\ UNCHANGED sem
  /\ UNCHANGED <<hook, notify, received, accepted, log>>

(***************************************************************************)
(* Dispatcher.Send.                                                        *)
(***************************************************************************)
Move(c, at, answer) == send' = [send EXCEPT ![c].at = at, ![c].answer = answer]

Leave(c) == sem' = IF Pooled(c) THEN sem - 1 ELSE sem

Reach(c) == received' = [received EXCEPT ![c] = @ + 1]

\* The endpoint answers with 2xx, or with 4xx: the call is over either way.
Answered_RetriesRejected(c) ==
  /\ send[c].at = "send"
  /\ \/ /\ Move(c, "record", "ok")
        /\ accepted' = accepted \cup {<<c[1], c[2]>>}
     \/ Move(c, "backoff", "rejected") /\ UNCHANGED accepted
  /\ Reach(c)
  /\ UNCHANGED <<hook, notify, todo, sem, log>>

Answered(c) ==
  /\ send[c].at = "send"
  /\ \/ /\ Move(c, "record", "ok")
        /\ accepted' = accepted \cup {<<c[1], c[2]>>}
     \/ Move(c, "record", "rejected") /\ UNCHANGED accepted
  /\ Reach(c)
  /\ UNCHANGED <<hook, notify, todo, sem, log>>

\* 5xx or no answer.  The request may have been lost on its way there, or its
\* answer on the way back.  After the last attempt Send returns no delivery: the
\* pool then has nothing to record, the retry handler records the error.
Unanswered_OffByOne(c) ==
  /\ send[c].at = "send"
  /\ UNCHANGED <<received, accepted>>
  /\ \/ /\ send[c].attempt <= MaxRetries
        /\ Move(c, "backoff", "error")
        /\ UNCHANGED sem
     \/ /\ send[c].attempt > MaxRetries
        /\ IF Pooled(c) THEN Move(c, "over", "error") ELSE Move(c, "record", "error")
        /\ Leave(c)
  /\ UNCHANGED <<hook, notify, todo, log>>

Unanswered(c) ==
  /\ send[c].at = "send"
  /\ \/ Reach(c) /\ UNCHANGED accepted
     \/ Reach(c) /\ accepted' = accepted \cup {<<c[1], c[2]>>}
     \/ UNCHANGED <<received, accepted>>
  /\ \/ /\ send[c].attempt < MaxRetries
        /\ Move(c, "backoff", "error")
        /\ UNCHANGED sem
     \/ /\ send[c].attempt = MaxRetries
        /\ IF Pooled(c) THEN Move(c, "over", "error") ELSE Move(c, "record", "error")
        /\ Leave(c)
  /\ UNCHANGED <<hook, notify, todo, log>>

\* The wait before the next attempt is over.
Backoff_SameAttempt(c) ==
  /\ send[c].at = "backoff"
  /\ send' = [send EXCEPT ![c].at = "send"]
  /\ UNCHANGED <<hook, notify, todo, sem, received, accepted, log>>

Backoff(c) ==
  /\ send[c].at = "backoff"
  /\ send' = [send EXCEPT ![c].at = "send", ![c].attempt = @ + 1]
  /\ UNCHANGED <<hook, notify, todo, sem, received, accepted, log>>

\* The row needs its webhook (foreign key); an error is ignored.
Record_Unchecked(c) ==
  /\ send[c].at = "record"
  /\ send' = [send EXCEPT ![c].at = "over"]
  /\ Leave(c)
  /\ log' = log \cup {<<c, send[c].answer>>}
  /\ UNCHANGED <<hook, notify, todo, received, accepted>>

Record(c) ==
  /\ send[c].at = "record"
  /\ send' = [send EXCEPT ![c].at = "over"]
  /\ Leave(c)
  /\ \/ hook[c[2]] # "deleted" /\ log' = log \cup {<<c, send[c].answer>>}
     \/ /\ hook[c[2]] = "deleted" \/ "db" \in Faults
           \/ ("abort" \in Faults /\ ~Pooled(c))
        /\ UNCHANGED log
  /\ UNCHANGED <<hook, notify, todo, received, accepted>>

(***************************************************************************)
(* POST .../deliveries/{id}/retry: the handler calls Send itself, outside  *)
(* the pool, and whether or not the webhook is enabled.                    *)
(***************************************************************************)
RetryDelivery_Unscoped(e, h) ==
  LET c == <<e, h, "manual">> IN
  /\ h \in Retried
  /\ send[c].at \in {"none", "over"}
  /\ \E row \in log : row[1][1] = e
  /\ send' = [send EXCEPT ![c] = Started]
  /\ received' = [received EXCEPT ![c] = 0]
  /\ UNCHANGED <<hook, notify, todo, sem, accepted, log>>

RetryDelivery(e, h) ==
  LET c == <<e, h, "manual">> IN
  /\ h \in Retried
  /\ send[c].at \in {"none", "over"}
  /\ \E row \in log : row[1][1] = e /\ row[1][2] = h
  /\ send' = [send EXCEPT ![c] = Started]
  /\ received' = [received EXCEPT ![c] = 0]
  /\ UNCHANGED <<hook, notify, todo, sem, accepted, log>>

\* r.Context is cancelled during a wait; it is the context of Record too.
AbortRetry(c) ==
  /\ "abort" \in Faults
  /\ ~Pooled(c)
  /\ send[c].at = "backoff"
  /\ send' = [send EXCEPT ![c].at = "over"]
  /\ UNCHANGED <<hook, notify, todo, sem, received, accepted, log>>

Crash ==
  /\ "crash" \in Faults
  /\ notify' = [e \in Events |-> IF notify[e] = "list" THEN "over" ELSE notify[e]]
  /\ todo' = [e \in Events |-> {}]
  /\ sem' = 0
  /\ send' = [c \in Calls |-> IF send[c].at \in InFlight
                              THEN [send[c] EXCEPT !.at = "over"] ELSE send[c]]
  /\ UNCHANGED <<hook, received, accepted, log>>

-----------------------------------------------------------------------------
NotifyStep(e) == ListHooks(e) \/ \E h \in Hooks : Dispatch(e, h)

SendStep(c) == Answered(c) \/ Unanswered(c) \/ Backoff(c) \/ Record(c)

Next ==
  \/ \E h \in Hooks : CreateHook(h) \/ UpdateHook(h) \/ DeleteHook(h)
  \/ \E e \in Events : Notify(e) \/ NotifyStep(e)
  \/ \E c \in Calls : SendStep(c) \/ AbortRetry(c)
  \/ \E e \in Events, h \in Hooks : RetryDelivery(e, h)
  \/ Crash

Spec == Init /\ [][Next]_vars

(***************************************************************************)
(* Fairness: goroutines run, and every request and statement returns: the  *)
(* HTTP client and the contexts have timeouts.  Users and endpoints are    *)
(* free to do what they like.                                              *)
(***************************************************************************)
Fairness ==
  /\ \A e \in Events : WF_vars(NotifyStep(e))
  /\ \A c \in Calls : WF_vars(SendStep(c))

FairSpec == Spec /\ Fairness

-----------------------------------------------------------------------------
(***************************************************************************)
(* Safety.                                                                 *)
(***************************************************************************)

(* The semaphore counts the deliveries in flight, and never loses or       *)
(* keeps a slot: a leak would drop every later delivery of the server.     *)
SlotsAreCounted == sem = Cardinality(Busy)

(* Attempts on the wire never outnumber the attempts Send has counted, so  *)
(* an endpoint sees an event at most maxRetries times per call.            *)
RequestsAreCounted ==
  \A c \in Calls :
    received[c] <= (IF send[c].at = "send" THEN send[c].attempt - 1
                                           ELSE send[c].attempt)

(* What the log says is so: a delivery logged as a success was answered    *)
(* with 2xx (now or in an earlier call), every row belongs to a webhook    *)
(* that exists, and only the pool or a retry of a logged row made it.      *)
LogIsTruthful ==
  \A row \in log :
    /\ hook[row[1][2]] \in {"enabled", "disabled"}
    /\ row[2] = "ok" => <<row[1][1], row[1][2]>> \in accepted
    /\ send[<<row[1][1], row[1][2], "auto">>].at = "over"

(* The inductive invariant behind the safety theorems, in named parts.     *)
CallIsSound(c) ==
  /\ send[c].at \in {"none", "dropped"} => send[c].attempt = 0
  /\ send[c].at \in InFlight => send[c].attempt >= 1
  /\ send[c].at = "send" => send[c].answer \in {"none", "error"}
  /\ send[c].at = "backoff" => send[c].attempt < MaxRetries /\ send[c].answer = "error"
  /\ send[c].at = "record" => send[c].answer # "none"
  /\ send[c].answer = "ok" => <<c[1], c[2]>> \in accepted

\* Send is called for a listed webhook, and by the retry handler once the pool is done.
CallFollowsNotify(c) ==
  send[c].at # "none" =>
    /\ notify[c[1]] = "over"
    /\ hook[c[2]] # "none"
    /\ IF Pooled(c) THEN c[2] \notin todo[c[1]]
                  ELSE send[<<c[1], c[2], "auto">>].at = "over"

ListIsSound(e) ==
  /\ todo[e] # {} => notify[e] = "over"
  /\ \A h \in todo[e] : hook[h] # "none"

(* The calls in memory agree with the notifications, the webhooks and the  *)
(* answers: an event is handed to a webhook once, and only while no retry  *)
(* of it can be on its way.                                                *)
CallsAreCoherent ==
  /\ \A c \in Calls : CallIsSound(c) /\ CallFollowsNotify(c)
  /\ \A e \in Events : ListIsSound(e)

(* What the process holds in memory of its deliveries is consistent: one   *)
(* slot and at most one call for each, whatever ends, fails or is retried. *)
PoolIsCoherent == SlotsAreCounted /\ CallsAreCoherent

(* A call makes no further attempt once its endpoint has answered with     *)
(* 2xx or 4xx.                                                             *)
AnswersAreFinal ==
  [][\A c \in Calls :
       send[c].answer \in {"ok", "rejected"} /\ received'[c] # received[c]
         => send'[c] = Started]_vars

(***************************************************************************)
(* Liveness.                                                               *)
(***************************************************************************)
Settled(e) ==
  /\ notify[e] = "over"
  /\ todo[e] = {}
  /\ \A h \in Hooks : send[<<e, h, "auto">>].at \notin InFlight

(* Every notification comes to its end, whatever its endpoints do: each    *)
(* matching webhook has been tried, dropped or given up.                   *)
NotificationsSettle == \A e \in Events : notify[e] = "list" ~> Settled(e)
=============================================================================
