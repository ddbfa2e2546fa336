--------------------------- MODULE Webhooks_proofs ---------------------------
(***************************************************************************)
(* Proofs about Webhooks, for every set of webhooks and events, every size *)
(* of the pool, every number of attempts and every set of faults.          *)
(***************************************************************************)
EXTENDS Webhooks, FiniteSetTheorems, TLAPS

USE DEF Calls, Answers, InFlight, Unsent, Started

CallType == [at: {"none", "dropped", "over"} \cup InFlight,
             attempt: 0 .. MaxRetries, answer: {"none"} \cup Answers]

(* A call is named by its event, its webhook and its caller.               *)
LEMMA CallParts ==
  ASSUME NEW c \in Calls
  PROVE  /\ c[1] \in Events /\ c[2] \in Hooks /\ c[3] \in {"auto", "manual"}
         /\ c = <<c[1], c[2], c[3]>>
         /\ <<c[1], c[2], "auto">> \in Calls
OBVIOUS

(* How a step may change the set of deliveries that hold a slot.           *)
LEMMA BusyJoins ==
  ASSUME NEW B, NEW c, IsFiniteSet(B), c \notin B
  PROVE  IsFiniteSet(B \cup {c}) /\ Cardinality(B \cup {c}) = Cardinality(B) + 1
BY FS_AddElement

LEMMA BusyLeaves ==
  ASSUME NEW B, NEW c, IsFiniteSet(B), c \in B
  PROVE  /\ IsFiniteSet(B \ {c})
         /\ Cardinality(B \ {c}) = Cardinality(B) - 1
         /\ Cardinality(B) \in Nat \ {0}
<1>1. IsFiniteSet(B \ {c}) /\ Cardinality(B \ {c}) = Cardinality(B) - 1
  BY FS_RemoveElement
<1>2. Cardinality(B) \in Nat /\ Cardinality(B) # 0
  BY FS_CardinalityType, FS_EmptySet
<1> QED BY <1>1, <1>2

(* The invariant behind all the theorems.  Busy is finite although the     *)
(* set of events need not be.                                              *)
IInv ==
  /\ TypeOK
  /\ IsFiniteSet(Busy)
  /\ SlotsAreCounted
  /\ RequestsAreCounted
  /\ CallsAreCoherent
  /\ LogIsTruthful

LEMMA InitIsGood == Init => IInv
<1> SUFFICES ASSUME Init PROVE IInv
  OBVIOUS
<1> USE DEF Init
<1>1. TypeOK
  BY ConstantsAssumption DEF TypeOK
<1>2. Busy = {}
  BY DEF Busy
<1>3. IsFiniteSet(Busy) /\ SlotsAreCounted
  BY <1>2, FS_EmptySet DEF SlotsAreCounted
<1>4. RequestsAreCounted
  BY DEF RequestsAreCounted
<1>5. CallsAreCoherent
  BY DEF CallsAreCoherent, CallIsSound, CallFollowsNotify, ListIsSound
<1>6. LogIsTruthful
  BY DEF LogIsTruthful
<1> QED BY <1>1, <1>3, <1>4, <1>5, <1>6 DEF IInv

(* What any step of a call of Send does, in one formula: only this call    *)
(* moves, and it gives its slot back exactly when it leaves the pool.      *)
LEMMA SendFrame ==
  ASSUME IInv, NEW c \in Calls, SendStep(c) \/ AbortRetry(c)
  PROVE  /\ UNCHANGED <<hook, notify, todo>>
         /\ send[c].at \in InFlight
         /\ \E call \in CallType : send' = [send EXCEPT ![c] = call]
         /\ \A d \in Calls \ {c} : send'[d] = send[d]
         /\ send'[c] \in CallType
         /\ send'[c].at \in InFlight \cup {"over"}
         /\ send'[c].at \in InFlight \/ ~Pooled(c) => sem' = sem
         /\ send'[c].at = "over" /\ Pooled(c) => sem' = sem - 1
<1> USE DEF TypeOK, CallType, Pooled
<1>0. send \in [Calls -> CallType] /\ send[c] \in CallType /\ MaxRetries \in Nat \ {0}
  BY ConstantsAssumption DEF IInv
<1>1. ASSUME NEW at \in InFlight \cup {"over"}, NEW answer \in Answers
      PROVE  [send[c] EXCEPT !.at = at, !.answer = answer] \in CallType
  BY <1>0
<1>2. ASSUME NEW at \in InFlight \cup {"over"}
      PROVE  [send[c] EXCEPT !.at = at] \in CallType
  BY <1>0
<1>3. CASE Answered(c)
  BY <1>0, <1>1, <1>3 DEF Answered, Move
<1>4. CASE Unanswered(c)
  BY <1>0, <1>1, <1>4 DEF Unanswered, Move, Leave
<1>5. CASE Backoff(c)
  <2>1. send[c].attempt < MaxRetries
    BY <1>5 DEF IInv, CallsAreCoherent, CallIsSound, Backoff
  <2>2. send[c].attempt + 1 \in 0 .. MaxRetries
    BY <1>0, <2>1
  <2>3. [send[c] EXCEPT !.at = "send", !.attempt = send[c].attempt + 1] \in CallType
    BY <1>0, <2>2
  <2> QED BY <1>0, <1>5, <2>3 DEF Backoff
<1>6. CASE Record(c)
  BY <1>0, <1>2, <1>6 DEF Record, Leave
<1>7. CASE AbortRetry(c)
  BY <1>0, <1>2, <1>7 DEF AbortRetry
<1> QED BY <1>3, <1>4, <1>5, <1>6, <1>7 DEF SendStep

(* The pool's slots are counted across such a step.                        *)
LEMMA SendKeepsSlots ==
  ASSUME IInv, NEW c \in Calls, SendStep(c) \/ AbortRetry(c)
  PROVE  IsFiniteSet(Busy)' /\ SlotsAreCounted' /\ sem' \in 0 .. PoolSize
<1>0. /\ \A d \in Calls \ {c} : send'[d] = send[d]
      /\ send[c].at \in InFlight
      /\ send'[c].at \in InFlight \cup {"over"}
      /\ send'[c].at \in InFlight \/ ~Pooled(c) => sem' = sem
      /\ send'[c].at = "over" /\ Pooled(c) => sem' = sem - 1
  BY SendFrame
<1>1. /\ IsFiniteSet(Busy) /\ sem = Cardinality(Busy)
      /\ sem \in 0 .. PoolSize /\ PoolSize \in Nat
  BY ConstantsAssumption DEF IInv, SlotsAreCounted, TypeOK
<1>2. CASE send'[c].at \in InFlight \/ ~Pooled(c)
  <2>1. Busy' = Busy
    BY <1>0, <1>2 DEF Busy, Pooled
  <2> QED BY <1>0, <1>1, <1>2, <2>1 DEF SlotsAreCounted
<1>3. CASE send'[c].at = "over" /\ Pooled(c)
  <2>1. Busy' = Busy \ {c} /\ c \in Busy
    BY <1>0, <1>3 DEF Busy, Pooled
  <2>2. /\ IsFiniteSet(Busy \ {c})
        /\ Cardinality(Busy \ {c}) = Cardinality(Busy) - 1
        /\ Cardinality(Busy) \in Nat \ {0}
    BY <1>1, <2>1, BusyLeaves
  <2> QED BY <1>0, <1>1, <1>3, <2>1, <2>2 DEF SlotsAreCounted
<1> QED BY <1>0, <1>2, <1>3

(* A step of a call of Send keeps the rest of the invariant.               *)
LEMMA SendKeepsTypes ==
  ASSUME IInv, NEW c \in Calls, SendStep(c) \/ AbortRetry(c)
  PROVE  TypeOK'
<1>1. /\ UNCHANGED <<hook, notify, todo>>
      /\ sem' \in 0 .. PoolSize
      /\ \E call \in CallType : send' = [send EXCEPT ![c] = call]
  BY SendFrame, SendKeepsSlots
<1>2. TypeOK /\ MaxRetries \in Nat
  BY ConstantsAssumption DEF IInv
<1>3. send' \in [Calls -> CallType]
  BY <1>1, <1>2 DEF TypeOK, CallType
<1>4. send[c].at = "send" => received[c] + 1 \in 0 .. MaxRetries
  <2>1. send[c].attempt \in 0 .. MaxRetries /\ received[c] \in 0 .. MaxRetries
    BY <1>2 DEF TypeOK
  <2>2. send[c].at = "send" => received[c] <= send[c].attempt - 1
    BY DEF IInv, RequestsAreCounted
  <2> QED BY <1>2, <2>1, <2>2
<1>5. received' \in [Calls -> 0 .. MaxRetries] /\ accepted' \subseteq Events \X Hooks
  <2>1. /\ \/ received' = received
           \/ send[c].at = "send" /\ received' = [received EXCEPT ![c] = @ + 1]
        /\ \/ accepted' = accepted
           \/ accepted' = accepted \cup {<<c[1], c[2]>>}
    BY DEF SendStep, Answered, Unanswered, Backoff, Record, AbortRetry, Reach
  <2>2. <<c[1], c[2]>> \in Events \X Hooks
    BY CallParts
  <2>3. received' \in [Calls -> 0 .. MaxRetries]
    BY <1>2, <1>4, <2>1 DEF TypeOK
  <2>4. accepted' \subseteq Events \X Hooks
    BY <1>2, <2>1, <2>2 DEF TypeOK
  <2> QED BY <2>3, <2>4
<1>6. log' \subseteq Calls \X Answers
  <2>1. send[c].at = "record" => send[c].answer \in Answers
    BY <1>2 DEF IInv, CallsAreCoherent, CallIsSound, TypeOK
  <2> QED BY <1>2, <2>1 DEF TypeOK, SendStep, Answered, Unanswered, Backoff, Record, AbortRetry
<1> QED BY <1>1, <1>2, <1>3, <1>5, <1>6 DEF TypeOK, CallType

LEMMA SendKeepsCounts ==
  ASSUME IInv, NEW c \in Calls, SendStep(c) \/ AbortRetry(c)
  PROVE  RequestsAreCounted'
<1> SUFFICES ASSUME NEW d \in Calls
             PROVE  received'[d] <= (IF send'[d].at = "send" THEN send'[d].attempt - 1
                                                             ELSE send'[d].attempt)
  BY DEF RequestsAreCounted
<1>1. /\ \A x \in Calls \ {c} : send'[x] = send[x]
      /\ send \in [Calls -> CallType] /\ received \in [Calls -> 0 .. MaxRetries]
      /\ MaxRetries \in Nat
  BY SendFrame, ConstantsAssumption DEF IInv, TypeOK, CallType
<1>2. received[d] <= (IF send[d].at = "send" THEN send[d].attempt - 1 ELSE send[d].attempt)
  BY DEF IInv, RequestsAreCounted
<1>3. send[d].attempt \in Nat /\ received[d] \in Nat
  BY <1>1 DEF CallType
<1>4. CASE d # c
  <2>1. send'[d] = send[d] /\ received'[d] = received[d]
    BY <1>1, <1>4 DEF SendStep, Answered, Unanswered, Backoff, Record, AbortRetry, Reach
  <2> QED BY <1>2, <2>1
<1>5. CASE d = c
  <2>1. CASE Answered(c) \/ Unanswered(c)
    <3>1. /\ send[c].at = "send"
          /\ send'[c].at # "send" /\ send'[c].attempt = send[c].attempt
          /\ received'[c] = received[c] \/ received'[c] = received[c] + 1
      BY <1>1, <2>1 DEF Answered, Unanswered, Move, Reach, CallType
    <3> QED BY <1>2, <1>3, <1>5, <3>1
  <2>2. CASE Backoff(c)
    <3>1. /\ send[c].at = "backoff" /\ received' = received
          /\ send'[c].at = "send" /\ send'[c].attempt = send[c].attempt + 1
      BY <1>1, <2>2 DEF Backoff, CallType
    <3> QED BY <1>2, <1>3, <1>5, <3>1
  <2>3. CASE Record(c) \/ AbortRetry(c)
    <3>1. /\ send[c].at # "send" /\ received' = received
          /\ send'[c].at # "send" /\ send'[c].attempt = send[c].attempt
      BY <1>1, <2>3 DEF Record, AbortRetry, CallType
    <3> QED BY <1>2, <1>3, <1>5, <3>1
  <2> QED BY <2>1, <2>2, <2>3 DEF SendStep
<1> QED BY <1>4, <1>5

LEMMA SendKeepsCoherence ==
  ASSUME IInv, NEW c \in Calls, SendStep(c) \/ AbortRetry(c)
  PROVE  CallsAreCoherent'
<1>0. /\ UNCHANGED <<hook, notify, todo>>
      /\ \A x \in Calls \ {c} : send'[x] = send[x]
      /\ send[c].at \in InFlight
      /\ send'[c].at \in InFlight \cup {"over"}
      /\ send \in [Calls -> CallType] /\ MaxRetries \in Nat \ {0}
  BY SendFrame, ConstantsAssumption DEF IInv, TypeOK, CallType
<1>1. \A d \in Calls : CallIsSound(d) /\ CallFollowsNotify(d)
  BY DEF IInv, CallsAreCoherent
<1>2. accepted \subseteq accepted'
  BY DEF SendStep, Answered, Unanswered, Backoff, Record, AbortRetry
<1>3. ASSUME NEW d \in Calls PROVE CallIsSound(d)'
  <2>1. CASE d # c
    BY <1>0, <1>1, <1>2, <2>1 DEF CallIsSound
  <2>2. CASE d = c
    <3>0. CallIsSound(c) /\ send[c] \in CallType
      BY <1>0, <1>1
    <3>1. CASE Answered(c)
      BY <1>0, <3>0, <3>1, <2>2 DEF Answered, Move, CallIsSound, CallType
    <3>2. CASE Unanswered(c)
      <4>1. /\ send'[c].answer = "error" /\ send'[c].attempt = send[c].attempt
            /\ \/ send'[c].at = "backoff" /\ send[c].attempt < MaxRetries
               \/ send'[c].at \in {"over", "record"}
        BY <1>0, <3>2 DEF Unanswered, Move, CallType
      <4> QED BY <1>0, <3>0, <4>1, <2>2, <3>2 DEF CallIsSound, CallType, Unanswered
    <3>3. CASE Backoff(c)
      <4>1. /\ send[c].at = "backoff" /\ send'[c].at = "send"
            /\ send'[c].attempt = send[c].attempt + 1 /\ send'[c].answer = send[c].answer
        BY <1>0, <3>3 DEF Backoff, CallType
      <4> QED BY <1>0, <3>0, <4>1, <2>2 DEF CallIsSound, CallType
    <3>4. CASE Record(c) \/ AbortRetry(c)
      <4>1. /\ send'[c].at = "over"
            /\ send'[c].attempt = send[c].attempt /\ send'[c].answer = send[c].answer
            /\ accepted' = accepted
        BY <1>0, <3>4 DEF Record, AbortRetry, CallType
      <4> QED BY <3>0, <4>1, <2>2 DEF CallIsSound
    <3> QED BY <3>1, <3>2, <3>3, <3>4 DEF SendStep
  <2> QED BY <2>1, <2>2
<1>4. ASSUME NEW d \in Calls PROVE CallFollowsNotify(d)'
  <2>1. send'[d].at # "none" => send[d].at # "none"
    BY <1>0
  <2>2. <<d[1], d[2], "auto">> \in Calls
    BY CallParts
  <2>3. send[<<d[1], d[2], "auto">>].at = "over" => send'[<<d[1], d[2], "auto">>].at = "over"
    BY <1>0, <2>2
  <2> QED BY <1>0, <1>1, <2>1, <2>3 DEF CallFollowsNotify, Pooled
<1>5. \A e \in Events : ListIsSound(e)'
  BY <1>0 DEF IInv, CallsAreCoherent, ListIsSound
<1> QED BY <1>3, <1>4, <1>5 DEF CallsAreCoherent

LEMMA SendKeepsLog ==
  ASSUME IInv, NEW c \in Calls, SendStep(c) \/ AbortRetry(c)
  PROVE  LogIsTruthful'
<1>0. /\ UNCHANGED hook
      /\ \A x \in Calls \ {c} : send'[x] = send[x]
      /\ send[c].at \in InFlight
      /\ send \in [Calls -> CallType] /\ log \subseteq Calls \X Answers
      /\ hook \in [Hooks -> {"none", "enabled", "disabled", "deleted"}]
  BY SendFrame DEF IInv, TypeOK, CallType
<1>1. accepted \subseteq accepted'
  BY DEF SendStep, Answered, Unanswered, Backoff, Record, AbortRetry
<1>2. ASSUME NEW row \in log
      PROVE  /\ hook'[row[1][2]] \in {"enabled", "disabled"}
             /\ row[2] = "ok" => <<row[1][1], row[1][2]>> \in accepted'
             /\ send'[<<row[1][1], row[1][2], "auto">>].at = "over"
  <2>1. row[1] \in Calls
    BY <1>0
  <2>2. <<row[1][1], row[1][2], "auto">> \in Calls
    BY <2>1, CallParts
  <2> QED BY <1>0, <1>1, <2>2 DEF IInv, LogIsTruthful
<1>3. CASE log' = log
  BY <1>2, <1>3 DEF LogIsTruthful
<1>4. CASE Record(c) /\ log' # log
  <2>1. /\ send[c].at = "record" /\ hook[c[2]] # "deleted"
        /\ log' = log \cup {<<c, send[c].answer>>}
        /\ send'[c].at = "over"
    BY <1>0, <1>4 DEF Record, CallType
  <2>2. CallIsSound(c) /\ CallFollowsNotify(c)
    BY DEF IInv, CallsAreCoherent
  <2>3. hook[c[2]] \in {"enabled", "disabled"}
    BY <1>0, <2>1, <2>2, CallParts DEF CallFollowsNotify
  <2>4. send[c].answer = "ok" => <<c[1], c[2]>> \in accepted'
    BY <1>1, <2>2 DEF CallIsSound
  <2>5. send'[<<c[1], c[2], "auto">>].at = "over"
    <3>1. CASE Pooled(c)
      <4>1. c = <<c[1], c[2], "auto">>
        BY <3>1, CallParts DEF Pooled
      <4> QED BY <2>1, <4>1
    <3>2. CASE ~Pooled(c)
      <4>1. c # <<c[1], c[2], "auto">>
        BY <3>2 DEF Pooled
      <4> QED BY <1>0, <2>1, <2>2, <3>2, <4>1, CallParts DEF CallFollowsNotify
    <3> QED BY <3>1, <3>2
  <2> DEFINE row == <<c, send[c].answer>>
  <2>6. /\ row[1] = c /\ row[2] = send[c].answer
    OBVIOUS
  <2> HIDE DEF row
  <2> QED BY <1>0, <1>2, <2>1, <2>3, <2>4, <2>5, <2>6 DEF LogIsTruthful, row
<1> QED BY <1>3, <1>4 DEF SendStep, Answered, Unanswered, Backoff, AbortRetry

(* The handlers that create, edit and delete webhooks.                     *)
LEMMA HooksKeep ==
  ASSUME IInv, NEW h \in Hooks, CreateHook(h) \/ UpdateHook(h) \/ DeleteHook(h)
  PROVE  IInv'
<1>0. UNCHANGED <<notify, todo, sem, send, received, accepted>>
  BY DEF CreateHook, UpdateHook, DeleteHook
<1>1. /\ \A g \in Hooks : hook[g] # "none" => hook'[g] # "none"
      /\ hook' \in [Hooks -> {"none", "enabled", "disabled", "deleted"}]
      /\ log' \subseteq log
  BY DEF IInv, TypeOK, CreateHook, UpdateHook, DeleteHook
<1>2. TypeOK'
  BY <1>0, <1>1 DEF IInv, TypeOK
<1>3. IsFiniteSet(Busy)' /\ SlotsAreCounted' /\ RequestsAreCounted'
  BY <1>0 DEF IInv, Busy, SlotsAreCounted, RequestsAreCounted
<1>4. CallsAreCoherent'
  <2>1. ASSUME NEW c \in Calls PROVE CallIsSound(c)' /\ CallFollowsNotify(c)'
    BY <1>0, <1>1, CallParts
       DEF IInv, CallsAreCoherent, CallIsSound, CallFollowsNotify, Pooled
  <2>2. ASSUME NEW e \in Events PROVE ListIsSound(e)'
    BY <1>0, <1>1 DEF IInv, CallsAreCoherent, ListIsSound, TypeOK
  <2> QED BY <2>1, <2>2 DEF CallsAreCoherent
<1>5. LogIsTruthful'
  <2>1. ASSUME NEW row \in log' PROVE hook'[row[1][2]] \in {"enabled", "disabled"}
    <3>1. row \in log /\ row[1] \in Calls /\ row[1][2] \in Hooks
      BY <1>1, <2>1, CallParts DEF IInv, TypeOK
    <3>2. hook[row[1][2]] \in {"enabled", "disabled"}
      BY <3>1 DEF IInv, LogIsTruthful
    <3> QED BY <1>1, <2>1, <3>1, <3>2
            DEF IInv, TypeOK, CreateHook, UpdateHook, DeleteHook
  <2> QED BY <1>0, <1>1, <2>1 DEF IInv, LogIsTruthful
<1> QED BY <1>2, <1>3, <1>4, <1>5 DEF IInv

(* The start of a notification, and its list of webhooks.                  *)
LEMMA NotifyKeeps ==
  ASSUME IInv, NEW e \in Events, Notify(e) \/ ListHooks(e)
  PROVE  IInv'
<1>0. UNCHANGED <<hook, sem, send, received, accepted, log>>
  BY DEF Notify, ListHooks
<1>1. TypeOK'
  BY <1>0 DEF IInv, TypeOK, Notify, ListHooks
<1>2. IsFiniteSet(Busy)' /\ SlotsAreCounted' /\ RequestsAreCounted' /\ LogIsTruthful'
  BY <1>0 DEF IInv, Busy, SlotsAreCounted, RequestsAreCounted, LogIsTruthful
<1>3. CallsAreCoherent'
  <2>1. /\ notify[e] # "over"
        /\ \A f \in Events \ {e} : notify'[f] = notify[f] /\ todo'[f] = todo[f]
    BY DEF IInv, TypeOK, Notify, ListHooks
  <2>2. ASSUME NEW c \in Calls PROVE CallIsSound(c)' /\ CallFollowsNotify(c)'
    <3>1. CallIsSound(c) /\ CallFollowsNotify(c)
      BY DEF IInv, CallsAreCoherent
    <3>2. CallIsSound(c)'
      BY <1>0, <3>1 DEF CallIsSound
    <3>3. CallFollowsNotify(c)'
      BY <1>0, <2>1, <3>1, CallParts DEF CallFollowsNotify, Pooled
    <3> QED BY <3>2, <3>3
  <2>3. ASSUME NEW f \in Events PROVE ListIsSound(f)'
    <3>1. ListIsSound(f) /\ ListIsSound(e)
      BY DEF IInv, CallsAreCoherent
    <3> QED BY <1>0, <2>1, <3>1 DEF ListIsSound, Notify, ListHooks, IInv, TypeOK
  <2> QED BY <2>2, <2>3 DEF CallsAreCoherent
<1> QED BY <1>1, <1>2, <1>3 DEF IInv

(* A delivery is handed to the pool, or dropped.                           *)
LEMMA DispatchKeeps ==
  ASSUME IInv, NEW e \in Events, NEW h \in Hooks, Dispatch(e, h)
  PROVE  IInv'
<1> DEFINE c == <<e, h, "auto">>
<1>0. /\ c \in Calls /\ c[1] = e /\ c[2] = h /\ Pooled(c)
      /\ \A d \in Calls : d[1] = e /\ d[2] = h /\ Pooled(d) => d = c
  BY CallParts DEF Pooled
<1>1. /\ h \in todo[e] /\ todo' = [todo EXCEPT ![e] = @ \ {h}]
      /\ \/ sem < PoolSize /\ sem' = sem + 1 /\ send' = [send EXCEPT ![c] = Started]
         \/ sem' = sem /\ send' = [send EXCEPT ![c].at = "dropped"]
      /\ UNCHANGED <<hook, notify, received, accepted, log>>
  BY DEF Dispatch
<1> HIDE DEF c
<1>2. TypeOK /\ PoolSize \in Nat /\ MaxRetries \in Nat \ {0}
  BY ConstantsAssumption DEF IInv
<1>3. CallIsSound(c) /\ CallFollowsNotify(c) /\ ListIsSound(e) /\ send[c] \in CallType
  BY <1>0, <1>2 DEF IInv, CallsAreCoherent, TypeOK, CallType
<1>4. send[c].at = "none" /\ notify[e] = "over" /\ hook[h] # "none"
  BY <1>0, <1>1, <1>3 DEF CallFollowsNotify, ListIsSound
<1>5. \E call \in {Started, [send[c] EXCEPT !.at = "dropped"]} :
        send' = [send EXCEPT ![c] = call]
  BY <1>1
<1>6. /\ send' \in [Calls -> CallType]
      /\ \A d \in Calls \ {c} : send'[d] = send[d]
      /\ \/ send'[c] = Started /\ sem < PoolSize /\ sem' = sem + 1
         \/ send'[c] = [send[c] EXCEPT !.at = "dropped"] /\ sem' = sem
  <2>1. Started \in CallType
    BY <1>2 DEF CallType
  <2>2. [send[c] EXCEPT !.at = "dropped"] \in CallType
    BY <1>3 DEF CallType
  <2> QED BY <1>0, <1>1, <1>2, <2>1, <2>2 DEF TypeOK, CallType
<1>7. /\ send'[c].at \in {"send", "dropped"}
      /\ send'[c].at = "send" => send'[c].attempt = 1 /\ send'[c].answer = "none"
      /\ send'[c].at = "dropped" => send'[c].attempt = send[c].attempt
                                    /\ send'[c].answer = send[c].answer
      /\ send'[c].at = "send" => sem < PoolSize /\ sem' = sem + 1
      /\ send'[c].at = "dropped" => sem' = sem
  BY <1>3, <1>6 DEF CallType
<1>8. TypeOK'
  BY <1>1, <1>2, <1>6 DEF TypeOK, CallType
<1>9. IsFiniteSet(Busy)' /\ SlotsAreCounted'
  <2>1. c \notin Busy /\ IsFiniteSet(Busy) /\ sem = Cardinality(Busy)
    BY <1>4 DEF Busy, IInv, SlotsAreCounted
  <2>2. CASE send'[c].at = "send"
    <3>1. Busy' = Busy \cup {c}
      BY <1>0, <1>6, <2>2 DEF Busy, Pooled
    <3> QED BY <1>7, <2>1, <2>2, <3>1, BusyJoins DEF SlotsAreCounted
  <2>3. CASE send'[c].at = "dropped"
    <3>1. Busy' = Busy
      BY <1>4, <1>6, <2>3 DEF Busy, Pooled
    <3> QED BY <1>7, <2>1, <2>3, <3>1 DEF SlotsAreCounted
  <2> QED BY <1>7, <2>2, <2>3
<1>10. RequestsAreCounted'
  <2>1. received[c] <= 0 /\ send[c].attempt = 0 /\ received[c] \in Nat
    BY <1>0, <1>2, <1>3, <1>4 DEF IInv, RequestsAreCounted, CallIsSound, TypeOK
  <2>2. ASSUME NEW d \in Calls
        PROVE  received'[d] <= (IF send'[d].at = "send" THEN send'[d].attempt - 1
                                                        ELSE send'[d].attempt)
    <3>1. CASE d = c
      BY <1>1, <1>7, <2>1, <3>1
    <3>2. CASE d # c
      BY <1>1, <1>6, <3>2 DEF IInv, RequestsAreCounted
    <3> QED BY <3>1, <3>2
  <2> QED BY <2>2 DEF RequestsAreCounted
<1>11. CallsAreCoherent'
  <2>1. ASSUME NEW d \in Calls PROVE CallIsSound(d)'
    <3>1. CallIsSound(d)
      BY DEF IInv, CallsAreCoherent
    <3>2. CASE d = c
      BY <1>1, <1>3, <1>4, <1>7, <3>2 DEF CallIsSound
    <3>3. CASE d # c
      BY <1>1, <1>6, <3>1, <3>3 DEF CallIsSound
    <3> QED BY <3>2, <3>3
  <2>2. ASSUME NEW d \in Calls PROVE CallFollowsNotify(d)'
    <3>1. CallFollowsNotify(d)
      BY DEF IInv, CallsAreCoherent
    <3>2. CASE d = c
      BY <1>0, <1>1, <1>2, <1>4, <3>2 DEF CallFollowsNotify, TypeOK
    <3>3. CASE d # c
      <4>1. <<d[1], d[2], "auto">> \in Calls /\ d[1] \in Events
        BY CallParts
      <4>2. send[<<d[1], d[2], "auto">>].at = "over"
              => send'[<<d[1], d[2], "auto">>] = send[<<d[1], d[2], "auto">>]
        BY <1>4, <1>6, <4>1
      <4>3. send'[d] = send[d] /\ todo'[d[1]] \subseteq todo[d[1]]
        BY <1>1, <1>2, <1>6, <3>3, <4>1 DEF TypeOK
      <4> QED BY <1>1, <3>1, <4>2, <4>3 DEF CallFollowsNotify, Pooled
    <3> QED BY <3>2, <3>3
  <2>3. ASSUME NEW f \in Events PROVE ListIsSound(f)'
    <3>1. ListIsSound(f) /\ todo'[f] \subseteq todo[f]
      BY <1>1, <1>2 DEF IInv, CallsAreCoherent, TypeOK
    <3> QED BY <1>1, <3>1 DEF ListIsSound
  <2> QED BY <2>1, <2>2, <2>3 DEF CallsAreCoherent
<1>12. LogIsTruthful'
  <2>1. ASSUME NEW row \in log
        PROVE  send'[<<row[1][1], row[1][2], "auto">>].at = "over"
    <3>1. <<row[1][1], row[1][2], "auto">> \in Calls
      BY <1>2, CallParts DEF TypeOK
    <3>2. send[<<row[1][1], row[1][2], "auto">>].at = "over"
      BY DEF IInv, LogIsTruthful
    <3> QED BY <1>4, <1>6, <3>1, <3>2
  <2> QED BY <1>1, <2>1 DEF IInv, LogIsTruthful
<1> QED BY <1>8, <1>9, <1>10, <1>11, <1>12 DEF IInv

(* A user sends a logged delivery again.                                   *)
LEMMA RetryKeeps ==
  ASSUME IInv, NEW e \in Events, NEW h \in Hooks, RetryDelivery(e, h)
  PROVE  IInv'
<1> DEFINE c == <<e, h, "manual">>
           auto == <<e, h, "auto">>
<1>0. c \in Calls /\ auto \in Calls /\ c # auto /\ c[1] = e /\ c[2] = h /\ ~Pooled(c)
  BY DEF Pooled
<1>1. /\ send[c].at \in {"none", "over"}
      /\ send' = [send EXCEPT ![c] = Started]
      /\ received' = [received EXCEPT ![c] = 0]
      /\ UNCHANGED <<hook, notify, todo, sem, accepted, log>>
  BY DEF RetryDelivery
<1>2. PICK row \in log : row[1][1] = e /\ row[1][2] = h
  BY DEF RetryDelivery
<1>3. TypeOK /\ MaxRetries \in Nat \ {0}
  BY ConstantsAssumption DEF IInv
<1>4. send[auto].at = "over" /\ hook[h] # "none"
  BY <1>2 DEF IInv, LogIsTruthful
<1>5. notify[e] = "over"
  <2>1. CallFollowsNotify(auto)
    BY <1>0 DEF IInv, CallsAreCoherent
  <2> QED BY <1>4, <2>1 DEF CallFollowsNotify
<1> HIDE DEF c
<1>6. /\ send' \in [Calls -> CallType] /\ send'[c] = Started
      /\ \A d \in Calls \ {c} : send'[d] = send[d] /\ received'[d] = received[d]
      /\ received' \in [Calls -> 0 .. MaxRetries] /\ received'[c] = 0
  <2>1. Started \in CallType /\ 0 \in 0 .. MaxRetries
    BY <1>3 DEF CallType
  <2> QED BY <1>0, <1>1, <1>3, <2>1 DEF TypeOK, CallType
<1>7. TypeOK'
  BY <1>1, <1>3, <1>6 DEF TypeOK, CallType
<1>8. IsFiniteSet(Busy)' /\ SlotsAreCounted'
  <2>1. Busy' = Busy
    BY <1>0, <1>6 DEF Busy, Pooled
  <2> QED BY <1>1, <2>1 DEF IInv, SlotsAreCounted
<1>9. RequestsAreCounted'
  <2>1. ASSUME NEW d \in Calls
        PROVE  received'[d] <= (IF send'[d].at = "send" THEN send'[d].attempt - 1
                                                        ELSE send'[d].attempt)
    <3>1. CASE d = c
      BY <1>6, <3>1
    <3>2. CASE d # c
      BY <1>6, <3>2 DEF IInv, RequestsAreCounted
    <3> QED BY <3>1, <3>2
  <2> QED BY <2>1 DEF RequestsAreCounted
<1>10. CallsAreCoherent'
  <2>1. ASSUME NEW d \in Calls PROVE CallIsSound(d)'
    <3>1. CallIsSound(d)
      BY DEF IInv, CallsAreCoherent
    <3>2. CASE d = c
      BY <1>6, <3>2 DEF CallIsSound
    <3>3. CASE d # c
      BY <1>1, <1>6, <3>1, <3>3 DEF CallIsSound
    <3> QED BY <3>2, <3>3
  <2>2. ASSUME NEW d \in Calls PROVE CallFollowsNotify(d)'
    <3>1. CallFollowsNotify(d)
      BY DEF IInv, CallsAreCoherent
    <3>2. CASE d = c
      BY <1>0, <1>1, <1>4, <1>5, <1>6, <3>2 DEF CallFollowsNotify
    <3>3. CASE d # c
      <4>1. <<d[1], d[2], "auto">> \in Calls /\ <<d[1], d[2], "auto">> # c
        BY CallParts DEF c
      <4> QED BY <1>1, <1>6, <3>1, <3>3, <4>1 DEF CallFollowsNotify, Pooled
    <3> QED BY <3>2, <3>3
  <2>3. ASSUME NEW f \in Events PROVE ListIsSound(f)'
    BY <1>1 DEF IInv, CallsAreCoherent, ListIsSound
  <2> QED BY <2>1, <2>2, <2>3 DEF CallsAreCoherent
<1>11. LogIsTruthful'
  <2>1. ASSUME NEW r \in log
        PROVE  send'[<<r[1][1], r[1][2], "auto">>].at = "over"
    <3>1. <<r[1][1], r[1][2], "auto">> \in Calls /\ <<r[1][1], r[1][2], "auto">> # c
      BY <1>3, CallParts DEF TypeOK, c
    <3> QED BY <1>6, <3>1 DEF IInv, LogIsTruthful
  <2> QED BY <1>1, <2>1 DEF IInv, LogIsTruthful
<1> QED BY <1>7, <1>8, <1>9, <1>10, <1>11 DEF IInv

(* The process ends: every call in flight is over, every slot free.        *)
LEMMA CrashKeeps ==
  ASSUME IInv, Crash
  PROVE  IInv'
<1>0. TypeOK /\ PoolSize \in Nat /\ send \in [Calls -> CallType]
  BY ConstantsAssumption DEF IInv, TypeOK, CallType
<1>1. /\ UNCHANGED <<hook, received, accepted, log>>
      /\ todo' = [e \in Events |-> {}] /\ sem' = 0
      /\ \A e \in Events : notify[e] = "over" => notify'[e] = "over"
      /\ notify' \in [Events -> {"idle", "list", "over"}]
  BY <1>0 DEF Crash, TypeOK
<1>2. ASSUME NEW c \in Calls
      PROVE  /\ send'[c] \in CallType
             /\ send'[c].attempt = send[c].attempt /\ send'[c].answer = send[c].answer
             /\ send'[c].at = IF send[c].at \in InFlight THEN "over" ELSE send[c].at
  <2>1. send[c] \in CallType
    BY <1>0
  <2>2. send'[c] = IF send[c].at \in InFlight THEN [send[c] EXCEPT !.at = "over"] ELSE send[c]
    BY DEF Crash
  <2> QED BY <2>1, <2>2 DEF CallType
<1>3. send' \in [Calls -> CallType]
  <2>1. send' = [c \in Calls |-> send'[c]]
    BY DEF Crash
  <2> QED BY <1>2, <2>1
<1>4. TypeOK'
  BY <1>0, <1>1, <1>3 DEF TypeOK, CallType
<1>5. IsFiniteSet(Busy)' /\ SlotsAreCounted'
  <2>1. Busy' = {}
    BY <1>2 DEF Busy
  <2> QED BY <1>1, <2>1, FS_EmptySet DEF SlotsAreCounted
<1>6. RequestsAreCounted'
  <2>1. ASSUME NEW c \in Calls
        PROVE  received'[c] <= (IF send'[c].at = "send" THEN send'[c].attempt - 1
                                                        ELSE send'[c].attempt)
    <3>1. /\ received[c] \in Nat /\ send[c].attempt \in Nat
          /\ received[c] <= (IF send[c].at = "send" THEN send[c].attempt - 1
                                                    ELSE send[c].attempt)
      BY <1>0, ConstantsAssumption DEF IInv, RequestsAreCounted, TypeOK
    <3>2. send'[c].at # "send"
      BY <1>2
    <3> QED BY <1>1, <1>2, <3>1, <3>2
  <2> QED BY <2>1 DEF RequestsAreCounted
<1>7. CallsAreCoherent'
  <2>1. ASSUME NEW c \in Calls PROVE CallIsSound(c)' /\ CallFollowsNotify(c)'
    <3>1. CallIsSound(c) /\ CallFollowsNotify(c) /\ <<c[1], c[2], "auto">> \in Calls
          /\ c[1] \in Events
      BY CallParts DEF IInv, CallsAreCoherent
    <3>2. CallIsSound(c)'
      BY <1>1, <1>2, <3>1 DEF CallIsSound
    <3>3. CallFollowsNotify(c)'
      BY <1>1, <1>2, <3>1 DEF CallFollowsNotify, Pooled
    <3> QED BY <3>2, <3>3
  <2>2. ASSUME NEW e \in Events PROVE ListIsSound(e)'
    BY <1>1 DEF ListIsSound
  <2> QED BY <2>1, <2>2 DEF CallsAreCoherent
<1>8. LogIsTruthful'
  <2>1. ASSUME NEW row \in log
        PROVE  send'[<<row[1][1], row[1][2], "auto">>].at = "over"
    <3>1. <<row[1][1], row[1][2], "auto">> \in Calls
      BY <1>0, CallParts DEF TypeOK
    <3> QED BY <1>2, <3>1 DEF IInv, LogIsTruthful
  <2> QED BY <1>1, <2>1 DEF IInv, LogIsTruthful
<1> QED BY <1>4, <1>5, <1>6, <1>7, <1>8 DEF IInv

LEMMA StepsKeep == IInv /\ [Next]_vars => IInv'
<1> SUFFICES ASSUME IInv, [Next]_vars PROVE IInv'
  OBVIOUS
<1>1. ASSUME NEW h \in Hooks, CreateHook(h) \/ UpdateHook(h) \/ DeleteHook(h) PROVE IInv'
  BY <1>1, HooksKeep
<1>2. ASSUME NEW e \in Events, Notify(e) \/ NotifyStep(e) PROVE IInv'
  BY <1>2, NotifyKeeps, DispatchKeeps DEF NotifyStep
<1>3. ASSUME NEW c \in Calls, SendStep(c) \/ AbortRetry(c) PROVE IInv'
  BY <1>3, SendKeepsSlots, SendKeepsTypes, SendKeepsCounts, SendKeepsCoherence, SendKeepsLog
     DEF IInv
<1>4. ASSUME NEW e \in Events, NEW h \in Hooks, RetryDelivery(e, h) PROVE IInv'
  BY <1>4, RetryKeeps
<1>5. CASE Crash
  BY <1>5, CrashKeeps
<1>6. CASE UNCHANGED vars
  <2>1. UNCHANGED <<hook, notify, todo, sem, send, received, accepted, log>>
    BY <1>6 DEF vars
  <2>2. TypeOK' /\ IsFiniteSet(Busy)' /\ SlotsAreCounted' /\ RequestsAreCounted'
    BY <2>1 DEF IInv, TypeOK, Busy, SlotsAreCounted, RequestsAreCounted
  <2>3. CallsAreCoherent' /\ LogIsTruthful'
    BY <2>1 DEF IInv, CallsAreCoherent, CallIsSound, CallFollowsNotify, ListIsSound,
                LogIsTruthful, Pooled
  <2> QED BY <2>2, <2>3 DEF IInv
<1> QED BY <1>1, <1>2, <1>3, <1>4, <1>5, <1>6 DEF Next

(* The invariant holds throughout every behaviour of Notify, Send and the  *)
(* retry handler.                                                          *)
THEOREM InductiveInvariant == Spec => []IInv
BY InitIsGood, StepsKeep, PTL DEF Spec

(* Every variable keeps its type; in particular the semaphore never holds  *)
(* more than PoolSize slots and no call makes more than MaxRetries         *)
(* attempts (webhook.go, NewNotifier and NewDispatcher).                   *)
THEOREM TypeCorrect == Spec => []TypeOK
<1>1. IInv => TypeOK
  BY DEF IInv
<1> QED BY <1>1, InductiveInvariant, PTL

(* The semaphore of Notify holds exactly one slot for each delivery of the *)
(* pool in flight: none is lost or given back twice.                       *)
THEOREM SlotsCounted == Spec => []SlotsAreCounted
<1>1. IInv => SlotsAreCounted
  BY DEF IInv
<1> QED BY <1>1, InductiveInvariant, PTL

(* No endpoint sees more requests of a call of Send than it has attempts.  *)
THEOREM RequestsCounted == Spec => []RequestsAreCounted
<1>1. IInv => RequestsAreCounted
  BY DEF IInv
<1> QED BY <1>1, InductiveInvariant, PTL

(* The calls of Send agree with the notifications and the webhooks they    *)
(* came from, and with the answers of the endpoints.                       *)
THEOREM CallsCoherent == Spec => []CallsAreCoherent
<1>1. IInv => CallsAreCoherent
  BY DEF IInv
<1> QED BY <1>1, InductiveInvariant, PTL

(* Both: the process loses no slot and overlaps no calls. *)
THEOREM PoolCoherent == Spec => []PoolIsCoherent
BY SlotsCounted, CallsCoherent, PTL DEF PoolIsCoherent

(* What webhook_deliveries holds is true: successes were answered with     *)
(* 2xx, and every row belongs to a webhook that exists.                    *)
THEOREM TruthfulLog == Spec => []LogIsTruthful
<1>1. IInv => LogIsTruthful
  BY DEF IInv
<1> QED BY <1>1, InductiveInvariant, PTL

(* Send makes no further request once its endpoint has answered with 2xx   *)
(* or 4xx.                                                                 *)
THEOREM NoRequestAfterAnswer == Spec => AnswersAreFinal
<1> DEFINE Final == \A c \in Calls :
                      send[c].answer \in {"ok", "rejected"} /\ received'[c] # received[c]
                        => send'[c] = Started
<1>1. IInv /\ [Next]_vars => [Final]_vars
  <2> SUFFICES ASSUME IInv, [Next]_vars, NEW c \in Calls,
                      send[c].answer \in {"ok", "rejected"}, received'[c] # received[c]
               PROVE  send'[c] = Started
    OBVIOUS
  <2>0. received \in [Calls -> 0 .. MaxRetries] /\ send \in [Calls -> CallType]
    BY DEF IInv, TypeOK, CallType
  <2>1. send[c].at # "send"
    BY DEF IInv, CallsAreCoherent, CallIsSound
  <2>2. ASSUME NEW h \in Hooks, CreateHook(h) \/ UpdateHook(h) \/ DeleteHook(h) PROVE FALSE
    BY <2>2 DEF CreateHook, UpdateHook, DeleteHook
  <2>3. ASSUME NEW e \in Events, Notify(e) \/ NotifyStep(e) PROVE FALSE
    BY <2>3 DEF Notify, NotifyStep, ListHooks, Dispatch
  <2>4. ASSUME NEW d \in Calls, SendStep(d) \/ AbortRetry(d) PROVE FALSE
    BY <2>0, <2>1, <2>4
       DEF SendStep, Answered, Unanswered, Backoff, Record, AbortRetry, Reach
  <2>5. ASSUME NEW e \in Events, NEW h \in Hooks, RetryDelivery(e, h)
        PROVE  send'[c] = Started
    <3> DEFINE d == <<e, h, "manual">>
    <3>1. /\ send' = [send EXCEPT ![d] = Started]
          /\ received' = [received EXCEPT ![d] = 0]
      BY <2>5 DEF RetryDelivery
    <3> HIDE DEF d
    <3>2. c = d
      BY <2>0, <3>1
    <3> QED BY <2>0, <3>1, <3>2
  <2>6. CASE Crash
    BY <2>6 DEF Crash
  <2>7. CASE UNCHANGED vars
    BY <2>7 DEF vars
  <2> QED BY <2>2, <2>3, <2>4, <2>5, <2>6, <2>7 DEF Next
<1> QED BY <1>1, InductiveInvariant, PTL DEF Spec, AnswersAreFinal

-----------------------------------------------------------------------------
(***************************************************************************)
(* The end of a call.                                                      *)
(***************************************************************************)
\* How many requests, waits and records a call has before it at most.
Left(call) ==
  IF call.at = "send" THEN 2 * (MaxRetries - call.attempt) + 2
  ELSE IF call.at = "backoff" THEN 2 * (MaxRetries - call.attempt) + 1
  ELSE IF call.at = "record" THEN 1 ELSE 0

RunsDown(c) ==
  send'[c] = send[c] \/ send[c].at \notin InFlight \/ Left(send'[c]) < Left(send[c])

LEMMA LeftIsPositive ==
  ASSUME IInv, NEW c \in Calls, send[c].at \in InFlight
  PROVE  Left(send[c]) \in Nat \ {0}
<1>1. send[c] \in CallType /\ MaxRetries \in Nat
  BY ConstantsAssumption DEF IInv, TypeOK, CallType
<1>2. send[c].attempt \in 0 .. MaxRetries
  BY <1>1 DEF CallType
<1>3. MaxRetries - send[c].attempt \in Nat
  BY <1>1, <1>2
<1> QED BY <1>3 DEF Left

LEMMA SendRunsDown ==
  ASSUME IInv, NEW c \in Calls, SendStep(c) \/ AbortRetry(c)
  PROVE  Left(send'[c]) < Left(send[c])
<1>0. /\ send \in [Calls -> CallType] /\ send[c] \in CallType /\ send'[c] \in CallType
      /\ MaxRetries \in Nat
  BY SendFrame, ConstantsAssumption DEF IInv, TypeOK, CallType
<1>1. /\ send[c].attempt \in Nat /\ send[c].attempt <= MaxRetries
      /\ send[c].at = "backoff" => send[c].attempt < MaxRetries
  <2>1. send[c].attempt \in 0 .. MaxRetries
    BY <1>0 DEF CallType
  <2>2. CallIsSound(c)
    BY DEF IInv, CallsAreCoherent
  <2> QED BY <1>0, <2>1, <2>2 DEF CallIsSound
<1>2. send[c].at \in InFlight
  BY SendFrame
<1>3. \/ send'[c].at \in {"record", "over"} /\ send[c].at \in {"send", "backoff"}
      \/ send'[c].at = "over" /\ send[c].at = "record"
      \/ send[c].at = "send" /\ send'[c].at = "backoff" /\ send'[c].attempt = send[c].attempt
      \/ send[c].at = "backoff" /\ send'[c].at = "send" /\ send'[c].attempt = send[c].attempt + 1
  <2> USE DEF CallType, Move
  <2>1. CASE Answered(c) BY <1>0, <2>1 DEF Answered
  <2>2. CASE Unanswered(c) BY <1>0, <2>2 DEF Unanswered
  <2>3. CASE Backoff(c) BY <1>0, <2>3 DEF Backoff
  <2>4. CASE Record(c) BY <1>0, <2>4 DEF Record
  <2>5. CASE AbortRetry(c) BY <1>0, <2>5 DEF AbortRetry
  <2> QED BY <2>1, <2>2, <2>3, <2>4, <2>5 DEF SendStep
<1> QED BY <1>0, <1>1, <1>3 DEF Left

LEMMA StepRunsDown ==
  ASSUME IInv, [Next]_vars, NEW c \in Calls
  PROVE  RunsDown(c)
<1>0. send \in [Calls -> CallType]
  BY DEF IInv, TypeOK, CallType
<1>1. ASSUME UNCHANGED send PROVE RunsDown(c)
  BY <1>1 DEF RunsDown
<1>2. ASSUME NEW h \in Hooks, CreateHook(h) \/ UpdateHook(h) \/ DeleteHook(h)
      PROVE  UNCHANGED send
  BY <1>2 DEF CreateHook, UpdateHook, DeleteHook
<1>3. ASSUME NEW e \in Events, Notify(e) \/ ListHooks(e) PROVE UNCHANGED send
  BY <1>3 DEF Notify, ListHooks
\* What is handed on is not in flight yet.
<1>4. ASSUME NEW e \in Events, NEW h \in Hooks, Dispatch(e, h) PROVE RunsDown(c)
  <2> DEFINE d == <<e, h, "auto">>
  <2>1. d \in Calls /\ d[1] = e /\ d[2] = h /\ Pooled(d)
    BY DEF Calls, Pooled
  <2>2. send[d].at = "none"
    BY <1>4, <2>1 DEF Dispatch, IInv, CallsAreCoherent, CallFollowsNotify
  <2>3. send' = [send EXCEPT ![d] = Started] \/ send' = [send EXCEPT ![d].at = "dropped"]
    BY <1>4 DEF Dispatch
  <2> HIDE DEF d
  <2>4. c # d => send'[c] = send[c]
    BY <1>0, <2>1, <2>3
  <2> QED BY <2>2, <2>4 DEF RunsDown, InFlight
<1>5. ASSUME NEW d \in Calls, SendStep(d) \/ AbortRetry(d) PROVE RunsDown(c)
  BY <1>5, SendFrame, SendRunsDown DEF RunsDown
<1>6. ASSUME NEW e \in Events, NEW h \in Hooks, RetryDelivery(e, h) PROVE RunsDown(c)
  <2> DEFINE d == <<e, h, "manual">>
  <2>1. d \in Calls
    BY DEF Calls
  <2>2. send[d].at \in {"none", "over"} /\ send' = [send EXCEPT ![d] = Started]
    BY <1>6 DEF RetryDelivery
  <2> HIDE DEF d
  <2>3. c # d => send'[c] = send[c]
    BY <1>0, <2>1, <2>2
  <2> QED BY <2>2, <2>3 DEF RunsDown, InFlight
<1>7. ASSUME Crash PROVE RunsDown(c)
  <2>1. send'[c] = IF send[c].at \in InFlight THEN [send[c] EXCEPT !.at = "over"] ELSE send[c]
    BY <1>7 DEF Crash
  <2>2. CASE send[c].at \in InFlight
    <3>1. send[c] \in CallType
      BY <1>0
    <3>2. send'[c].at = "over"
      BY <2>1, <2>2, <3>1 DEF CallType
    <3>3. Left(send'[c]) = 0
      BY <3>2 DEF Left
    <3> QED BY <2>2, <3>3, LeftIsPositive DEF RunsDown
  <2> QED BY <2>1, <2>2 DEF RunsDown
<1>8. CASE UNCHANGED vars
  BY <1>1, <1>8 DEF vars
<1> QED BY <1>1, <1>2, <1>3, <1>4, <1>5, <1>6, <1>7, <1>8 DEF Next, NotifyStep

(* A call of Send runs down: while it is in flight it changes only to have *)
(* fewer requests, waits and records before it, of which there are twice   *)
(* maxRetries at most; no notification or retry starts it over meanwhile.  *)
THEOREM CallsRunDown == Spec => [][\A c \in Calls : RunsDown(c)]_vars
<1>1. IInv /\ [Next]_vars => [\A c \in Calls : RunsDown(c)]_vars
  BY StepRunsDown
<1> QED BY <1>1, InductiveInvariant, PTL DEF Spec
=============================================================================
