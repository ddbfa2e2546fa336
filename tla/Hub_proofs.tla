----------------------------- MODULE Hub_proofs -----------------------------
(***************************************************************************)
(* Proofs about Hub, for any clients, sources and subscriptions, and any   *)
(* capacity of the buffers.                                                *)
(***************************************************************************)
EXTENDS Hub, SequenceTheorems, TLAPS

USE DEF clientVars, castVars, flowVars

(***************************************************************************)
(* The invariant, in parts.                                                *)
(***************************************************************************)

(* A broadcast in its loop holds the lock: nobody else closes channels,    *)
(* and whoever it has still to visit is a member.                          *)
LoopsAreLocked ==
  /\ \A b \in Sources : cast[b] = "loop" => ~Locked
  /\ \A b \in Sources : cast[b] # "loop" => todo[b] = {}
  /\ \A b \in Sources : todo[b] \subseteq members

(* A client is a member from register to unregister or Shutdown, and its   *)
(* channel is closed as it leaves.                                         *)
ClientIsSound(c) ==
  /\ c \in members =>
       handler[c] \in {"reading", "leave"} /\ closes[c] = 0 /\ writer[c] # "none"
  /\ handler[c] \in {"none", "join"} => closes[c] = 0 /\ writer[c] = "none"
  /\ c \notin members /\ handler[c] \in {"reading", "leave", "over"} =>
       closes[c] = 1 /\ writer[c] # "none"
  /\ writing[c] # <<>> => writer[c] = "up"

(* A broadcast on its way has a number.                                    *)
CastsAreNumbered == \A b \in Sources : cast[b] # "idle" => sent[b] >= 1

(***************************************************************************)
(* Types.                                                                  *)
(***************************************************************************)

(* The types of the clients' variables, of the messages', and of the rest. *)
ClientTypes ==
  /\ handler \in [Clients -> {"none", "join", "reading", "leave", "over"}]
  /\ conn \in [Clients -> {"none", "open", "closed"}]
  /\ members \subseteq Clients
  /\ closes \in [Clients -> Nat]
  /\ writer \in [Clients -> {"none", "up", "over"}]

QueueTypes ==
  /\ queue \in [Clients -> Seq(Messages)]
  /\ \A c \in Clients : Len(queue[c]) <= Buffer

FlowTypes ==
  /\ writing \in [Clients -> {<<>>} \cup {<<m>> : m \in Messages}]
  /\ seen \in [Clients -> [Sources -> 0 .. MaxCount]]

CastTypes ==
  /\ cast \in [Sources -> {"idle", "lock", "loop"}]
  /\ todo \in [Sources -> SUBSET Clients]
  /\ sent \in [Sources -> 0 .. MaxCount]
  /\ shutdown \in {"idle", "lock", "loop", "over"}

LEMMA TypesInParts == TypeOK <=> ClientTypes /\ QueueTypes /\ FlowTypes /\ CastTypes
BY DEF TypeOK, ClientTypes, QueueTypes, FlowTypes, CastTypes

(* Every step keeps the types of the clients' variables.                   *)
LEMMA ClientTypesKept ==
  ASSUME ClientTypes, [Next]_vars PROVE ClientTypes'
<1> USE DEF ClientTypes
<1>1. ASSUME NEW c \in Clients, HandleConnect(c) \/ ConnFails(c) \/ ReadFails(c)
      PROVE  ClientTypes'
  BY <1>1 DEF HandleConnect, ConnFails, ReadFails
<1>2. ASSUME NEW c \in Clients, Register(c) PROVE ClientTypes'
  BY <1>2 DEF Register
<1>3. ASSUME NEW c \in Clients, Forget(c)
      PROVE  members' \subseteq Clients /\ closes' \in [Clients -> Nat]
  BY <1>3 DEF Forget
<1>4. ASSUME NEW c \in Clients, Unregister(c) PROVE ClientTypes'
  BY <1>3, <1>4 DEF Unregister
<1>5. ASSUME NEW c \in Clients, ShutdownClose(c) PROVE ClientTypes'
  BY <1>3, <1>5 DEF ShutdownClose
<1>6. ASSUME NEW c \in Clients, WriteFails(c) \/ WriterEnds(c) PROVE ClientTypes'
  BY <1>6 DEF WriteFails, WriterEnds
<1>7. ASSUME NEW c \in Clients, Receive(c) \/ Written(c) PROVE ClientTypes'
  BY <1>7 DEF Receive, Written
<1>8. ASSUME NEW b \in Sources, Broadcast(b) \/ CastStep(b) PROVE ClientTypes'
  BY <1>8 DEF Broadcast, CastStep, RLock, RUnlock, SendTo
<1>9. ASSUME Shutdown \/ ShutdownLock \/ ShutdownUnlock PROVE ClientTypes'
  BY <1>9 DEF Shutdown, ShutdownLock, ShutdownUnlock
<1>10. CASE UNCHANGED vars
  BY <1>10 DEF vars
<1> QED BY <1>1, <1>2, <1>4, <1>5, <1>6, <1>7, <1>8, <1>9, <1>10
        DEF Next, HandlerStep, WriterStep, ShutdownStep

(* Every step keeps the types of the broadcasts' variables and Shutdown's. *)
LEMMA CastTypesKept ==
  ASSUME ClientTypes, CastTypes, [Next]_vars PROVE CastTypes'
<1> USE ConstantsAssumption DEF CastTypes
<1>1. ASSUME NEW b \in Sources, Broadcast(b) PROVE CastTypes'
  BY <1>1 DEF Broadcast
<1>2. ASSUME NEW b \in Sources, RLock(b) \/ RUnlock(b) PROVE CastTypes'
  BY <1>2 DEF RLock, RUnlock, ClientTypes
<1>3. ASSUME NEW b \in Sources, NEW c \in Clients, SendTo(b, c) PROVE CastTypes'
  BY <1>3 DEF SendTo
<1>4. ASSUME Shutdown \/ ShutdownLock \/ ShutdownUnlock PROVE CastTypes'
  BY <1>4 DEF Shutdown, ShutdownLock, ShutdownUnlock
<1>5. ASSUME NEW c \in Clients, HandlerStep(c) \/ WriterStep(c) \/ Written(c) PROVE CastTypes'
  BY <1>5 DEF HandlerStep, WriterStep, Written, Register, ReadFails, Unregister, Receive,
              WriteFails, WriterEnds
<1>6. ASSUME NEW c \in Clients, HandleConnect(c) \/ ConnFails(c) \/ ShutdownClose(c)
      PROVE  CastTypes'
  BY <1>6 DEF HandleConnect, ConnFails, ShutdownClose
<1>7. CASE UNCHANGED vars
  BY <1>7 DEF vars
<1> QED BY <1>1, <1>2, <1>3, <1>4, <1>5, <1>6, <1>7 DEF Next, CastStep, ShutdownStep

(* A broadcast takes a number before it takes the lock.                    *)
LEMMA CastsNumberedKept ==
  ASSUME CastTypes, CastsAreNumbered, [Next]_vars PROVE CastsAreNumbered'
<1> USE ConstantsAssumption DEF CastTypes, CastsAreNumbered
<1>1. ASSUME NEW b \in Sources, Broadcast(b) PROVE CastsAreNumbered'
  BY <1>1 DEF Broadcast
<1>2. ASSUME NEW b \in Sources, RLock(b) \/ RUnlock(b) PROVE CastsAreNumbered'
  BY <1>2 DEF RLock, RUnlock
<1>3. ASSUME UNCHANGED <<cast, sent>> PROVE CastsAreNumbered'
  BY <1>3
<1>4. ASSUME NEW b \in Sources, NEW c \in Clients, SendTo(b, c) PROVE CastsAreNumbered'
  BY <1>4, <1>3 DEF SendTo
<1>5. ASSUME Shutdown \/ ShutdownLock \/ ShutdownUnlock PROVE CastsAreNumbered'
  BY <1>5, <1>3 DEF Shutdown, ShutdownLock, ShutdownUnlock
<1>6. ASSUME NEW c \in Clients, HandlerStep(c) \/ WriterStep(c) \/ Written(c)
      PROVE  CastsAreNumbered'
  BY <1>6, <1>3 DEF HandlerStep, WriterStep, Written, Register, ReadFails, Unregister, Receive,
                    WriteFails, WriterEnds
<1>7. ASSUME NEW c \in Clients, HandleConnect(c) \/ ConnFails(c) \/ ShutdownClose(c)
      PROVE  CastsAreNumbered'
  BY <1>7, <1>3 DEF HandleConnect, ConnFails, ShutdownClose
<1>8. CASE UNCHANGED vars
  BY <1>8, <1>3 DEF vars
<1> QED BY <1>1, <1>2, <1>4, <1>5, <1>6, <1>7, <1>8 DEF Next, CastStep, ShutdownStep

(* Whoever writes takes messages of the queue; whoever sends adds one that *)
(* fits.                                                                   *)
LEMMA FlowTypesKept ==
  ASSUME QueueTypes, FlowTypes, CastTypes, CastsAreNumbered, [Next]_vars
  PROVE  QueueTypes' /\ FlowTypes'
<1> USE ConstantsAssumption
<1>1. ASSUME NEW c \in Clients, Receive(c) PROVE QueueTypes' /\ FlowTypes'
  <2>1. queue[c] \in Seq(Messages) /\ queue[c] # <<>>
    BY <1>1 DEF Receive, QueueTypes
  <2>2. /\ Head(queue[c]) \in Messages /\ Tail(queue[c]) \in Seq(Messages)
        /\ Len(Tail(queue[c])) = Len(queue[c]) - 1 /\ Len(queue[c]) \in Nat
    BY <2>1, HeadTailProperties, LenProperties
  <2>3. queue' = [queue EXCEPT ![c] = Tail(queue[c])]
    BY <1>1 DEF Receive
  <2>4. QueueTypes'
    BY <2>2, <2>3 DEF QueueTypes
  <2>5. FlowTypes'
    BY <1>1, <2>2 DEF Receive, FlowTypes
  <2> QED BY <2>4, <2>5
<1>2. ASSUME NEW c \in Clients, Written(c) PROVE QueueTypes' /\ FlowTypes'
  <2>1. PICK m \in Messages : writing[c] = <<m>>
    BY <1>2 DEF Written, FlowTypes
  <2>2. Head(writing[c]) = m /\ m[1] \in Sources /\ m[2] \in 0 .. MaxCount
    BY <2>1 DEF Messages
  <2>3. seen' = [seen EXCEPT ![c] = [seen[c] EXCEPT ![m[1]] = m[2]]]
    BY <1>2, <2>2 DEF Written
  <2>4. seen' \in [Clients -> [Sources -> 0 .. MaxCount]]
    BY <2>2, <2>3 DEF FlowTypes
  <2> QED BY <1>2, <2>4 DEF Written, FlowTypes, QueueTypes
<1>3. ASSUME NEW b \in Sources, NEW c \in Clients, SendTo(b, c)
      PROVE  QueueTypes' /\ FlowTypes'
  <2>1. FlowTypes'
    BY <1>3 DEF SendTo, FlowTypes
  <2>2. CASE queue' = queue
    BY <2>1, <2>2 DEF QueueTypes
  <2>3. CASE Len(queue[c]) < Buffer /\ queue' = [queue EXCEPT ![c] = Append(@, <<b, sent[b]>>)]
    <3>1. <<b, sent[b]>> \in Messages
      BY <1>3 DEF SendTo, CastTypes, CastsAreNumbered, Messages
    <3>2. Append(queue[c], <<b, sent[b]>>) \in Seq(Messages)
      BY <3>1, AppendProperties DEF QueueTypes
    <3>3. Len(Append(queue[c], <<b, sent[b]>>)) = Len(queue[c]) + 1 /\ Len(queue[c]) \in Nat
      BY <3>1, AppendProperties, LenProperties DEF QueueTypes
    <3>4. QueueTypes'
      BY <2>3, <3>2, <3>3 DEF QueueTypes
    <3> QED BY <2>1, <3>4
  <2> QED BY <1>3, <2>2, <2>3 DEF SendTo
<1>4. ASSUME NEW c \in Clients, WriteFails(c) \/ WriterEnds(c)
      PROVE  QueueTypes' /\ FlowTypes'
  BY <1>4 DEF WriteFails, WriterEnds, QueueTypes, FlowTypes
<1>5. ASSUME UNCHANGED flowVars PROVE QueueTypes' /\ FlowTypes'
  BY <1>5 DEF QueueTypes, FlowTypes
<1>6. ASSUME NEW c \in Clients,
             HandleConnect(c) \/ ConnFails(c) \/ HandlerStep(c) \/ ShutdownClose(c)
      PROVE  UNCHANGED flowVars
  BY <1>6 DEF HandleConnect, ConnFails, HandlerStep, Register, ReadFails, Unregister, ShutdownClose
<1>7. ASSUME NEW b \in Sources, Broadcast(b) \/ RLock(b) \/ RUnlock(b)
      PROVE  UNCHANGED flowVars
  BY <1>7 DEF Broadcast, RLock, RUnlock
<1>8. Shutdown \/ ShutdownLock \/ ShutdownUnlock \/ UNCHANGED vars => UNCHANGED flowVars
  BY DEF Shutdown, ShutdownLock, ShutdownUnlock, vars
<1> QED BY <1>1, <1>2, <1>3, <1>4, <1>5, <1>6, <1>7, <1>8
        DEF Next, WriterStep, CastStep, ShutdownStep

(***************************************************************************)
(* The lock.                                                               *)
(***************************************************************************)

(* Members leave only while no broadcast is in its loop.                   *)
LEMMA LoopsKept ==
  ASSUME TypeOK, LoopsAreLocked, [Next]_vars PROVE LoopsAreLocked'
<1> USE DEF TypeOK, LoopsAreLocked, Locked
<1>1. ASSUME UNCHANGED <<members, cast, todo, shutdown>> PROVE LoopsAreLocked'
  BY <1>1
<1>2. ASSUME NEW c \in Clients, Register(c) PROVE LoopsAreLocked'
  BY <1>2 DEF Register
<1>3. MayWrite => ~Locked /\ \A b \in Sources : cast[b] # "loop" /\ todo[b] = {}
  BY DEF MayWrite
<1>4. ASSUME NEW c \in Clients, Unregister(c) PROVE LoopsAreLocked'
  BY <1>3, <1>4 DEF Unregister, Forget
<1>5. ASSUME NEW b \in Sources, Broadcast(b) PROVE LoopsAreLocked'
  BY <1>5 DEF Broadcast
<1>6. ASSUME NEW b \in Sources, RLock(b) PROVE LoopsAreLocked'
  BY <1>6 DEF RLock, MayRead
<1>7. ASSUME NEW b \in Sources, NEW c \in Clients, SendTo(b, c) PROVE LoopsAreLocked'
  BY <1>7 DEF SendTo
<1>8. ASSUME NEW b \in Sources, RUnlock(b) PROVE LoopsAreLocked'
  BY <1>8 DEF RUnlock
<1>9. ASSUME ShutdownLock PROVE LoopsAreLocked'
  BY <1>3, <1>9 DEF ShutdownLock
<1>10. ASSUME NEW c \in Clients, ShutdownClose(c) PROVE LoopsAreLocked'
  BY <1>10 DEF ShutdownClose, Forget
<1>11. ASSUME Shutdown \/ ShutdownUnlock PROVE LoopsAreLocked'
  BY <1>11 DEF Shutdown, ShutdownUnlock
<1>12. ASSUME NEW c \in Clients,
              HandleConnect(c) \/ ConnFails(c) \/ ReadFails(c) \/ WriterStep(c) \/ Written(c)
       PROVE  LoopsAreLocked'
  BY <1>1, <1>12 DEF HandleConnect, ConnFails, ReadFails, WriterStep, Written, Receive,
                     WriteFails, WriterEnds
<1>13. CASE UNCHANGED vars
  BY <1>1, <1>13 DEF vars
<1> QED BY <1>2, <1>4, <1>5, <1>6, <1>7, <1>8, <1>9, <1>10, <1>11, <1>12, <1>13
        DEF Next, HandlerStep, CastStep, ShutdownStep

(* A channel is closed by whoever takes the client from the members.       *)
LEMMA ClientKept ==
  ASSUME TypeOK, [Next]_vars, NEW c \in Clients, ClientIsSound(c) PROVE ClientIsSound(c)'
<1> USE DEF TypeOK, ClientIsSound
<1>1. ASSUME members' = members, handler'[c] = handler[c], closes'[c] = closes[c],
             writer'[c] = writer[c], writing'[c] = writing[c]
      PROVE  ClientIsSound(c)'
  BY <1>1
<1>2. ASSUME NEW d \in Clients, HandleConnect(d) PROVE ClientIsSound(c)'
  BY <1>2 DEF HandleConnect
<1>3. ASSUME NEW d \in Clients, Register(d) PROVE ClientIsSound(c)'
  BY <1>3 DEF Register
<1>4. ASSUME NEW d \in Clients, ReadFails(d) PROVE ClientIsSound(c)'
  BY <1>4 DEF ReadFails
<1>5. ASSUME NEW d \in Clients, Unregister(d) PROVE ClientIsSound(c)'
  BY <1>5 DEF Unregister, Forget
<1>6. ASSUME NEW d \in Clients, WriteFails(d) \/ WriterEnds(d) PROVE ClientIsSound(c)'
  BY <1>6 DEF WriteFails, WriterEnds
<1>7. ASSUME NEW d \in Clients, ShutdownClose(d) PROVE ClientIsSound(c)'
  BY <1>7 DEF ShutdownClose, Forget
<1>8. ASSUME NEW d \in Clients, ConnFails(d) PROVE ClientIsSound(c)'
  BY <1>1, <1>8 DEF ConnFails
<1>12. ASSUME NEW d \in Clients, Receive(d) \/ Written(d) PROVE ClientIsSound(c)'
  BY <1>12 DEF Receive, Written
<1>9. ASSUME NEW b \in Sources, Broadcast(b) \/ CastStep(b) PROVE ClientIsSound(c)'
  BY <1>1, <1>9 DEF Broadcast, CastStep, RLock, RUnlock, SendTo
<1>10. ASSUME Shutdown \/ ShutdownLock \/ ShutdownUnlock PROVE ClientIsSound(c)'
  BY <1>1, <1>10 DEF Shutdown, ShutdownLock, ShutdownUnlock
<1>11. CASE UNCHANGED vars
  BY <1>1, <1>11 DEF vars
<1> QED BY <1>2, <1>3, <1>4, <1>5, <1>6, <1>7, <1>8, <1>9, <1>10, <1>11, <1>12
        DEF Next, HandlerStep, WriterStep, ShutdownStep

(***************************************************************************)
(* The theorems of the lock.                                               *)
(***************************************************************************)
IInv ==
  /\ TypeOK
  /\ CastsAreNumbered
  /\ LoopsAreLocked
  /\ \A c \in Clients : ClientIsSound(c)

(* The invariant the first three properties rest on.                       *)
THEOREM InductiveInvariant == Spec => []IInv
<1>1. Init => IInv
  <2> SUFFICES ASSUME Init PROVE IInv
    OBVIOUS
  <2>1. ClientTypes /\ FlowTypes /\ CastTypes
    BY ConstantsAssumption DEF Init, ClientTypes, FlowTypes, CastTypes
  <2>2. QueueTypes
    BY ConstantsAssumption, EmptySeq DEF Init, QueueTypes
  <2>3. CastsAreNumbered /\ LoopsAreLocked /\ \A c \in Clients : ClientIsSound(c)
    BY DEF Init, CastsAreNumbered, LoopsAreLocked, ClientIsSound, Locked
  <2> QED BY <2>1, <2>2, <2>3, TypesInParts DEF IInv
<1>2. IInv /\ [Next]_vars => IInv'
  <2> SUFFICES ASSUME IInv, [Next]_vars PROVE IInv'
    OBVIOUS
  <2>1. TypeOK /\ ClientTypes /\ QueueTypes /\ FlowTypes /\ CastTypes /\ CastsAreNumbered
    BY TypesInParts DEF IInv
  <2>2. ClientTypes' /\ CastTypes' /\ CastsAreNumbered' /\ QueueTypes' /\ FlowTypes'
    BY <2>1, ClientTypesKept, CastTypesKept, CastsNumberedKept, FlowTypesKept
  <2>3. TypeOK'
    BY <2>2 DEF TypeOK, ClientTypes, QueueTypes, FlowTypes, CastTypes
  <2>4. LoopsAreLocked' /\ \A c \in Clients : ClientIsSound(c)'
    BY <2>1, LoopsKept, ClientKept DEF IInv
  <2> QED BY <2>2, <2>3, <2>4 DEF IInv
<1> QED BY <1>1, <1>2, PTL DEF Spec

(* Every variable keeps its type; no buffer outgrows its capacity.         *)
THEOREM TypeCorrect == Spec => []TypeOK
<1>1. IInv => TypeOK
  BY DEF IInv
<1> QED BY <1>1, InductiveInvariant, PTL

(* No broadcast sends on a closed channel.                                 *)
THEOREM NoSendOnClosed == Spec => []SendsAreSafe
<1>1. IInv => SendsAreSafe
  BY DEF IInv, TypeOK, LoopsAreLocked, ClientIsSound, SendsAreSafe
<1> QED BY <1>1, InductiveInvariant, PTL

(* The channel of a client that has left was closed, and only once.        *)
THEOREM ClosedOnce == Spec => []ChannelsClosedOnce
<1>1. ASSUME IInv PROVE ChannelsClosedOnce
  <2> SUFFICES ASSUME NEW c \in Clients
               PROVE  /\ closes[c] <= 1
                      /\ handler[c] = "over" => closes[c] = 1 /\ c \notin members
                      /\ closes[c] = 1 <=> c \notin members /\ writer[c] # "none"
    BY DEF ChannelsClosedOnce
  <2>1. ClientIsSound(c) /\ handler[c] \in {"none", "join", "reading", "leave", "over"}
    BY <1>1 DEF IInv, TypeOK
  <2>2. CASE c \in members
    BY <2>1, <2>2 DEF ClientIsSound
  <2>3. CASE c \notin members
    BY <2>1, <2>3 DEF ClientIsSound
  <2> QED BY <2>2, <2>3
<1> QED BY <1>1, InductiveInvariant, PTL

(* No goroutine of the hub ends the server with a panic.                   *)
THEOREM NoPanics == Spec => []NoPanic
<1>1. SendsAreSafe /\ ChannelsClosedOnce => NoPanic
  BY DEF NoPanic
<1> QED BY <1>1, NoSendOnClosed, ClosedOnce, PTL

(***************************************************************************)
(* Order.                                                                  *)
(***************************************************************************)

(* No message is newer than the latest of its source.                      *)
Numbered(messages, last) ==
  \A i \in DOMAIN messages : messages[i][2] <= last[messages[i][1]]

(* What pends for a client is in order, no older than what it has seen and *)
(* no newer than the latest.                                               *)
InOrder(c) ==
  /\ Ordered(Pending(c), seen[c])
  /\ Numbered(Pending(c), sent)
  /\ \A b \in Sources : seen[c][b] <= sent[b]

(* Order survives the first message, whether it arrives or is lost.        *)
LEMMA OrderedAfterHead ==
  ASSUME NEW s \in Seq(Messages), s # <<>>, NEW last \in [Sources -> Nat], Ordered(s, last)
  PROVE  /\ Ordered(Tail(s), last)
         /\ Ordered(Tail(s), [last EXCEPT ![Head(s)[1]] = Head(s)[2]])
<1>1. /\ Tail(s) \in Seq(Messages) /\ Len(s) \in Nat /\ Len(s) >= 1 /\ Len(Tail(s)) = Len(s) - 1
      /\ \A i \in 1 .. Len(Tail(s)) : Tail(s)[i] = s[i + 1]
      /\ Head(s) = s[1]
      /\ DOMAIN s = 1 .. Len(s) /\ DOMAIN Tail(s) = 1 .. Len(Tail(s))
  BY HeadTailProperties, LenProperties, EmptySeq
<1>2. \A i \in DOMAIN Tail(s) : i + 1 \in DOMAIN s /\ Tail(s)[i] = s[i + 1]
  BY <1>1
<1>3. \A i, j \in DOMAIN Tail(s) :
        i < j /\ Tail(s)[i][1] = Tail(s)[j][1] => Tail(s)[i][2] <= Tail(s)[j][2]
  <2> SUFFICES ASSUME NEW i \in DOMAIN Tail(s), NEW j \in DOMAIN Tail(s), i < j,
                      Tail(s)[i][1] = Tail(s)[j][1]
               PROVE  Tail(s)[i][2] <= Tail(s)[j][2]
    OBVIOUS
  <2>1. i + 1 \in DOMAIN s /\ j + 1 \in DOMAIN s /\ i + 1 < j + 1
    BY <1>1, <1>2
  <2> QED BY <1>2, <2>1 DEF Ordered
<1>4. \A i \in DOMAIN Tail(s) : last[Tail(s)[i][1]] <= Tail(s)[i][2]
  BY <1>2 DEF Ordered
<1>5. ASSUME NEW i \in DOMAIN Tail(s)
      PROVE  [last EXCEPT ![Head(s)[1]] = Head(s)[2]][Tail(s)[i][1]] <= Tail(s)[i][2]
  <2>1. Tail(s)[i] \in Messages /\ Tail(s)[i][1] \in Sources
    BY <1>1, <1>2 DEF Messages
  <2>2. CASE Tail(s)[i][1] = Head(s)[1]
    <3>1. s[1][1] = s[i + 1][1] /\ 1 \in DOMAIN s /\ i + 1 \in DOMAIN s /\ 1 < i + 1
      BY <1>1, <1>2, <2>2
    <3>2. Head(s)[2] <= Tail(s)[i][2]
      BY <1>1, <1>2, <3>1 DEF Ordered
    <3> QED BY <2>1, <2>2, <3>2
  <2>3. CASE Tail(s)[i][1] # Head(s)[1]
    BY <1>4, <2>1, <2>3
  <2> QED BY <2>2, <2>3
<1> QED BY <1>3, <1>4, <1>5 DEF Ordered

(* It survives a message no older than those of its source before it.      *)
LEMMA OrderedWithAppended ==
  ASSUME NEW s \in Seq(Messages), NEW m \in Messages, NEW last \in [Sources -> Nat],
         Ordered(s, last), last[m[1]] <= m[2],
         \A i \in DOMAIN s : s[i][1] = m[1] => s[i][2] <= m[2]
  PROVE  Ordered(Append(s, m), last)
<1>1. /\ Len(s) \in Nat
      /\ DOMAIN s = 1 .. Len(s) /\ DOMAIN Append(s, m) = 1 .. Len(s) + 1
      /\ \A i \in DOMAIN s : Append(s, m)[i] = s[i]
      /\ Append(s, m)[Len(s) + 1] = m
  BY AppendProperties, LenProperties
<1>2. ASSUME NEW i \in DOMAIN Append(s, m), NEW j \in DOMAIN Append(s, m), i < j,
             Append(s, m)[i][1] = Append(s, m)[j][1]
      PROVE  Append(s, m)[i][2] <= Append(s, m)[j][2]
  <2>1. i \in DOMAIN s
    BY <1>1, <1>2
  <2>2. CASE j \in DOMAIN s
    BY <1>1, <1>2, <2>1, <2>2 DEF Ordered
  <2>3. CASE j = Len(s) + 1
    BY <1>1, <1>2, <2>1, <2>3
  <2> QED BY <1>1, <2>2, <2>3
<1>3. \A i \in DOMAIN Append(s, m) : last[Append(s, m)[i][1]] <= Append(s, m)[i][2]
  <2> SUFFICES ASSUME NEW i \in DOMAIN Append(s, m)
               PROVE  last[Append(s, m)[i][1]] <= Append(s, m)[i][2]
    OBVIOUS
  <2>1. CASE i \in DOMAIN s
    BY <1>1, <2>1 DEF Ordered
  <2>2. CASE i = Len(s) + 1
    BY <1>1, <2>2
  <2> QED BY <1>1, <2>1, <2>2
<1> QED BY <1>2, <1>3 DEF Ordered

(* What pends once the writer has taken a message, and once it is done.    *)
LEMMA PendingIs ==
  ASSUME NEW q \in Seq(Messages), NEW m \in Messages
  PROVE  /\ <<>> \o q = q
         /\ q # <<>> => <<Head(q)>> \o Tail(q) = q
         /\ Head(<<m>> \o q) = m /\ Tail(<<m>> \o q) = q
         /\ <<m>> \o q # <<>> /\ <<m>> \o q \in Seq(Messages)
<1>1. <<>> \o q = q
  BY ConcatProperties, EmptySeq, LenProperties, SeqEqual
<1>2. q # <<>> => <<Head(q)>> \o Tail(q) = q
  BY HeadTailProperties, LenProperties, SeqEqual, EmptySeq
<1>3. <<m>> \o q \in Seq(Messages) /\ Len(<<m>> \o q) = Len(q) + 1 /\ Len(q) \in Nat /\ (<<m>> \o q)[1] = m
       /\ \A i \in 1 .. Len(q) : (<<m>> \o q)[i + 1] = q[i]
  BY LenProperties
<1>4. Head(<<m>> \o q) = m /\ <<m>> \o q # <<>>
  BY <1>3, HeadTailProperties, EmptySeq
<1>5. Tail(<<m>> \o q) = q
  BY <1>3, <1>4, HeadTailProperties, SeqEqual, LenProperties
<1> QED BY <1>1, <1>2, <1>3, <1>4, <1>5

(* What pends once a message is sent.                                      *)
LEMMA PendingWith ==
  ASSUME NEW q \in Seq(Messages), NEW m \in Messages, NEW w \in Seq(Messages)
  PROVE  w \o Append(q, m) = Append(w \o q, m) /\ w \o q \in Seq(Messages)
<1>1. <<m>> \in Seq(Messages) /\ w \o q \in Seq(Messages)
  BY ConcatProperties
<1>2. Append(q, m) = q \o <<m>> /\ Append(w \o q, m) = (w \o q) \o <<m>>
  BY <1>1, AppendIsConcat
<1>3. (w \o q) \o <<m>> = w \o (q \o <<m>>)
  BY <1>1, ConcatAssociative
<1> QED BY <1>1, <1>2, <1>3

(* The writer is idle, or holds one message.                               *)
LEMMA PendingType ==
  ASSUME TypeOK, NEW c \in Clients
  PROVE  /\ queue[c] \in Seq(Messages) /\ writing[c] \in Seq(Messages)
         /\ Pending(c) \in Seq(Messages)
         /\ writing[c] # <<>> => \E m \in Messages : writing[c] = <<m>>
         /\ seen[c] \in [Sources -> Nat] /\ sent \in [Sources -> Nat]
<1>1. queue[c] \in Seq(Messages) /\ writing[c] \in {<<>>} \cup {<<m>> : m \in Messages}
  BY DEF TypeOK
<1>2. writing[c] \in Seq(Messages)
  <2>1. \A m \in Messages : <<m>> \in Seq(Messages)
    OBVIOUS
  <2> QED BY <1>1, <2>1, EmptySeq
<1>3. seen[c] \in [Sources -> Nat] /\ sent \in [Sources -> Nat]
  BY ConstantsAssumption DEF TypeOK
<1> QED BY <1>1, <1>2, <1>3, ConcatProperties DEF Pending

(* A message leaves the front of what pends for c: it has arrived, or was  *)
(* lost with the connection.                                               *)
LEMMA FrontLeaves ==
  ASSUME TypeOK, NEW c \in Clients, InOrder(c), writing[c] # <<>>, writing'[c] = <<>>,
         queue' = queue, sent' = sent,
         \/ seen' = seen
         \/ seen'[c] = [seen[c] EXCEPT ![Head(writing[c])[1]] = Head(writing[c])[2]]
  PROVE  InOrder(c)'
<1>1. PICK m \in Messages : writing[c] = <<m>>
  BY PendingType
<1>2. queue[c] \in Seq(Messages) /\ seen[c] \in [Sources -> Nat] /\ sent \in [Sources -> Nat]
  BY PendingType
<1>3. /\ Pending(c) \in Seq(Messages) /\ Pending(c) # <<>>
      /\ Head(Pending(c)) = m /\ Tail(Pending(c)) = Pending(c)'
      /\ Head(writing[c]) = m
  BY <1>1, <1>2, PendingIs DEF Pending
<1>4. Ordered(Pending(c)', seen[c]) /\ Ordered(Pending(c)', [seen[c] EXCEPT ![m[1]] = m[2]])
  BY <1>2, <1>3, OrderedAfterHead DEF InOrder
<1>5. /\ Len(Pending(c)) \in Nat /\ Len(Pending(c)) >= 1 /\ m = Pending(c)[1]
      /\ DOMAIN Pending(c) = 1 .. Len(Pending(c))
      /\ DOMAIN Pending(c)' = 1 .. (Len(Pending(c)) - 1)
      /\ \A i \in DOMAIN Pending(c)' : Pending(c)'[i] = Pending(c)[i + 1]
  BY <1>3, HeadTailProperties, LenProperties, EmptySeq
<1>6. Numbered(Pending(c)', sent)
  BY <1>5 DEF InOrder, Numbered
<1>7. m[1] \in Sources /\ m[2] <= sent[m[1]]
  BY <1>5 DEF InOrder, Numbered, Messages
<1>8. \A b \in Sources : [seen[c] EXCEPT ![m[1]] = m[2]][b] <= sent[b]
  BY <1>2, <1>7 DEF InOrder
<1>9. CASE seen' = seen
  BY <1>4, <1>6, <1>9 DEF InOrder
<1>10. CASE seen'[c] = [seen[c] EXCEPT ![m[1]] = m[2]]
  BY <1>4, <1>6, <1>8, <1>10 DEF InOrder
<1> QED BY <1>3, <1>9, <1>10

(* A message is sent to c.                                                 *)
LEMMA BackJoins ==
  ASSUME TypeOK, CastsAreNumbered, NEW c \in Clients, InOrder(c), NEW b \in Sources,
         cast[b] # "idle", queue'[c] = Append(queue[c], <<b, sent[b]>>),
         writing' = writing, seen' = seen, sent' = sent
  PROVE  InOrder(c)'
<1> DEFINE m == <<b, sent[b]>>
<1>1. m \in Messages
  BY ConstantsAssumption DEF TypeOK, CastsAreNumbered, Messages
<1>2. /\ Pending(c) \in Seq(Messages)
      /\ seen[c] \in [Sources -> Nat] /\ sent \in [Sources -> Nat]
  BY PendingType
<1>3. Pending(c)' = Append(Pending(c), m)
  <2>1. queue[c] \in Seq(Messages) /\ writing[c] \in Seq(Messages)
    BY PendingType
  <2>2. writing[c] \o Append(queue[c], m) = Append(writing[c] \o queue[c], m)
    BY <1>1, <2>1, PendingWith
  <2> QED BY <2>2 DEF Pending
<1>4. \A i \in DOMAIN Pending(c) : Pending(c)[i][1] = m[1] => Pending(c)[i][2] <= m[2]
  BY DEF InOrder, Numbered
<1>5. seen[c][m[1]] <= m[2]
  BY DEF InOrder
<1>6. Ordered(Pending(c)', seen[c])
  BY <1>1, <1>2, <1>3, <1>4, <1>5, OrderedWithAppended DEF InOrder
<1>7. /\ Len(Pending(c)) \in Nat
      /\ DOMAIN Pending(c) = 1 .. Len(Pending(c))
      /\ DOMAIN Pending(c)' = 1 .. Len(Pending(c)) + 1
      /\ \A i \in DOMAIN Pending(c) : Pending(c)'[i] = Pending(c)[i]
      /\ Pending(c)'[Len(Pending(c)) + 1] = m
  BY <1>1, <1>2, <1>3, AppendProperties, LenProperties
<1>8. Numbered(Pending(c)', sent)
  <2> SUFFICES ASSUME NEW i \in DOMAIN Pending(c)'
               PROVE  Pending(c)'[i][2] <= sent[Pending(c)'[i][1]]
    BY DEF Numbered
  <2>1. CASE i \in DOMAIN Pending(c)
    BY <1>7, <2>1 DEF InOrder, Numbered
  <2>2. CASE i = Len(Pending(c)) + 1
    BY <1>2, <1>7, <2>2
  <2> QED BY <1>7, <2>1, <2>2
<1> QED BY <1>6, <1>8 DEF InOrder

(* Every step keeps what pends in order.                                   *)
LEMMA OrderKept ==
  ASSUME IInv, [Next]_vars, NEW c \in Clients, InOrder(c) PROVE InOrder(c)'
<1>1. TypeOK /\ CastsAreNumbered
  BY DEF IInv
<1>2. ASSUME Pending(c)' = Pending(c), seen'[c] = seen[c], sent' = sent PROVE InOrder(c)'
  BY <1>2 DEF InOrder
<1>3. ASSUME UNCHANGED <<queue, writing, seen, sent>> PROVE InOrder(c)'
  BY <1>2, <1>3 DEF Pending
<1>4. ASSUME NEW d \in Clients, Receive(d) PROVE InOrder(c)'
  <2>1. CASE d = c
    <3>1. queue[c] \in Seq(Messages) /\ queue[c] # <<>> /\ writing[c] = <<>>
      BY <1>1, <1>4, <2>1, PendingType DEF Receive
    <3>2. queue'[c] = Tail(queue[c]) /\ writing'[c] = <<Head(queue[c])>>
      BY <1>1, <1>4, <2>1 DEF Receive, TypeOK
    <3>3. Head(queue[c]) \in Messages
      BY <3>1, HeadTailProperties
    <3>4. Pending(c)' = Pending(c)
      BY <3>1, <3>2, <3>3, PendingIs DEF Pending
    <3> QED BY <1>2, <1>4, <3>4 DEF Receive, clientVars, castVars
  <2>2. CASE d # c
    <3>1. queue'[c] = queue[c] /\ writing'[c] = writing[c]
      BY <1>1, <1>4, <2>2 DEF Receive, TypeOK
    <3> QED BY <1>2, <1>4, <3>1 DEF Receive, Pending, castVars
  <2> QED BY <2>1, <2>2
<1>5. ASSUME NEW d \in Clients, Written(d) \/ WriteFails(d) PROVE InOrder(c)'
  <2>1. CASE d = c
    <3>1. /\ writing[c] # <<>> /\ writing'[c] = <<>> /\ queue' = queue /\ sent' = sent
          /\ \/ seen' = seen
             \/ seen'[c] = [seen[c] EXCEPT ![Head(writing[c])[1]] = Head(writing[c])[2]]
      BY <1>1, <1>5, <2>1 DEF Written, WriteFails, TypeOK
    <3> QED BY <1>1, <3>1, FrontLeaves
  <2>2. CASE d # c
    <3>1. queue'[c] = queue[c] /\ writing'[c] = writing[c] /\ seen'[c] = seen[c]
      BY <1>1, <1>5, <2>2 DEF Written, WriteFails, TypeOK
    <3> QED BY <1>2, <1>5, <3>1 DEF Written, WriteFails, Pending
  <2> QED BY <2>1, <2>2
<1>6. ASSUME NEW b \in Sources, Broadcast(b) PROVE InOrder(c)'
  <2>1. sent \in [Sources -> Nat] /\ sent' \in [Sources -> Nat]
    BY <1>1, <1>6, ConstantsAssumption DEF TypeOK, Broadcast
  <2>2. \A s \in Sources : sent[s] <= sent'[s]
    BY <1>6, <2>1 DEF Broadcast
  <2>3. Pending(c)' = Pending(c) /\ seen' = seen
    BY <1>6 DEF Broadcast, Pending
  <2>4. /\ Pending(c) \in Seq(Messages) /\ seen[c] \in [Sources -> Nat]
    BY <1>1, PendingType
  <2>5. \A i \in DOMAIN Pending(c) : Pending(c)[i] \in Messages
    BY <2>4, LenProperties
  <2>6. \A i \in DOMAIN Pending(c) : Pending(c)[i][1] \in Sources /\ Pending(c)[i][2] \in Nat
    BY <2>5 DEF Messages
  <2>7. Numbered(Pending(c), sent')
    BY <2>1, <2>2, <2>6 DEF InOrder, Numbered
  <2>8. \A s \in Sources : seen[c][s] <= sent'[s]
    BY <2>1, <2>2, <2>4 DEF InOrder
  <2> QED BY <2>3, <2>7, <2>8 DEF InOrder
<1>7. ASSUME NEW b \in Sources, NEW d \in Clients, SendTo(b, d) PROVE InOrder(c)'
  <2>1. CASE queue'[c] = queue[c]
    BY <1>2, <1>7, <2>1 DEF SendTo, Pending
  <2>2. CASE d = c /\ queue'[c] = Append(queue[c], <<b, sent[b]>>)
    <3>1. cast[b] # "idle" /\ writing' = writing /\ seen' = seen /\ sent' = sent
      BY <1>7 DEF SendTo
    <3> QED BY <1>1, <2>2, <3>1, BackJoins
  <2>3. queue \in [Clients -> Seq(Messages)]
    BY <1>1 DEF TypeOK
  <2> QED BY <1>7, <2>1, <2>2, <2>3 DEF SendTo
<1>8. ASSUME NEW d \in Clients,
             HandleConnect(d) \/ ConnFails(d) \/ HandlerStep(d) \/ WriterEnds(d) \/ ShutdownClose(d)
      PROVE  InOrder(c)'
  BY <1>3, <1>8 DEF HandleConnect, ConnFails, HandlerStep, Register, ReadFails, Unregister,
                    WriterEnds, ShutdownClose
<1>9. ASSUME NEW b \in Sources, RLock(b) \/ RUnlock(b) PROVE InOrder(c)'
  BY <1>3, <1>9 DEF RLock, RUnlock
<1>10. CASE Shutdown \/ ShutdownLock \/ ShutdownUnlock \/ UNCHANGED vars
  BY <1>3, <1>10 DEF Shutdown, ShutdownLock, ShutdownUnlock, vars
<1> QED BY <1>4, <1>5, <1>6, <1>7, <1>8, <1>9, <1>10
        DEF Next, WriterStep, CastStep, ShutdownStep

(* A client gets the messages of a source in the order of the broadcasts.  *)
THEOREM InOrderOfBroadcast == Spec => []OrderedBySource
<1> DEFINE AllInOrder == \A c \in Clients : InOrder(c)
<1>1. Init => AllInOrder
  <2> SUFFICES ASSUME Init, NEW c \in Clients PROVE InOrder(c)
    OBVIOUS
  <2>1. Pending(c) = <<>>
    BY ConcatEmptySeq, EmptySeq DEF Init, Pending
  <2> QED BY <2>1 DEF Init, InOrder, Ordered, Numbered
<1>2. IInv /\ AllInOrder /\ [Next]_vars => AllInOrder'
  BY OrderKept
<1>3. AllInOrder => OrderedBySource
  BY DEF InOrder, OrderedBySource
<1> HIDE DEF AllInOrder
<1> QED BY <1>1, <1>2, <1>3, InductiveInvariant, PTL DEF Spec

(***************************************************************************)
(* Refinement.                                                             *)
(***************************************************************************)

(* What is on its way, as Feed sees it.                                    *)
Flow == [c \in Clients |-> Pending(c)]

Dues == [b \in Sources |-> Due(b)]

FeedStutters == UNCHANGED <<sent, seen>> /\ Dues' = Dues /\ Flow' = Flow

(* Nobody is due to hear more, or less, unless a broadcast moves,          *)
LEMMA DuesStay == UNCHANGED <<cast, todo>> => Dues' = Dues
BY DEF Dues, Due

(* and one that moves changes nothing for the others.                      *)
LEMMA DuesChange ==
  ASSUME NEW b \in Sources, NEW d, Due(b)' = d, CastTypes,
         \A a \in Sources \ {b} : cast'[a] = cast[a] /\ todo'[a] = todo[a]
  PROVE  Dues' = [Dues EXCEPT ![b] = d]
<1>1. \A a \in Sources \ {b} : Due(a)' = Due(a)
  BY DEF Due
<1> QED BY <1>1 DEF Dues

(* One client's part of the flow changes, the others' stay.                *)
LEMMA FlowChanges ==
  ASSUME NEW c \in Clients, NEW p, Pending(c)' = p,
         \A d \in Clients \ {c} : Pending(d)' = Pending(d)
  PROVE  Flow' = [Flow EXCEPT ![c] = p]
BY DEF Flow

(* A step of the hub is a step of Feed, or leaves all Feed shows alone.    *)
LEMMA HubStepIsFeedStep ==
  ASSUME IInv, [Next]_vars
  PROVE  FeedView!Next \/ FeedStutters
<1>1. TypeOK /\ CastTypes /\ LoopsAreLocked
  BY TypesInParts DEF IInv
<1> USE DEF FeedStutters
<1>2. ASSUME UNCHANGED <<queue, writing>> PROVE Flow' = Flow
  BY <1>2 DEF Flow, Pending
<1>3. ASSUME NEW c \in Clients, Receive(c)
      PROVE  FeedStutters
  <2>1. queue[c] \in Seq(Messages) /\ queue[c] # <<>> /\ writing[c] = <<>>
    BY <1>1, <1>3, PendingType DEF Receive
  <2>2. queue'[c] = Tail(queue[c]) /\ writing'[c] = <<Head(queue[c])>>
    BY <1>1, <1>3 DEF Receive, TypeOK
  <2>3. Head(queue[c]) \in Messages
    BY <2>1, HeadTailProperties
  <2>4. Pending(c)' = Pending(c)
    BY <2>1, <2>2, <2>3, PendingIs DEF Pending
  <2>5. \A d \in Clients \ {c} : queue'[d] = queue[d] /\ writing'[d] = writing[d]
    BY <1>1, <1>3 DEF Receive, TypeOK
  <2>6. \A d \in Clients : Pending(d)' = Pending(d)
    BY <2>4, <2>5 DEF Pending
  <2> QED BY <1>3, <2>6, DuesStay DEF Receive, Flow
<1>4. ASSUME NEW c \in Clients, Written(c) \/ WriteFails(c) PROVE FeedView!Next
  <2>1. PICK m \in Messages : writing[c] = <<m>>
    BY <1>1, <1>4, PendingType DEF Written, WriteFails
  <2>2. queue[c] \in Seq(Messages)
    BY <1>1, PendingType
  <2>3. Pending(c) # <<>> /\ Head(Pending(c)) = m /\ Tail(Pending(c)) = queue[c]
    BY <2>1, <2>2, PendingIs DEF Pending
  <2>4. writing'[c] = <<>> /\ queue' = queue /\ sent' = sent /\ Dues' = Dues
    BY <1>1, <1>4, DuesStay DEF Written, WriteFails, TypeOK
  <2>5. Pending(c)' = Tail(Pending(c))
    BY <2>2, <2>3, <2>4, PendingIs DEF Pending
  <2>6. \A d \in Clients \ {c} : Pending(d)' = Pending(d)
    BY <1>1, <1>4 DEF Written, WriteFails, TypeOK, Pending
  <2>7. Flow' = [Flow EXCEPT ![c] = Tail(Flow[c])] /\ Flow[c] = Pending(c)
    BY <2>5, <2>6, FlowChanges DEF Flow
  <2>8. CASE Written(c)
    <3>1. seen' = [seen EXCEPT ![c][Head(Flow[c])[1]] = Head(Flow[c])[2]]
      <4>1. Head(Flow[c]) = Head(writing[c])
        BY <2>1, <2>3, <2>7
      <4> QED BY <2>8, <4>1 DEF Written
    <3>2. FeedView!Arrive(c)
      BY <2>3, <2>4, <2>7, <3>1 DEF FeedView!Arrive, Flow, Dues
    <3> QED BY <3>2 DEF FeedView!Next
  <2>9. CASE WriteFails(c)
    <3>1. FeedView!Lose(c)
      BY <2>3, <2>4, <2>7, <2>9 DEF FeedView!Lose, Flow, Dues, WriteFails
    <3> QED BY <3>1 DEF FeedView!Next
  <2> QED BY <1>4, <2>8, <2>9
<1>5. ASSUME NEW b \in Sources, Broadcast(b) PROVE FeedView!Next
  <2>1. Flow' = Flow
    BY <1>2, <1>5 DEF Broadcast
  <2>2. Due(b) = {} /\ Due(b)' = Clients
    BY <1>1, <1>5 DEF Broadcast, Due, LoopsAreLocked, CastTypes
  <2>3. Dues' = [Dues EXCEPT ![b] = Clients]
    BY <1>1, <1>5, <2>2, DuesChange DEF Broadcast, CastTypes
  <2>4. FeedView!Publish(b)
    BY <1>5, <2>1, <2>2, <2>3 DEF Broadcast, FeedView!Publish, Flow, Dues
  <2> QED BY <2>4 DEF FeedView!Next
<1>6. ASSUME NEW b \in Sources, NEW c \in Clients, SendTo(b, c)
      PROVE  FeedView!Next \/ FeedStutters
  <2>0. Due(b) = todo[b] /\ c \in Due(b) /\ Dues' = [Dues EXCEPT ![b] = Due(b) \ {c}]
    <3>1. Due(b) = todo[b] /\ Due(b)' = todo[b] \ {c}
      BY <1>1, <1>6 DEF SendTo, Due, CastTypes
    <3>2. \A a \in Sources \ {b} : cast'[a] = cast[a] /\ todo'[a] = todo[a]
      BY <1>1, <1>6 DEF SendTo, CastTypes
    <3> QED BY <1>1, <1>6, <3>1, <3>2, DuesChange DEF SendTo
  <2>1. CASE queue' = queue
    <3>1. FeedView!PassBy(b)
      <4>1. {c} \in SUBSET Due(b)
        BY <2>0
      <4> QED BY <1>2, <1>6, <2>0, <2>1, <4>1 DEF SendTo, FeedView!PassBy, Dues, Flow
    <3> QED BY <3>1 DEF FeedView!Next
  <2>2. CASE /\ <<c, b>> \in Follows /\ Len(queue[c]) < Buffer
             /\ queue' = [queue EXCEPT ![c] = Append(@, <<b, sent[b]>>)]
    <3> DEFINE m == <<b, sent[b]>>
    <3>1. m \in Messages
      BY <1>6, ConstantsAssumption DEF IInv, TypeOK, CastsAreNumbered, Messages, SendTo
    <3>2. queue[c] \in Seq(Messages) /\ writing[c] \in Seq(Messages)
      BY <1>1, PendingType
    <3>3. Pending(c)' = Append(Pending(c), m)
      <4>1. queue'[c] = Append(queue[c], m) /\ writing' = writing
        BY <1>1, <1>6, <2>2 DEF TypeOK, SendTo
      <4>2. writing[c] \o Append(queue[c], m) = Append(writing[c] \o queue[c], m)
        BY <3>1, <3>2, PendingWith
      <4> QED BY <4>1, <4>2 DEF Pending
    <3>4. \A d \in Clients \ {c} : Pending(d)' = Pending(d)
      BY <1>1, <1>6, <2>2 DEF SendTo, TypeOK, Pending
    <3>5. Flow' = [Flow EXCEPT ![c] = Append(Flow[c], m)] /\ Flow[c] = Pending(c)
      BY <3>3, <3>4, FlowChanges DEF Flow
    <3>6. Len(writing[c]) <= 1 /\ Len(writing[c]) \in Nat /\ Len(queue[c]) \in Nat
      <4>1. CASE writing[c] = <<>>
        BY <3>2, <4>1, LenProperties, EmptySeq
      <4>2. CASE writing[c] # <<>>
        <5>1. PICK w \in Messages : writing[c] = <<w>>
          BY <1>1, <4>2, PendingType
        <5> QED BY <3>2, <5>1, LenProperties
      <4> QED BY <4>1, <4>2
    <3>7. Len(Flow[c]) < Buffer + 1
      <4>1. Len(Pending(c)) = Len(writing[c]) + Len(queue[c])
        BY <3>2, ConcatProperties DEF Pending
      <4>2. Len(queue[c]) < Buffer /\ Buffer \in Nat
        BY <2>2, ConstantsAssumption
      <4>3. \A w, q \in Nat : w <= 1 /\ q < Buffer => w + q < Buffer + 1
        BY <4>2
      <4>4. Len(writing[c]) + Len(queue[c]) < Buffer + 1
        BY <3>6, <4>2, <4>3
      <4> QED BY <3>5, <4>1, <4>4
    <3>8. FeedView!Offer(b, c)
      BY <1>6, <2>0, <2>2, <3>5, <3>7 DEF SendTo, FeedView!Offer, Flow, Dues
    <3> QED BY <3>8 DEF FeedView!Next
  <2> QED BY <1>6, <2>1, <2>2 DEF SendTo
<1>7. ASSUME NEW d \in Clients,
             HandleConnect(d) \/ ConnFails(d) \/ HandlerStep(d) \/ WriterEnds(d) \/ ShutdownClose(d)
      PROVE  FeedStutters
  BY <1>2, <1>7, DuesStay DEF HandleConnect, ConnFails, HandlerStep, Register, ReadFails, Unregister,
                    WriterEnds, ShutdownClose
<1>8. ASSUME NEW b \in Sources, RLock(b) PROVE FeedView!Next
  <2>1. Due(b) = Clients /\ Due(b)' = members
    BY <1>1, <1>8 DEF RLock, Due, CastTypes
  <2>2. \A a \in Sources \ {b} : cast'[a] = cast[a] /\ todo'[a] = todo[a]
    BY <1>1, <1>8 DEF RLock, CastTypes
  <2>3. Dues' = [Dues EXCEPT ![b] = Due(b) \ (Clients \ members)]
    <3>1. Clients \ (Clients \ members) = members
      BY <1>1 DEF TypeOK
    <3> QED BY <1>1, <2>1, <2>2, <3>1, DuesChange
  <2>4. FeedView!PassBy(b)
    <3>1. Clients \ members \in SUBSET Due(b)
      BY <2>1
    <3> QED BY <1>2, <1>8, <2>3, <3>1 DEF RLock, FeedView!PassBy, Dues, Flow
  <2> QED BY <2>4 DEF FeedView!Next
<1>10. ASSUME NEW b \in Sources, RUnlock(b) PROVE FeedStutters
  <2>1. Due(b)' = Due(b)
    BY <1>1, <1>10 DEF RUnlock, Due, CastTypes
  <2>2. \A a \in Sources \ {b} : Due(a)' = Due(a)
    BY <1>1, <1>10 DEF RUnlock, Due, CastTypes
  <2> QED BY <1>2, <1>10, <2>1, <2>2 DEF RUnlock, Dues
<1>9. ASSUME Shutdown \/ ShutdownLock \/ ShutdownUnlock \/ UNCHANGED vars
      PROVE  FeedStutters
  BY <1>2, <1>9, DuesStay DEF Shutdown, ShutdownLock, ShutdownUnlock, vars
<1> QED BY <1>3, <1>4, <1>5, <1>6, <1>7, <1>8, <1>9, <1>10
        DEF Next, WriterStep, CastStep, ShutdownStep

(* The hub, its locks and goroutines hidden, is a Feed.                    *)
THEOREM HubIsAFeed == Spec => ImplementsFeed
<1>1. Init => FeedView!Init
  <2> SUFFICES ASSUME Init PROVE FeedView!Init
    OBVIOUS
  <2>1. \A c \in Clients : Pending(c) = <<>>
    BY ConcatEmptySeq, EmptySeq DEF Init, Pending
  <2> QED BY <2>1 DEF Init, FeedView!Init, Due
<1>2. IInv /\ [Next]_vars => [FeedView!Next]_(FeedView!vars)
  <2> SUFFICES ASSUME IInv, [Next]_vars PROVE [FeedView!Next]_(FeedView!vars)
    OBVIOUS
  <2>1. FeedView!Next \/ FeedStutters
    BY HubStepIsFeedStep
  <2> QED BY <2>1 DEF FeedView!vars, FeedStutters, Flow, Dues
<1> QED BY <1>1, <1>2, InductiveInvariant, PTL DEF Spec, ImplementsFeed, FeedView!Spec
=============================================================================
