-------------------------------- MODULE Feed --------------------------------
(***************************************************************************)
(* What the WebSocket hub promises, with neither locks nor goroutines: a   *)
(* feed that may drop messages and may lose a client's connection, but     *)
(* brings a client nothing it does not follow, never more than a bounded   *)
(* number of messages late, and none of them twice or out of turn: each is *)
(* offered to a client at most once, before the next of its source.        *)
(***************************************************************************)
EXTENDS Naturals, Sequences

CONSTANTS
  Clients,   \* who may connect
  Sources,   \* who broadcasts
  Follows,   \* <<c, b>>: client c gets the messages of b
  Capacity,  \* how many messages may be on their way to a client
  MaxCount   \* the bound on the numbers messages carry

VARIABLES
  latest,    \* the number of the latest message of each source
  due,       \* the clients that message has neither been offered to nor passed by
  pending,   \* the messages on their way to each client
  seen       \* the number of the last message of each source a client got

vars == <<latest, due, pending, seen>>

Init ==
  /\ latest = [b \in Sources |-> 0]
  /\ due = [b \in Sources |-> {}]
  /\ pending = [c \in Clients |-> <<>>]
  /\ seen = [c \in Clients |-> [b \in Sources |-> 0]]

\* A source has something new to say, and is done with what it said before;
\* numbers stay at MaxCount once there.
Publish(b) ==
  /\ due[b] = {}
  /\ latest' = [latest EXCEPT ![b] = IF @ < MaxCount THEN @ + 1 ELSE @]
  /\ due' = [due EXCEPT ![b] = Clients]
  /\ UNCHANGED <<pending, seen>>

\* The latest message of b goes to c,
Offer(b, c) ==
  /\ c \in due[b]
  /\ due' = [due EXCEPT ![b] = @ \ {c}]
  /\ <<c, b>> \in Follows
  /\ Len(pending[c]) < Capacity
  /\ pending' = [pending EXCEPT ![c] = Append(@, <<b, latest[b]>>)]
  /\ UNCHANGED <<latest, seen>>

\* or passes some clients by for good.
PassBy(b) ==
  /\ \E missed \in SUBSET due[b] : due' = [due EXCEPT ![b] = @ \ missed]
  /\ UNCHANGED <<latest, pending, seen>>

\* The first message on its way to c arrives,
Arrive(c) ==
  /\ pending[c] # <<>>
  /\ LET first == Head(pending[c]) IN seen' = [seen EXCEPT ![c][first[1]] = first[2]]
  /\ pending' = [pending EXCEPT ![c] = Tail(@)]
  /\ UNCHANGED <<latest, due>>

\* or is lost with the connection.
Lose(c) ==
  /\ pending[c] # <<>>
  /\ pending' = [pending EXCEPT ![c] = Tail(@)]
  /\ UNCHANGED <<latest, due, seen>>

Next ==
  \/ \E b \in Sources : Publish(b) \/ PassBy(b) \/ \E c \in Clients : Offer(b, c)
  \/ \E c \in Clients : Arrive(c) \/ Lose(c)

Spec == Init /\ [][Next]_vars
=============================================================================
