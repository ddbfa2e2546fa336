--------------------------------- MODULE Hub ---------------------------------
(***************************************************************************)
(* The WebSocket hub (package ws): handlers that register a client, read   *)
(* from its connection and unregister it, the writer goroutine of each     *)
(* client, broadcasts into the clients' buffers, and Shutdown, all around  *)
(* one sync.RWMutex.                                                       *)
(*                                                                         *)
(* A writer of the lock holds it in one action, but for Shutdown, which    *)
(* waits for the connections it closes.  A reader holds it over a loop of  *)
(* actions, with the loops of other readers in between.                    *)
(***************************************************************************)
EXTENDS Naturals, Sequences

CONSTANTS
  Clients,   \* the connections, each a client of its own
  Sources,   \* the callers of Broadcast, each with one call at a time
  Follows,   \* <<c, b>>: c subscribes to the execution b speaks of, or to all
  Buffer,    \* the capacity of client.send
  MaxCount   \* the bound on the numbers messages carry

ASSUME ConstantsAssumption ==
  /\ Follows \subseteq Clients \X Sources
  /\ Buffer \in Nat \ {0}
  /\ MaxCount \in Nat \ {0}

VARIABLES
  handler,   \* where HandleConnect is: "join" and "leave" wait for the lock
  conn,      \* the connection: "none", "open" or "closed"
  members,   \* the keys of Hub.clients
  closes,    \* how often client.send has been closed: a second time panics
  queue,     \* the messages in client.send
  writer,    \* the writer goroutine: "none", "up" or "over"
  writing,   \* the message it is in wsjson.Write with, if any
  seen,      \* the number of the last message of each source a client got
  cast,      \* where each source is: "idle", "lock" or "loop"
  todo,      \* the clients its loop has still to visit
  sent,      \* the number of the latest message of each source
  shutdown   \* where Shutdown is: "idle", "lock", "loop" or "over"

clientVars == <<handler, conn, members, closes, writer>>
castVars   == <<cast, todo, sent>>
flowVars   == <<queue, writing, seen>>
vars == <<clientVars, flowVars, castVars, shutdown>>

Messages == Sources \X (1 .. MaxCount)

TypeOK ==
  /\ handler \in [Clients -> {"none", "join", "reading", "leave", "over"}]
  /\ conn \in [Clients -> {"none", "open", "closed"}]
  /\ members \subseteq Clients
  /\ closes \in [Clients -> Nat]
  /\ queue \in [Clients -> Seq(Messages)]
  /\ \A c \in Clients : Len(queue[c]) <= Buffer
  /\ writer \in [Clients -> {"none", "up", "over"}]
  /\ writing \in [Clients -> {<<>>} \cup {<<m>> : m \in Messages}]
  /\ seen \in [Clients -> [Sources -> 0 .. MaxCount]]
  /\ cast \in [Sources -> {"idle", "lock", "loop"}]
  /\ todo \in [Sources -> SUBSET Clients]
  /\ sent \in [Sources -> 0 .. MaxCount]
  /\ shutdown \in {"idle", "lock", "loop", "over"}

Init ==
  /\ handler = [c \in Clients |-> "none"]
  /\ conn = [c \in Clients |-> "none"]
  /\ members = {}
  /\ closes = [c \in Clients |-> 0]
  /\ queue = [c \in Clients |-> <<>>]
  /\ writer = [c \in Clients |-> "none"]
  /\ writing = [c \in Clients |-> <<>>]
  /\ seen = [c \in Clients |-> [b \in Sources |-> 0]]
  /\ cast = [b \in Sources |-> "idle"]
  /\ todo = [b \in Sources |-> {}]
  /\ sent = [b \in Sources |-> 0]
  /\ shutdown = "idle"

(***************************************************************************)
(* sync.RWMutex: a writer waits for the readers in the lock, and a writer  *)
(* that waits keeps new readers out.                                       *)
(***************************************************************************)
Locked == shutdown = "loop"

Waiting ==
  shutdown = "lock" \/ \E c \in Clients : handler[c] \in {"join", "leave"}

MayRead  == ~Locked /\ ~Waiting
MayWrite == ~Locked /\ \A b \in Sources : cast[b] # "loop"

(***************************************************************************)
(* HandleConnect.                                                          *)
(***************************************************************************)
HandleConnect(c) ==
  /\ handler[c] = "none"
  /\ handler' = [handler EXCEPT ![c] = "join"]
  /\ conn' = [conn EXCEPT ![c] = "open"]
  /\ UNCHANGED <<members, closes, writer, flowVars, castVars, shutdown>>

\* register, and the start of the writer goroutine.
Register(c) ==
  /\ handler[c] = "join"
  /\ MayWrite
  /\ members' = members \cup {c}
  /\ handler' = [handler EXCEPT ![c] = "reading"]
  /\ writer' = [writer EXCEPT ![c] = "up"]
  /\ UNCHANGED <<conn, closes, flowVars, castVars, shutdown>>

\* The peer leaves, the network fails, or a Write that failed closes the connection.
ConnFails(c) ==
  /\ conn[c] = "open"
  /\ conn' = [conn EXCEPT ![c] = "closed"]
  /\ UNCHANGED <<handler, members, closes, writer, flowVars, castVars, shutdown>>

\* conn.Read returns the error that ends the loop.
ReadFails(c) ==
  /\ handler[c] = "reading"
  /\ conn[c] = "closed"
  /\ handler' = [handler EXCEPT ![c] = "leave"]
  /\ UNCHANGED <<conn, members, closes, writer, flowVars, castVars, shutdown>>

\* unregister; Shutdown may have closed the channel already.
Forget(c) ==
  /\ members' = members \ {c}
  /\ closes' = [closes EXCEPT ![c] = @ + 1]

Unregister_Unlocked(c) ==
  /\ handler[c] = "leave"
  /\ handler' = [handler EXCEPT ![c] = "over"]
  /\ IF c \in members THEN Forget(c) ELSE UNCHANGED <<members, closes>>
  /\ UNCHANGED <<conn, writer, flowVars, castVars, shutdown>>

Unregister_KeepsOpen(c) ==
  /\ handler[c] = "leave"
  /\ MayWrite
  /\ handler' = [handler EXCEPT ![c] = "over"]
  /\ members' = members \ {c}
  /\ UNCHANGED <<conn, closes, writer, flowVars, castVars, shutdown>>

Unregister(c) ==
  /\ handler[c] = "leave"
  /\ MayWrite
  /\ handler' = [handler EXCEPT ![c] = "over"]
  /\ IF c \in members THEN Forget(c) ELSE UNCHANGED <<members, closes>>
  /\ UNCHANGED <<conn, writer, flowVars, castVars, shutdown>>

(***************************************************************************)
(* The writer goroutine: a range over client.send.                         *)
(***************************************************************************)
Receive(c) ==
  /\ writer[c] = "up"
  /\ writing[c] = <<>>
  /\ queue[c] # <<>>
  /\ writing' = [writing EXCEPT ![c] = <<Head(queue[c])>>]
  /\ queue' = [queue EXCEPT ![c] = Tail(@)]
  /\ UNCHANGED <<clientVars, seen, castVars, shutdown>>

Written(c) ==
  /\ writing[c] # <<>>
  /\ conn[c] = "open"
  /\ seen' = [seen EXCEPT ![c][Head(writing[c])[1]] = Head(writing[c])[2]]
  /\ writing' = [writing EXCEPT ![c] = <<>>]
  /\ UNCHANGED <<clientVars, queue, castVars, shutdown>>

WriteFails(c) ==
  /\ writing[c] # <<>>
  /\ conn[c] = "closed"
  /\ writer' = [writer EXCEPT ![c] = "over"]
  /\ writing' = [writing EXCEPT ![c] = <<>>]
  /\ UNCHANGED <<handler, conn, members, closes, queue, seen, castVars, shutdown>>

\* The range ends with a closed and empty channel.
WriterEnds(c) ==
  /\ writer[c] = "up"
  /\ writing[c] = <<>>
  /\ queue[c] = <<>>
  /\ closes[c] > 0
  /\ writer' = [writer EXCEPT ![c] = "over"]
  /\ UNCHANGED <<handler, conn, members, closes, flowVars, castVars, shutdown>>

(***************************************************************************)
(* Broadcast.  The number of a message stays at MaxCount once it is there. *)
(***************************************************************************)
Broadcast(b) ==
  /\ cast[b] = "idle"
  /\ cast' = [cast EXCEPT ![b] = "lock"]
  /\ sent' = [sent EXCEPT ![b] = IF @ < MaxCount THEN @ + 1 ELSE @]
  /\ UNCHANGED <<clientVars, flowVars, todo, shutdown>>

RLock(b) ==
  /\ cast[b] = "lock"
  /\ MayRead
  /\ cast' = [cast EXCEPT ![b] = "loop"]
  /\ todo' = [todo EXCEPT ![b] = members]
  /\ UNCHANGED <<clientVars, flowVars, sent, shutdown>>

\* One client of the loop: a send that never blocks.
SendTo_OffByOne(b, c) ==
  /\ cast[b] = "loop"
  /\ c \in todo[b]
  /\ todo' = [todo EXCEPT ![b] = @ \ {c}]
  /\ IF <<c, b>> \in Follows /\ Len(queue[c]) <= Buffer
     THEN queue' = [queue EXCEPT ![c] = Append(@, <<b, sent[b]>>)]
     ELSE UNCHANGED queue
  /\ UNCHANGED <<clientVars, writing, seen, cast, sent, shutdown>>

SendTo_Blocks(b, c) ==
  /\ cast[b] = "loop"
  /\ c \in todo[b]
  /\ <<c, b>> \in Follows => Len(queue[c]) < Buffer
  /\ todo' = [todo EXCEPT ![b] = @ \ {c}]
  /\ IF <<c, b>> \in Follows
     THEN queue' = [queue EXCEPT ![c] = Append(@, <<b, sent[b]>>)]
     ELSE UNCHANGED queue
  /\ UNCHANGED <<clientVars, writing, seen, cast, sent, shutdown>>

SendTo(b, c) ==
  /\ cast[b] = "loop"
  /\ c \in todo[b]
  /\ todo' = [todo EXCEPT ![b] = @ \ {c}]
  /\ IF <<c, b>> \in Follows /\ Len(queue[c]) < Buffer
     THEN queue' = [queue EXCEPT ![c] = Append(@, <<b, sent[b]>>)]
     ELSE UNCHANGED queue
  /\ UNCHANGED <<clientVars, writing, seen, cast, sent, shutdown>>

RUnlock(b) ==
  /\ cast[b] = "loop"
  /\ todo[b] = {}
  /\ cast' = [cast EXCEPT ![b] = "idle"]
  /\ UNCHANGED <<clientVars, flowVars, todo, sent, shutdown>>

(***************************************************************************)
(* Shutdown holds the lock over its whole loop.                            *)
(***************************************************************************)
Shutdown ==
  /\ shutdown = "idle"
  /\ shutdown' = "lock"
  /\ UNCHANGED <<clientVars, flowVars, castVars>>

ShutdownLock ==
  /\ shutdown = "lock"
  /\ MayWrite
  /\ shutdown' = "loop"
  /\ UNCHANGED <<clientVars, flowVars, castVars>>

ShutdownClose(c) ==
  /\ Locked
  /\ c \in members
  /\ conn' = [conn EXCEPT ![c] = "closed"]
  /\ Forget(c)
  /\ UNCHANGED <<handler, writer, flowVars, castVars, shutdown>>

ShutdownUnlock ==
  /\ Locked
  /\ members = {}
  /\ shutdown' = "over"
  /\ UNCHANGED <<clientVars, flowVars, castVars>>

-----------------------------------------------------------------------------
HandlerStep(c) == Register(c) \/ ReadFails(c) \/ Unregister(c)

WriterStep(c) == Receive(c) \/ WriteFails(c) \/ WriterEnds(c)

CastStep(b) == RLock(b) \/ RUnlock(b) \/ \E c \in Clients : SendTo(b, c)

ShutdownStep ==
  ShutdownLock \/ ShutdownUnlock \/ \E c \in Clients : ShutdownClose(c)

Next ==
  \/ \E c \in Clients :
       \/ HandleConnect(c) \/ ConnFails(c) \/ HandlerStep(c)
       \/ WriterStep(c) \/ Written(c)
  \/ \E b \in Sources : Broadcast(b) \/ CastStep(b)
  \/ Shutdown
  \/ ShutdownStep

Spec == Init /\ [][Next]_vars

(***************************************************************************)
(* Fairness: goroutines run.  A Write to an open connection need never     *)
(* return, as a peer may stop reading; one to a closed connection does.    *)
(***************************************************************************)
Fairness ==
  /\ \A c \in Clients : WF_vars(HandlerStep(c)) /\ WF_vars(WriterStep(c))
  /\ \A b \in Sources : WF_vars(CastStep(b))
  /\ WF_vars(ShutdownStep)

FairSpec == Spec /\ Fairness

-----------------------------------------------------------------------------
(***************************************************************************)
(* Safety.                                                                 *)
(***************************************************************************)

(* No send on a closed channel (Go panics, and takes the server with it):  *)
(* whoever a broadcast has still to visit is a client whose channel is     *)
(* open, although clients come and go between broadcasts.                  *)
SendsAreSafe ==
  \A b \in Sources, c \in Clients : c \in todo[b] => closes[c] = 0

(* No double close either, and no leak: Shutdown and the client's own      *)
(* handler may both get to it, in any order, but its channel is closed     *)
(* exactly once, when it stops being a member.                             *)
ChannelsClosedOnce ==
  \A c \in Clients :
    /\ closes[c] <= 1
    /\ handler[c] = "over" => closes[c] = 1 /\ c \notin members
    /\ closes[c] = 1 <=> c \notin members /\ writer[c] # "none"

(* So no goroutine of the hub ends the server with a panic.                *)
NoPanic == SendsAreSafe /\ ChannelsClosedOnce

(* Whatever is dropped on the way, the messages of one source reach a      *)
(* client in the order they were broadcast.                                *)
Ordered(messages, last) ==
  /\ \A i, j \in DOMAIN messages :
       i < j /\ messages[i][1] = messages[j][1] => messages[i][2] <= messages[j][2]
  /\ \A i \in DOMAIN messages : last[messages[i][1]] <= messages[i][2]

Pending(c) == writing[c] \o queue[c]

OrderedBySource == \A c \in Clients : Ordered(Pending(c), seen[c])

(* With the locks, the goroutines and the connections hidden, the hub is a *)
(* Feed: what is on its way to a client is what its writer holds and what  *)
(* its buffer does; a broadcast is still due to everybody until its loop   *)
(* begins, and then to those the loop has not visited.                     *)
Due(b) == IF cast[b] = "lock" THEN Clients ELSE todo[b]

FeedView ==
  INSTANCE Feed WITH
    latest   <- sent,
    due      <- [b \in Sources |-> Due(b)],
    pending  <- [c \in Clients |-> Pending(c)],
    Capacity <- Buffer + 1

ImplementsFeed == FeedView!Spec

(***************************************************************************)
(* Liveness.                                                               *)
(***************************************************************************)

(* A broadcast ends: neither a client that has stopped reading nor one     *)
(* that comes or goes can hold it up for good.                             *)
BroadcastsEnd == \A b \in Sources : cast[b] = "lock" ~> cast[b] = "idle"

(* A client whose connection is lost is forgotten, with both goroutines    *)
(* that served it, however many broadcasts go on.                          *)
LostClientsAreForgotten ==
  \A c \in Clients :
    conn[c] = "closed" ~> handler[c] = "over" /\ writer[c] = "over" /\ c \notin members
=============================================================================
