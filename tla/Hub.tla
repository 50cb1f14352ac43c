-------------------------------- MODULE Hub --------------------------------
(***************************************************************************)
(* The WebSocket feed inside one API process: the goroutine that LISTENs   *)
(* to Postgres and broadcasts, and for every connection a handler with its *)
(* read loop and a write loop, sharing the hub's RWMutex and one buffered  *)
(* channel per connection.                                                 *)
(***************************************************************************)
EXTENDS Naturals, Sequences

CONSTANTS
  Users, Conns, UserOf,  \* UserOf[c]: the user the ticket of c was issued to
  Buffer,                \* capacity of a client's channel (16)
  MaxEvents              \* bound: job_events rows written

ASSUME HubAssumption ==
  /\ UserOf \in [Conns -> Users]
  /\ Buffer \in Nat \ {0}
  /\ MaxEvents \in Nat

Events == Users \X (1..MaxEvents)   \* <<owner of the job, event number>>

VARIABLES
  written,             \* events so far
  lpc, inbox,          \* listener; notifications its connection holds
  msg, left,           \* message being broadcast; clients it is still to reach
  cpc, wpc,            \* handler and write loop of a connection
  clients,             \* registered connections
  queue, closed,       \* the Send channels, and which are closed
  hand, sent,          \* message a write loop holds; messages written
  offered, overflowed  \* history: broadcasts while registered; a full buffer met

listener == <<lpc, inbox, msg, left>>
channels == <<queue, closed>>
writers == <<wpc, hand, sent>>
history == <<offered, overflowed>>
vars == <<written, listener, cpc, clients, channels, writers, history>>

Init ==
  /\ written = 0
  /\ lpc = "down" /\ inbox = <<>> /\ msg = <<>> /\ left = {}
  /\ cpc = [c \in Conns |-> "new"]
  /\ wpc = [c \in Conns |-> "none"]
  /\ clients = {}
  /\ queue = [c \in Conns |-> <<>>]
  /\ closed = {}
  /\ hand = [c \in Conns |-> <<>>]
  /\ sent = [c \in Conns |-> <<>>]
  /\ offered = [c \in Conns |-> <<>>]
  /\ overflowed = {}

(* The trigger on job_events: pg_notify reaches whoever LISTENs now.       *)
NotifyJobEvent(u) ==
  /\ written < MaxEvents
  /\ written' = written + 1
  /\ inbox' = IF lpc = "down" THEN inbox ELSE Append(inbox, <<u, written + 1>>)
  /\ UNCHANGED <<lpc, msg, left, cpc, clients, channels, writers, history>>

-----------------------------------------------------------------------------
(* The listener goroutine.                                                 *)

Listen ==
  /\ lpc = "down"
  /\ lpc' = "waiting"
  /\ UNCHANGED <<written, inbox, msg, left, cpc, clients, channels, writers, history>>

ConnectionLost ==
  /\ lpc = "waiting"
  /\ lpc' = "down"
  /\ inbox' = <<>>
  /\ UNCHANGED <<written, msg, left, cpc, clients, channels, writers, history>>

ClientsOf(u) == {c \in clients : UserOf[c] = u}

(* BroadcastToUser takes the read lock, held while lpc = "broadcasting".   *)
Handle ==
  /\ lpc = "waiting" /\ inbox # <<>>
  /\ lpc' = "broadcasting"
  /\ msg' = Head(inbox) /\ inbox' = Tail(inbox)
  /\ left' = ClientsOf(msg'[1])
  /\ offered' = [c \in Conns |-> IF c \in left' THEN Append(offered[c], msg') ELSE offered[c]]
  /\ UNCHANGED <<written, cpc, clients, channels, writers, overflowed>>

(* A blocking send.                                                        *)
SendBlocking(c) ==
  /\ lpc = "broadcasting" /\ c \in left
  /\ Len(queue[c]) < Buffer
  /\ queue' = [queue EXCEPT ![c] = Append(@, msg)]
  /\ left' = left \ {c}
  /\ UNCHANGED <<written, lpc, inbox, msg, cpc, clients, closed, writers, history>>

(* A full buffer ends the whole loop.                                      *)
SendOrReturn(c) ==
  /\ lpc = "broadcasting" /\ c \in left
  /\ \/ /\ Len(queue[c]) < Buffer
        /\ queue' = [queue EXCEPT ![c] = Append(@, msg)]
        /\ left' = left \ {c}
        /\ UNCHANGED overflowed
     \/ /\ Len(queue[c]) >= Buffer
        /\ overflowed' = overflowed \cup {c}
        /\ left' = {}
        /\ UNCHANGED queue
  /\ UNCHANGED <<written, lpc, inbox, msg, cpc, clients, closed, writers, offered>>

(* The select in the loop: a full buffer loses this message.               *)
Send(c) ==
  /\ lpc = "broadcasting" /\ c \in left
  /\ left' = left \ {c}
  /\ \/ /\ Len(queue[c]) < Buffer
        /\ queue' = [queue EXCEPT ![c] = Append(@, msg)]
        /\ UNCHANGED overflowed
     \/ /\ Len(queue[c]) >= Buffer
        /\ overflowed' = overflowed \cup {c}
        /\ UNCHANGED queue
  /\ UNCHANGED <<written, lpc, inbox, msg, cpc, clients, closed, writers, offered>>

Broadcasted ==
  /\ lpc = "broadcasting" /\ left = {}
  /\ lpc' = "waiting"
  /\ UNCHANGED <<written, inbox, msg, left, cpc, clients, channels, writers, history>>

-----------------------------------------------------------------------------
(* The goroutines of a connection.                                         *)

(* A ticket that does not verify, or a failed upgrade, ends the handler.   *)
Accept(c) ==
  /\ cpc[c] = "new"
  /\ \E l \in {"accepted", "done"} : cpc' = [cpc EXCEPT ![c] = l]
  /\ UNCHANGED <<written, listener, clients, channels, writers, history>>

(* Register under the write lock; then the write loop is started.          *)
Register(c) ==
  /\ cpc[c] = "accepted" /\ lpc # "broadcasting"
  /\ clients' = clients \cup {c}
  /\ cpc' = [cpc EXCEPT ![c] = "reading"]
  /\ wpc' = [wpc EXCEPT ![c] = "receive"]
  /\ UNCHANGED <<written, listener, channels, hand, sent, history>>

(* readLoop returns: the peer is gone, or the connection failed.           *)
ReadFails(c) ==
  /\ cpc[c] = "reading"
  /\ cpc' = [cpc EXCEPT ![c] = "closing"]
  /\ UNCHANGED <<written, listener, clients, channels, writers, history>>

(* Unregister without the lock.                                            *)
UnregisterUnlocked(c) ==
  /\ cpc[c] = "closing"
  /\ clients' = clients \ {c} /\ closed' = closed \cup {c}
  /\ cpc' = [cpc EXCEPT ![c] = "done"]
  /\ UNCHANGED <<written, listener, queue, writers, history>>

(* Unregister that forgets close(c.Send).                                  *)
UnregisterOnly(c) ==
  /\ cpc[c] = "closing" /\ lpc # "broadcasting"
  /\ clients' = clients \ {c}
  /\ cpc' = [cpc EXCEPT ![c] = "done"]
  /\ UNCHANGED <<written, listener, channels, writers, history>>

Unregister(c) ==
  /\ cpc[c] = "closing" /\ lpc # "broadcasting"
  /\ clients' = clients \ {c} /\ closed' = closed \cup {c}
  /\ cpc' = [cpc EXCEPT ![c] = "done"]
  /\ UNCHANGED <<written, listener, queue, writers, history>>

(* range client.Send: a closed channel is drained before the loop ends.    *)
Receive(c) ==
  /\ wpc[c] = "receive"
  /\ \/ /\ queue[c] # <<>>
        /\ hand' = [hand EXCEPT ![c] = <<Head(queue[c])>>]
        /\ queue' = [queue EXCEPT ![c] = Tail(@)]
        /\ wpc' = [wpc EXCEPT ![c] = "write"]
     \/ /\ queue[c] = <<>> /\ c \in closed
        /\ wpc' = [wpc EXCEPT ![c] = "ended"]
        /\ UNCHANGED <<hand, queue>>
  /\ UNCHANGED <<written, listener, cpc, clients, closed, sent, history>>

(* conn.Write succeeds, or fails or times out, which ends the loop.        *)
Write(c) ==
  /\ wpc[c] = "write"
  /\ \/ /\ sent' = [sent EXCEPT ![c] = @ \o hand[c]]
        /\ hand' = [hand EXCEPT ![c] = <<>>]
        /\ wpc' = [wpc EXCEPT ![c] = "receive"]
     \/ wpc' = [wpc EXCEPT ![c] = "ended"] /\ UNCHANGED <<hand, sent>>
  /\ UNCHANGED <<written, listener, cpc, clients, channels, history>>

-----------------------------------------------------------------------------
ListenerStep == Listen \/ Handle \/ Broadcasted \/ \E c \in Conns : Send(c)
WriteLoop(c) == Receive(c) \/ Write(c)

Next ==
  \/ \E u \in Users : NotifyJobEvent(u)
  \/ ListenerStep \/ ConnectionLost
  \/ \E c \in Conns : Accept(c) \/ Register(c) \/ ReadFails(c) \/ Unregister(c) \/ WriteLoop(c)

Spec == Init /\ [][Next]_vars

(* Goroutines that can run do, a write ends within writeTimeout, and a     *)
(* waiting Lock() is not overtaken for ever by RLock() (hence SF).  A peer *)
(* may stay connected, and unresponsive, for ever.                         *)
FairSpec ==
  /\ Spec
  /\ WF_vars(ListenerStep)
  /\ \A c \in Conns : SF_vars(Register(c)) /\ SF_vars(Unregister(c)) /\ WF_vars(WriteLoop(c))

-----------------------------------------------------------------------------
(* A broadcast under way never sends on a closed channel, which would      *)
(* panic and take the API process down: Unregister closes it under the     *)
(* lock that BroadcastToUser reads under.                                  *)
NoSendOnClosedChannel == left \cap closed = {}

(* A client whose own buffer never overflowed sees no gap, whatever the    *)
(* other clients' buffers do: what it was written are the first broadcasts *)
(* made while it was registered, in their order.  As long as its write     *)
(* loop runs, the others are all on their way to it; a loop that ended     *)
(* because Unregister closed the channel has written them all; one that    *)
(* ended because a Write failed or timed out leaves the rest unsent.       *)
WriteFailed(c) == wpc[c] = "ended" /\ hand[c] # <<>>
OnlyOverflowLeavesGaps ==
  \A c \in Conns \ overflowed :
    /\ \A i \in 1..Len(sent[c]) : i <= Len(offered[c]) /\ sent[c][i] = offered[c][i]
    /\ wpc[c] # "ended" =>
         sent[c] \o hand[c] \o queue[c] \o (IF c \in left THEN <<msg>> ELSE <<>>) = offered[c]
    /\ wpc[c] = "ended" /\ ~WriteFailed(c) => sent[c] = offered[c]

(* No client can stall the broadcast for everyone else, not even one whose *)
(* buffer is full and whose write loop has ended (BroadcastToUser).        *)
BroadcastEnds == (lpc = "broadcasting") ~> (lpc # "broadcasting")

(* A connection's write loop ends after its handler has returned, so no    *)
(* goroutine is left behind by a client that went away (Unregister).       *)
WriteLoopEnds ==
  \A c \in Conns : (cpc[c] = "closing") ~> (cpc[c] = "done" /\ wpc[c] = "ended")
=============================================================================
