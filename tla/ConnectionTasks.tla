-------------------------- MODULE ConnectionTasks --------------------------
(***************************************************************************)
(* The transport side of a TCP or WebSocket server: the task that hands    *)
(* packets of the TUN device to the clients (handle_tun_packet) and one    *)
(* task per connection (handle_tcp_connection, handle_ws_connection), each *)
(* with the channel its session carries.                                   *)
(*                                                                         *)
(* Of the session table the mutex is kept, which handle_tun_packet holds   *)
(* while it waits for room in a client's channel, and the set of           *)
(* connections that have a session; which session a packet is for and how  *)
(* the table changes is the subject of ServerSessions.                     *)
(***************************************************************************)
EXTENDS TunTask, Functions

CONSTANTS
    Conn,           \* connections
    NoConn,
    MaxGot          \* bound: data messages received on all connections

ASSUME ConnectionAssumption == NoConn \notin Conn /\ MaxGot \in Nat

VARIABLES
    listener,   \* the accept loop: binding, listening, or its task has panicked
    open,       \* connections that an entry of the session table points to
    conn,       \* connection tasks: where each is and the packet it is sending
    pump,       \* handle_tun_packet: where it is, its packet and the client's channel
    queue,      \* the channel of each connection
    pumped,     \* history: packets taken from tunq
    got,        \* data messages received on each connection
    forwarded   \* history: packets sent to each client

connVars == <<listener, open, conn, pump, queue, pumped, got, forwarded>>

Pump(at, p, c) == [at |-> at, holds |-> p, to |-> c]

PumpIdle == Pump("recv", None, NoConn)

PumpEnded == Pump("ended", None, NoConn)

\* Not accepted yet.
New == Task("new", None)

ConnInit ==
    /\ listener = "binding"
    /\ open = {}
    /\ conn = [c \in Conn |-> New]
    /\ pump = PumpIdle
    /\ queue = [c \in Conn |-> <<>>]
    /\ pumped = <<>>
    /\ got = [c \in Conn |-> 0]
    /\ forwarded = [c \in Conn |-> <<>>]

\* SESSIONS.lock() is granted.
LockFree == pump.at # "send"

\* tun_rx.recv(), and the lookup of the destination, which may have no session.
PumpTakes ==
    /\ Alive /\ pump = PumpIdle /\ tunq # <<>>
    /\ tunq' = Tail(tunq)
    /\ pumped' = Append(pumped, Head(tunq))
    /\ \/ UNCHANGED pump
       \/ \E c \in open : pump' = Pump("send", Head(tunq), c)
    /\ UNCHANGED <<mode, main, tun, proxy, netq, directq, replyq, read, accepted, replies, toDevice,
                   listener, open, conn, queue, got, forwarded>>

\* A variant that may send a packet again after it has sent it.
PumpSends_Again ==
    /\ Alive /\ pump.at = "send"
    /\ \/ /\ conn[pump.to] # Ended /\ HasRoom(queue[pump.to])
          /\ queue' = [queue EXCEPT ![pump.to] = Append(@, pump.holds)]
       \/ conn[pump.to] = Ended /\ UNCHANGED queue
    /\ pump' \in {pump, PumpIdle}
    /\ UNCHANGED <<main, tunVars, listener, open, conn, pumped, got, forwarded>>

\* client.tx.send(data).await, with the mutex; it fails when the task has ended.
PumpSends ==
    /\ Alive /\ pump.at = "send"
    /\ \/ /\ conn[pump.to] # Ended /\ HasRoom(queue[pump.to])
          /\ queue' = [queue EXCEPT ![pump.to] = Append(@, pump.holds)]
       \/ conn[pump.to] = Ended /\ UNCHANGED queue
    /\ pump' = PumpIdle
    /\ UNCHANGED <<main, tunVars, listener, open, conn, pumped, got, forwarded>>

\* tun_rx.recv() returns None once the TUN task has ended.
PumpEnds ==
    /\ Alive /\ pump = PumpIdle
    /\ tunq = <<>> /\ tun = Ended
    /\ pump' = PumpEnded
    /\ UNCHANGED <<main, tunVars, listener, open, conn, queue, pumped, got, forwarded>>

-----------------------------------------------------------------------------
\* The accept loop and the connection tasks.

\* bind(...).expect(...)
Bind ==
    /\ Alive /\ listener = "binding"
    /\ listener' \in {"listening", "panicked"}
    /\ UNCHANGED <<main, tunVars, open, conn, pump, queue, pumped, got, forwarded>>

Goto(c, from, to) ==
    /\ Alive /\ conn[c] = from
    /\ conn' = [conn EXCEPT ![c] = to]

\* The loop spawns a task for the connection; a failed accept only delays it.
Accept(c) ==
    /\ listener = "listening"
    /\ Goto(c, New, Waiting)
    /\ UNCHANGED <<main, tunVars, listener, open, pump, queue, pumped, got, forwarded>>

ConnReceives(c) ==
    /\ FoldFunction(+, 0, got) < MaxGot
    /\ got' = [got EXCEPT ![c] = @ + 1]
    /\ Goto(c, Waiting, Task("device", got[c] + 1))
    /\ UNCHANGED <<main, tunVars, listener, open, pump, queue, pumped, forwarded>>

\* A variant that gives up when the channel is full.
ConnPasses_Tries(c) ==
    /\ conn[c].at = "device"
    /\ netq' = IF tun # Ended /\ HasRoom(netq) THEN Append(netq, <<c, conn[c].holds>>) ELSE netq
    /\ Goto(c, conn[c], Waiting)
    /\ UNCHANGED <<mode, main, tun, proxy, tunq, directq, replyq, read, accepted, replies, toDevice,
                   listener, open, pump, queue, pumped, got, forwarded>>

\* handle_data: transport_tx.send(payload).await, a failure is logged.
ConnPasses(c) ==
    /\ conn[c].at = "device"
    /\ \/ tun # Ended /\ HasRoom(netq) /\ netq' = Append(netq, <<c, conn[c].holds>>)
       \/ tun = Ended /\ UNCHANGED netq
    /\ Goto(c, conn[c], Waiting)
    /\ UNCHANGED <<mode, main, tun, proxy, tunq, directq, replyq, read, accepted, replies, toDevice,
                   listener, open, pump, queue, pumped, got, forwarded>>

\* A handshake or a Disconnect: its handler waits for the mutex ...
ConnAsksLock(c) ==
    /\ Goto(c, Waiting, Task("lock", None))
    /\ UNCHANGED <<main, tunVars, listener, open, pump, queue, pumped, got, forwarded>>

\* ... and goes on when it has it: a handshake may add an entry for the
\* connection, in the place of another one's, and both may take one away.
ConnGetsLock(c) ==
    /\ LockFree
    /\ Goto(c, Task("lock", None), Waiting)
    /\ \E kept \in SUBSET open : open' \in {kept, kept \cup {c}}
    /\ UNCHANGED <<main, tunVars, listener, pump, queue, pumped, got, forwarded>>

\* client_rx.recv() and the send to the client; a failure ends the loop.
ConnForwards(c) ==
    /\ queue[c] # <<>>
    /\ queue' = [queue EXCEPT ![c] = Tail(@)]
    /\ \/ /\ Goto(c, Waiting, Waiting)
          /\ forwarded' = [forwarded EXCEPT ![c] = Append(@, Head(queue[c]))]
       \/ Goto(c, Waiting, Task("closing", None)) /\ UNCHANGED forwarded
    /\ UNCHANGED <<main, tunVars, listener, open, pump, pumped, got>>

\* The stream ends or fails.
ConnReadEnds(c) ==
    /\ Goto(c, Waiting, Task("closing", None))
    /\ UNCHANGED <<main, tunVars, listener, open, pump, queue, pumped, got, forwarded>>

\* handle_disconnect removes one entry of the connection, if it has any; then
\* the channel is dropped.
ConnCloses(c) ==
    /\ LockFree
    /\ Goto(c, Task("closing", None), Ended)
    /\ open' \in {open, open \ {c}}
    /\ queue' = [queue EXCEPT ![c] = <<>>]
    /\ UNCHANGED <<main, tunVars, listener, pump, pumped, got, forwarded>>

ConnStep ==
    \/ PumpTakes \/ PumpSends \/ PumpEnds \/ Bind
    \/ \E c \in Conn :
          \/ Accept(c) \/ ConnReceives(c) \/ ConnPasses(c) \/ ConnAsksLock(c) \/ ConnGetsLock(c)
          \/ ConnForwards(c) \/ ConnReadEnds(c) \/ ConnCloses(c)

ConnTypeOK ==
    /\ listener \in {"binding", "listening", "panicked"}
    /\ open \subseteq Conn
    /\ conn \in [Conn -> [at : {"new", "select", "lock", "closing", "ended", "device"}, holds : Nat]]
    /\ \A c \in Conn : conn[c] \in {New, Waiting, Ended, Task("lock", None), Task("closing", None),
                                    Task("device", got[c])}
    /\ pump \in {PumpIdle, PumpEnded}
                    \cup {Pump("send", p, c) : p \in 1 .. MaxRead, c \in Conn}
    /\ got \in [Conn -> Nat]
    /\ queue \in [Conn -> Seq(Nat)] /\ \A c \in Conn : Len(queue[c]) <= Capacity
=============================================================================
