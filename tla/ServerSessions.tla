--------------------------- MODULE ServerSessions ---------------------------
(***************************************************************************)
(* The session table of the server and the tasks that share it: one task   *)
(* per accepted TCP or WebSocket connection (handle_tcp_connection,        *)
(* handle_ws_connection), the task that routes packets read from the TUN   *)
(* device to connections (handle_tun_packet) and the task that sweeps      *)
(* expired sessions (cleanup_expired_sessions).                            *)
(*                                                                         *)
(* A step of a task is the code between two awaits.  SESSIONS is a mutex   *)
(* around a map; every critical section but one contains no await and is   *)
(* therefore one step that needs the mutex to be free.  The exception is   *)
(* handle_tun_packet, which awaits a bounded channel with the mutex held.  *)
(***************************************************************************)
EXTENDS Integers, Sequences, FiniteSets

CONSTANTS
    Conn,           \* accepted connections, one element per connection ever made
    AddrOf,         \* the peer address of each connection
    SessionId,      \* the identifiers build_session_id may draw
    NoId,           \* the empty session id of a handshake
    NoConn,         \* no connection
    Token,          \* non-empty tokens
    NoToken,        \* the empty token
    ServerToken,    \* server.token of the configuration
    FirstId,        \* initial value of NEXT_CLIENT_ID (2)
    OctetSpace,     \* number of values of the last address octet (256)
    QueueCap,       \* capacity of a connection's channel (4096)
    Expiry,         \* age at which a session is swept (3600 s)
    MaxTime,        \* bound: the clock stops there
    MaxPackets,     \* bound: packets read from the TUN device
    MaxHandshakes   \* bound: Handshake messages per connection

ASSUME ConstantsAssumption ==
    /\ NoId \notin SessionId
    /\ NoConn \notin Conn
    /\ NoToken \notin Token
    /\ ServerToken \in Token \cup {NoToken}
    /\ FirstId \in Nat \ {0}
    /\ OctetSpace \in Nat \ {0}
    /\ QueueCap \in Nat \ {0}
    /\ Expiry \in Nat \ {0}
    /\ {MaxTime, MaxPackets, MaxHandshakes} \subseteq Nat

VARIABLES
    sessions,   \* SESSIONS: a set of Client records with distinct ids
    nextId,     \* NEXT_CLIENT_ID
    num,        \* history: the client number drawn with each session id, 0 if none
    pc,         \* where each connection task is
    hs,         \* the locals of the latest handshake handled by each connection task
    told,       \* the grant the peer was sent and has not given back
    shakes,     \* Handshake messages received on the connection
    up,         \* whether the peer's end of the connection is still open
    queue,      \* the channel client_tx/client_rx of the connection
    tun,        \* the task running handle_tun_packet
    packets,    \* packets read from the TUN device so far
    now         \* the wall clock

vars == <<sessions, nextId, num, pc, hs, told, shakes, up, queue, tun,
          packets, now>>

Octet == 0 .. OctetSpace - 1

\* No address: the destination of a packet that is not IPv4 or too short.
NoIP == -1

\* The locals session_id and virtual_ip of handle_handshake, and last_seen of
\* the Client it builds.
Grant == [id : SessionId \cup {NoId}, ip : Octet \cup {NoIP}, seen : Nat]

NoGrant == [id |-> NoId, ip |-> NoIP, seen |-> 0]

\* struct Client.  addr and tx are those of the connection that did the handshake.
Client == [id : SessionId, ip : Octet, conn : Conn, seen : Nat]

PC == {"idle", "loop", "lookup", "respond", "insert", "reply", "forward", "bye",
       "closing", "done"}

TunTask == [pc : {"recv", "lock", "send"}, dst : Octet \cup {NoIP},
            to : Conn \cup {NoConn}]

TunIdle == [pc |-> "recv", dst |-> NoIP, to |-> NoConn]

Init ==
    /\ sessions = {}
    /\ nextId = FirstId
    /\ num = [s \in SessionId |-> 0]
    /\ pc = [c \in Conn |-> "idle"]
    /\ hs = [c \in Conn |-> NoGrant]
    /\ told = [c \in Conn |-> NoGrant]
    /\ shakes = [c \in Conn |-> 0]
    /\ up = [c \in Conn |-> FALSE]
    /\ queue = [c \in Conn |-> <<>>]
    /\ tun = TunIdle
    /\ packets = 0
    /\ now = 0

-----------------------------------------------------------------------------
(***************************************************************************)
(* Operations on the session map.                                          *)
(***************************************************************************)

\* A variant that gives up the lock before the send.
LockFree_BeforeSend == TRUE

\* The mutex is only ever held across an await by handle_tun_packet.
LockFree == tun.pc # "send"

\* HashMap::insert: the entry of the same key is replaced.
Insert(map, client) == {r \in map : r.id # client.id} \cup {client}

\* A variant that forgets to compare addresses.
WithAddr_Any(map, a) == map

\* The entries handle_disconnect may find: it removes the first one it meets.
WithAddr(map, a) == {r \in map : AddrOf[r.conn] = a}

\* duration_since fails, and the age counts as infinite, when the clock went back.
Expired(r) == now < r.seen \/ now - r.seen >= Expiry

\* Variants: no truncation to an octet, and an octet that avoids 0.
AddressOf_Wide(n) == n
AddressOf_SkipZero(n) == IF n % OctetSpace = 0 THEN 1 ELSE n % OctetSpace

\* The octet of allocate_virtual_ip: client_id as u8.
AddressOf(n) == n % OctetSpace

\* validate_token, reached only with a non-empty token.
ValidToken(token) == ServerToken = NoToken \/ token = ServerToken

-----------------------------------------------------------------------------
(***************************************************************************)
(* Connection task: handle_handshake.                                      *)
(***************************************************************************)
Goto(c, from, to) ==
    /\ pc[c] = from
    /\ pc' = [pc EXCEPT ![c] = to]

\* A variant that keeps the id a peer presented when it is not in the table.
Allocate_KeepsId(c) ==
    \E s \in SessionId :
        /\ IF pc[c] = "lookup" THEN s = hs[c].id ELSE num[s] = 0
        /\ num' = [num EXCEPT ![s] = nextId]
        /\ nextId' = nextId + 1
        /\ hs' = [hs EXCEPT ![c] = [id |-> s, ip |-> AddressOf(nextId), seen |-> 0]]

\* build_session_id and allocate_virtual_ip.
Allocate(c) ==
    \E s \in SessionId :
        /\ num[s] = 0
        /\ num' = [num EXCEPT ![s] = nextId]
        /\ nextId' = nextId + 1
        /\ hs' = [hs EXCEPT ![c] = [id |-> s, ip |-> AddressOf(nextId), seen |-> 0]]

\* A Handshake arrives.  The configuration is read again: if that fails the
\* handler returns without an answer.  A wrong token is answered by an empty
\* handshake; an empty token or session id counts as not provided.
RecvHandshake(c, id, token) ==
    /\ shakes[c] < MaxHandshakes
    /\ shakes' = [shakes EXCEPT ![c] = @ + 1]
    /\ \/ Goto(c, "loop", "loop") /\ UNCHANGED <<hs, num, nextId>>
       \/ /\ token # NoToken /\ ~ValidToken(token)
          /\ Goto(c, "loop", "reply")
          /\ UNCHANGED <<hs, num, nextId>>
       \/ /\ token = NoToken \/ ValidToken(token)
          /\ IF id = NoId
             THEN Goto(c, "loop", "respond") /\ Allocate(c)
             ELSE /\ Goto(c, "loop", "lookup")
                  /\ hs' = [hs EXCEPT ![c] = [id |-> id, ip |-> NoIP, seen |-> 0]]
                  /\ UNCHANGED <<num, nextId>>
    /\ UNCHANGED <<sessions, told, up, queue, tun, packets, now>>

\* The critical section that looks the provided id up.
Lookup(c) ==
    /\ LockFree
    /\ Goto(c, "lookup", "respond")
    /\ IF \E r \in sessions : r.id = hs[c].id
       THEN /\ \E r \in sessions :
                  /\ r.id = hs[c].id
                  /\ hs' = [hs EXCEPT ![c] = [id |-> r.id, ip |-> r.ip, seen |-> 0]]
            /\ UNCHANGED <<num, nextId>>
       ELSE Allocate(c)
    /\ UNCHANGED <<sessions, told, shakes, up, queue, tun, packets, now>>

\* The response is sent before the session is inserted, and last_seen is read
\* before the mutex is awaited.  A failed send ends the handler: the address it
\* drew is not used again.
Respond(c) ==
    /\ \/ /\ Goto(c, "respond", "insert")
          /\ hs' = [hs EXCEPT ![c] = [id |-> hs[c].id, ip |-> hs[c].ip, seen |-> now]]
          /\ told' = [told EXCEPT ![c] = hs[c]]
       \/ /\ ~up[c]
          /\ Goto(c, "respond", "loop")
          /\ UNCHANGED <<hs, told>>
    /\ UNCHANGED <<sessions, nextId, num, shakes, up, queue, tun, packets, now>>

InsertSession(c) ==
    /\ LockFree
    /\ Goto(c, "insert", "loop")
    /\ sessions' = Insert(sessions, [id |-> hs[c].id, ip |-> hs[c].ip,
                                     conn |-> c, seen |-> hs[c].seen])
    /\ UNCHANGED <<nextId, num, hs, told, shakes, up, queue, tun, packets, now>>

-----------------------------------------------------------------------------
(***************************************************************************)
(* Connection task: the other branches of the select loop.                 *)
(***************************************************************************)
Accept(c) ==
    /\ \A d \in Conn : up[d] => AddrOf[d] # AddrOf[c]
    /\ Goto(c, "idle", "loop")
    /\ up' = [up EXCEPT ![c] = TRUE]
    /\ UNCHANGED <<sessions, nextId, num, hs, told, shakes, queue, tun, packets,
                   now>>

\* The peer closes, crashes or resets; the task may learn of it much later.
PeerCloses(c) ==
    /\ up[c]
    /\ up' = [up EXCEPT ![c] = FALSE]
    /\ UNCHANGED <<sessions, nextId, num, pc, hs, told, shakes, queue, tun,
                   packets, now>>

RecvKeepalive(c) ==
    /\ Goto(c, "loop", "reply")
    /\ UNCHANGED <<sessions, nextId, num, hs, told, shakes, up, queue, tun,
                   packets, now>>

RecvData(c) ==
    /\ Goto(c, "loop", "reply")
    /\ UNCHANGED <<sessions, nextId, num, hs, told, shakes, up, queue, tun,
                   packets, now>>

RecvDisconnect(c) ==
    /\ Goto(c, "loop", "bye")
    /\ UNCHANGED <<sessions, nextId, num, hs, told, shakes, up, queue, tun,
                   packets, now>>

\* The end of an awaited send whose result is only logged: the empty handshake
\* of a rejection, the echo of a keepalive, the hand-over to the TUN writer.
Sent(c) ==
    /\ Goto(c, "reply", "loop")
    /\ UNCHANGED <<sessions, nextId, num, hs, told, shakes, up, queue, tun,
                   packets, now>>

\* client_rx.recv() takes a packet.
TakePacket(c) ==
    /\ queue[c] # <<>>
    /\ Goto(c, "loop", "forward")
    /\ queue' = [queue EXCEPT ![c] = Tail(@)]
    /\ UNCHANGED <<sessions, nextId, num, hs, told, shakes, up, tun, packets,
                   now>>

\* The packet is written to the connection, or the write fails and the loop ends.
ForwardPacket(c) ==
    /\ \/ Goto(c, "forward", "loop")
       \/ ~up[c] /\ Goto(c, "forward", "closing")
    /\ UNCHANGED <<sessions, nextId, num, hs, told, shakes, up, queue, tun,
                   packets, now>>

\* The stream ended, failed, or held a frame that does not decode.
ReadEnds(c) ==
    /\ Goto(c, "loop", "closing")
    /\ UNCHANGED <<sessions, nextId, num, hs, told, shakes, up, queue, tun,
                   packets, now>>

\* A variant that removes nothing.
RemoveByAddr_Never(a) == UNCHANGED sessions

\* handle_disconnect: the mutex, then the removal of one session of that address.
RemoveByAddr(a) ==
    IF WithAddr(sessions, a) = {}
    THEN UNCHANGED sessions
    ELSE \E r \in WithAddr(sessions, a) : sessions' = sessions \ {r}

\* handle_disconnect on a Disconnect message: the loop goes on.
Disconnect(c) ==
    /\ LockFree
    /\ Goto(c, "bye", "loop")
    /\ RemoveByAddr(AddrOf[c])
    /\ told' = [told EXCEPT ![c] = NoGrant]
    /\ UNCHANGED <<nextId, num, hs, shakes, up, queue, tun, packets, now>>

\* handle_disconnect after the loop; the socket and client_rx are dropped
\* only when it has returned.
Close(c) ==
    /\ LockFree
    /\ Goto(c, "closing", "done")
    /\ RemoveByAddr(AddrOf[c])
    /\ up' = [up EXCEPT ![c] = FALSE]
    /\ queue' = [queue EXCEPT ![c] = <<>>]
    /\ UNCHANGED <<nextId, num, hs, told, shakes, tun, packets, now>>

-----------------------------------------------------------------------------
(***************************************************************************)
(* The tasks of the TUN side and of the sweep.                             *)
(***************************************************************************)
TunRecv(dst) ==
    /\ tun.pc = "recv"
    /\ packets < MaxPackets
    /\ packets' = packets + 1
    /\ tun' = [pc |-> "lock", dst |-> dst, to |-> NoConn]
    /\ UNCHANGED <<sessions, nextId, num, pc, hs, told, shakes, up, queue, now>>

\* With the mutex: find a session of the destination.  The mutex is released
\* at once when there is none and kept for the send when there is one.
TunLookup ==
    /\ tun.pc = "lock"
    /\ IF \E r \in sessions : r.ip = tun.dst
       THEN \E r \in sessions :
               /\ r.ip = tun.dst
               /\ tun' = [pc |-> "send", dst |-> tun.dst, to |-> r.conn]
       ELSE tun' = TunIdle
    /\ UNCHANGED <<sessions, nextId, num, pc, hs, told, shakes, up, queue,
                   packets, now>>

\* client.tx.send: waits while the channel is full, fails once the receiver
\* is dropped; then the mutex is released.
TunSend ==
    /\ tun.pc = "send"
    /\ \/ /\ pc[tun.to] = "done"
          /\ UNCHANGED queue
       \/ /\ pc[tun.to] # "done"
          /\ Len(queue[tun.to]) < QueueCap
          /\ queue' = [queue EXCEPT ![tun.to] = Append(@, tun.dst)]
    /\ tun' = TunIdle
    /\ UNCHANGED <<sessions, nextId, num, pc, hs, told, shakes, up, packets, now>>

Sweep ==
    /\ LockFree
    /\ sessions' = {r \in sessions : ~Expired(r)}
    /\ UNCHANGED <<nextId, num, pc, hs, told, shakes, up, queue, tun, packets,
                   now>>

Tick ==
    /\ now < MaxTime
    /\ now' = now + 1
    /\ UNCHANGED <<sessions, nextId, num, pc, hs, told, shakes, up, queue, tun,
                   packets>>

-----------------------------------------------------------------------------
\* Peers present no id, or one this server issued.
Presentable == {NoId} \cup {s \in SessionId : num[s] # 0}

Next ==
    \/ \E c \in Conn, id \in Presentable, token \in Token \cup {NoToken} :
          RecvHandshake(c, id, token)
    \/ \E c \in Conn :
          \/ Accept(c) \/ PeerCloses(c) \/ RecvKeepalive(c) \/ RecvData(c)
          \/ RecvDisconnect(c) \/ ReadEnds(c)
          \/ Lookup(c) \/ Respond(c) \/ InsertSession(c) \/ Sent(c)
          \/ TakePacket(c) \/ ForwardPacket(c) \/ Disconnect(c) \/ Close(c)
    \/ \E dst \in Octet \cup {NoIP} : TunRecv(dst)
    \/ TunLookup \/ TunSend \/ Sweep \/ Tick

Spec == Init /\ [][Next]_vars

\* Steps a connection task owes: everything but the arrival of messages.
TaskStep(c) ==
    \/ Lookup(c) \/ Respond(c) \/ InsertSession(c) \/ Sent(c)
    \/ TakePacket(c) \/ ForwardPacket(c) \/ Disconnect(c) \/ Close(c)
    \/ ~up[c] /\ ReadEnds(c)

\* The runtime polls every runnable task, its mutex queues waiters in order,
\* and select! picks among ready branches at random, so a step that is enabled
\* again and again is taken.  Writes to a peer are assumed to end.
Fairness ==
    /\ \A c \in Conn : SF_vars(TaskStep(c))
    /\ WF_vars(TunLookup)
    /\ WF_vars(TunSend)

FairSpec == Spec /\ Fairness

-----------------------------------------------------------------------------
(***************************************************************************)
(* Properties.                                                             *)
(***************************************************************************)

\* Every variable has its type; channels stay within their capacity.
TypeOK ==
    /\ sessions \subseteq Client
    /\ nextId \in Nat
    /\ num \in [SessionId -> Nat]
    /\ pc \in [Conn -> PC]
    /\ hs \in [Conn -> Grant]
    /\ told \in [Conn -> Grant]
    /\ shakes \in [Conn -> Nat]
    /\ up \in [Conn -> BOOLEAN]
    /\ queue \in [Conn -> Seq(Octet \cup {NoIP})]
    /\ \A c \in Conn : Len(queue[c]) <= QueueCap
    /\ tun \in TunTask
    /\ tun.pc = "send" => tun.to \in Conn
    /\ packets \in Nat
    /\ now \in Nat

\* Everything that ties a session id to a virtual address: stored sessions,
\* handshakes between lookup and insert, and what peers were told.
Held ==
    {[id |-> r.id, ip |-> r.ip] : r \in sessions}
    \cup {[id |-> hs[c].id, ip |-> hs[c].ip] :
            c \in {d \in Conn : pc[d] \in {"respond", "insert"}}}
    \cup {[id |-> told[c].id, ip |-> told[c].ip] :
            c \in {d \in Conn : told[d].id # NoId}}

\* Until the client counter has run through all octets, no two session ids
\* hold the same virtual address, in whatever order handshakes, disconnects
\* and sweeps interleave (allocate_virtual_ip, handle_handshake).
UniqueVirtualIP ==
    nextId <= FirstId + OctetSpace =>
        \A g, h \in Held : g.ip = h.ip => g.id = h.id

\* A session id stands for one virtual address for ever, also when the session
\* is removed between the lookup and the insert of a reconnecting handshake.
OneAddressPerSession ==
    \A g, h \in Held : g.id = h.id => g.ip = h.ip

\* A session is removed only by the sweep, by its own connection's disconnect,
\* or to be replaced under the same id.  So the late disconnect of a dead
\* connection leaves alone a session that a newer connection took over
\* (handle_disconnect compares addresses; peers have distinct addresses here).
NoStrayRemoval ==
    [][\A r \in sessions \ sessions' :
         \/ Expired(r)
         \/ pc[r.conn] \in {"bye", "closing"} /\ pc'[r.conn] # pc[r.conn]
         \/ \E q \in sessions' : q.id = r.id]_vars

\* A connection whose task has ended leaves fewer sessions behind than it did
\* handshakes: none to which the router could send after the single handshake of
\* a client of the repository, though handle_disconnect removes only one session
\* and runs while other connections take sessions over (peers have distinct
\* addresses here).
FewOrphanSessions ==
    \A c \in Conn :
        pc[c] = "done" /\ shakes[c] > 0 =>
            Cardinality({r \in sessions : r.conn = c}) < shakes[c]

\* While handle_tun_packet waits for room in a channel, the session it found is
\* still in the map and still belongs to that connection.
RouteIsCurrent ==
    tun.pc = "send" =>
        \E r \in sessions : r.ip = tun.dst /\ r.conn = tun.to

\* A connection back in its loop whose peer was told an address is reachable
\* under it, unless another connection was given the same session id (hs tells,
\* until that connection handshakes again) or the server has been up long enough
\* for a sweep to expire something.
RegisteredIsRoutable ==
    \A c \in Conn :
        pc[c] \in {"loop", "reply", "forward"} /\ told[c].id # NoId =>
            \/ \E r \in sessions : r.id = told[c].id /\ r.ip = told[c].ip /\ r.conn = c
            \/ \E d \in Conn \ {c} : shakes[d] > 1 \/ (hs[d].id = told[c].id /\ hs[d].ip # NoIP)
            \/ now >= Expiry

\* A handshake the server has started to handle is finished: the client that
\* reconnects is answered and registered.
HandshakeFinishes ==
    \A c \in Conn : pc[c] \in {"lookup", "respond", "insert"} ~> pc[c] = "loop"
=============================================================================
