------------------------ MODULE ServerSessionsProofs ------------------------
(***************************************************************************)
(* Proofs about ServerSessions for any number of connections, session ids, *)
(* queue capacity and expiry time.                                         *)
(***************************************************************************)
EXTENDS ServerSessions, FiniteSetTheorems, TLAPS

\* A grant that is in use carries the address of the number drawn with its id.
Backed(id, ip) ==
    /\ id \in SessionId
    /\ num[id] # 0
    /\ ip = AddressOf(num[id])

\* The inductive invariant behind the address properties.
AddressInv ==
    /\ nextId >= FirstId
    /\ \A s \in SessionId : num[s] # 0 => FirstId <= num[s] /\ num[s] < nextId
    /\ \A s, t \in SessionId : num[s] # 0 /\ num[s] = num[t] => s = t
    /\ \A r \in sessions : Backed(r.id, r.ip)
    /\ \A c \in Conn : pc[c] \in {"respond", "insert"} => Backed(hs[c].id, hs[c].ip)
    /\ \A c \in Conn : told[c].id # NoId => Backed(told[c].id, told[c].ip)

\* A step is one of the actions.
LEMMA StepCases ==
    ASSUME [Next]_vars
    PROVE  \/ \E c \in Conn, id \in Presentable, token \in Token \cup {NoToken} :
                 RecvHandshake(c, id, token)
           \/ \E c \in Conn : Accept(c)
           \/ \E c \in Conn : PeerCloses(c)
           \/ \E c \in Conn : RecvKeepalive(c)
           \/ \E c \in Conn : RecvData(c)
           \/ \E c \in Conn : RecvDisconnect(c)
           \/ \E c \in Conn : ReadEnds(c)
           \/ \E c \in Conn : Lookup(c)
           \/ \E c \in Conn : Respond(c)
           \/ \E c \in Conn : InsertSession(c)
           \/ \E c \in Conn : Sent(c)
           \/ \E c \in Conn : TakePacket(c)
           \/ \E c \in Conn : ForwardPacket(c)
           \/ \E c \in Conn : Disconnect(c)
           \/ \E c \in Conn : Close(c)
           \/ \E dst \in Octet \cup {NoIP} : TunRecv(dst)
           \/ TunLookup
           \/ TunSend
           \/ Sweep
           \/ Tick
           \/ UNCHANGED vars
BY DEF Next

-----------------------------------------------------------------------------
LEMMA AddressType ==
    ASSUME NEW n \in Nat
    PROVE  AddressOf(n) \in Octet
BY ConstantsAssumption DEF AddressOf, Octet

LEMMA AllocateType ==
    ASSUME TypeOK, NEW c \in Conn, Allocate(c)
    PROVE  /\ num' \in [SessionId -> Nat]
           /\ nextId' \in Nat
           /\ hs' \in [Conn -> Grant]
<1>1. AddressOf(nextId) \in Octet
  BY AddressType DEF TypeOK
<1>. QED
  BY <1>1, ConstantsAssumption DEF TypeOK, Allocate, Grant

LEMMA InitType == Init => TypeOK
BY ConstantsAssumption
DEF Init, TypeOK, PC, NoGrant, Grant, NoIP, TunIdle, TunTask

LEMMA RecvHandshakeType ==
    ASSUME TypeOK, NEW c \in Conn, NEW id \in Presentable,
           NEW token \in Token \cup {NoToken}, RecvHandshake(c, id, token)
    PROVE  TypeOK'
<1>1. /\ num' \in [SessionId -> Nat]
      /\ nextId' \in Nat
      /\ hs' \in [Conn -> Grant]
  <2>1. CASE UNCHANGED <<hs, num, nextId>>
    BY <2>1 DEF TypeOK
  <2>2. CASE Allocate(c)
    BY <2>2, AllocateType
  <2>3. CASE /\ hs' = [hs EXCEPT ![c] = [id |-> id, ip |-> NoIP, seen |-> 0]]
             /\ UNCHANGED <<num, nextId>>
    BY <2>3 DEF TypeOK, Grant, Presentable
  <2>. QED  BY <2>1, <2>2, <2>3 DEF RecvHandshake
<1>2. pc' \in [Conn -> PC]
  BY Zenon DEF TypeOK, RecvHandshake, Goto, PC
<1>3. shakes' \in [Conn -> Nat]
  BY DEF TypeOK, RecvHandshake
<1>. QED
  BY Zenon, <1>1, <1>2, <1>3 DEF TypeOK, RecvHandshake

LEMMA LookupType ==
    ASSUME TypeOK, NEW c \in Conn, Lookup(c)
    PROVE  TypeOK'
<1>1. /\ num' \in [SessionId -> Nat]
      /\ nextId' \in Nat
      /\ hs' \in [Conn -> Grant]
  <2>1. CASE Allocate(c)
    BY <2>1, AllocateType
  <2>2. CASE /\ \E r \in sessions :
                   hs' = [hs EXCEPT ![c] = [id |-> r.id, ip |-> r.ip, seen |-> 0]]
             /\ UNCHANGED <<num, nextId>>
    BY <2>2 DEF TypeOK, Grant, Client
  <2>. QED  BY <2>1, <2>2 DEF Lookup
<1>2. pc' \in [Conn -> PC]
  BY DEF TypeOK, Lookup, Goto, PC
<1>. QED
  BY <1>1, <1>2 DEF TypeOK, Lookup

LEMMA RespondType ==
    ASSUME TypeOK, NEW c \in Conn, Respond(c)
    PROVE  TypeOK'
<1>1. hs[c] \in Grant /\ [id |-> hs[c].id, ip |-> hs[c].ip, seen |-> now] \in Grant
  BY DEF TypeOK, Grant
<1>3. hs' \in [Conn -> Grant]
  BY Zenon, <1>1 DEF TypeOK, Respond
<1>4. told' \in [Conn -> Grant]
  BY Zenon, <1>1 DEF TypeOK, Respond
<1>2. pc' \in [Conn -> PC]
  BY Zenon DEF TypeOK, Respond, Goto, PC
<1>. QED
  BY Zenon, <1>2, <1>3, <1>4 DEF TypeOK, Respond

\* What is inserted is a session only because the handshake was granted.
LEMMA InsertSessionType ==
    ASSUME TypeOK, AddressInv, NEW c \in Conn, InsertSession(c)
    PROVE  TypeOK'
<1>1. Backed(hs[c].id, hs[c].ip)
  BY DEF AddressInv, InsertSession, Goto
<1>2. hs[c].ip \in Octet
  BY Zenon, <1>1, AddressType DEF Backed, TypeOK
<1>3. [id |-> hs[c].id, ip |-> hs[c].ip, conn |-> c, seen |-> hs[c].seen] \in Client
  BY Zenon, <1>1, <1>2 DEF Backed, TypeOK, Grant, Client
<1>4. sessions' \subseteq Client
  BY Zenon, <1>3 DEF TypeOK, InsertSession, Insert
<1>5. pc' \in [Conn -> PC]
  BY DEF TypeOK, InsertSession, Goto, PC
<1>. QED
  BY <1>4, <1>5 DEF TypeOK, InsertSession

LEMMA RemoveType ==
    ASSUME NEW a, RemoveByAddr(a)
    PROVE  sessions' \subseteq sessions
BY DEF RemoveByAddr

LEMMA QueueType ==
    ASSUME TypeOK, NEW c \in Conn
    PROVE  /\ queue[c] # <<>> => /\ Tail(queue[c]) \in Seq(Octet \cup {NoIP})
                                 /\ Len(Tail(queue[c])) <= QueueCap
           /\ \A x \in Octet \cup {NoIP} :
                 /\ Append(queue[c], x) \in Seq(Octet \cup {NoIP})
                 /\ Len(queue[c]) < QueueCap => Len(Append(queue[c], x)) <= QueueCap
<1>1. queue[c] \in Seq(Octet \cup {NoIP}) /\ Len(queue[c]) <= QueueCap
  BY DEF TypeOK
<1>. QED  BY <1>1, ConstantsAssumption

\* The steps of a connection task outside handle_handshake.
LEMMA LoopType ==
    ASSUME TypeOK, NEW c \in Conn,
           \/ Accept(c) \/ PeerCloses(c) \/ RecvKeepalive(c) \/ RecvData(c)
           \/ RecvDisconnect(c) \/ ReadEnds(c) \/ Sent(c) \/ ForwardPacket(c)
           \/ TakePacket(c) \/ Disconnect(c) \/ Close(c)
    PROVE  TypeOK'
<1>1. CASE Accept(c)
  BY Zenon, <1>1 DEF TypeOK, Accept, Goto, PC
<1>2. CASE PeerCloses(c)
  BY Zenon, <1>2 DEF TypeOK, PeerCloses
<1>3. CASE RecvKeepalive(c)
  BY <1>3 DEF TypeOK, RecvKeepalive, Goto, PC
<1>4. CASE RecvData(c) \/ RecvDisconnect(c) \/ ReadEnds(c) \/ Sent(c) \/ ForwardPacket(c)
  BY Zenon, <1>4 DEF TypeOK, RecvData, RecvDisconnect, ReadEnds, Sent, ForwardPacket, Goto, PC
<1>5. CASE TakePacket(c)
  <2>1. queue' \in [Conn -> Seq(Octet \cup {NoIP})]
    BY Zenon, <1>5, QueueType DEF TypeOK, TakePacket
  <2>2. \A d \in Conn : Len(queue'[d]) <= QueueCap
    BY Zenon, <1>5, QueueType DEF TypeOK, TakePacket
  <2>. QED  BY Zenon, <1>5, <2>1, <2>2 DEF TypeOK, TakePacket, Goto, PC
<1>6. CASE Disconnect(c)
  <2>1. sessions' \subseteq sessions
    BY <1>6, RemoveType DEF Disconnect
  <2>2. NoGrant \in Grant
    BY Zenon DEF NoGrant, Grant, NoIP
  <2>. QED  BY Zenon, <1>6, <2>1, <2>2 DEF TypeOK, Disconnect, Goto, PC
<1>7. CASE Close(c)
  <2>1. sessions' \subseteq sessions
    BY Zenon, <1>7, RemoveType DEF Close
  <2>2. /\ queue' \in [Conn -> Seq(Octet \cup {NoIP})]
        /\ \A d \in Conn : Len(queue'[d]) <= QueueCap
    BY <1>7, ConstantsAssumption DEF TypeOK, Close
  <2>. QED  BY Zenon, <1>7, <2>1, <2>2 DEF TypeOK, Close, Goto, PC
<1>. QED  BY Zenon, <1>1, <1>2, <1>3, <1>4, <1>5, <1>6, <1>7

LEMMA TunType ==
    ASSUME TypeOK,
           (\E dst \in Octet \cup {NoIP} : TunRecv(dst)) \/ TunLookup \/ TunSend \/ Sweep \/ Tick
    PROVE  TypeOK'
<1>1. ASSUME NEW dst \in Octet \cup {NoIP}, TunRecv(dst)
      PROVE  TypeOK'
  BY <1>1 DEF TypeOK, TunRecv, TunTask
<1>2. CASE TunLookup
  BY <1>2 DEF TypeOK, TunLookup, TunTask, TunIdle, Client
<1>3. CASE TunSend
  <2>1. tun.to \in Conn /\ tun.dst \in Octet \cup {NoIP}
    BY Zenon, <1>3 DEF TypeOK, TunSend, TunTask
  <2>2. CASE UNCHANGED queue
    BY Zenon, <1>3, <2>2 DEF TypeOK, TunSend, TunTask, TunIdle, NoIP
  <2>3. CASE /\ Len(queue[tun.to]) < QueueCap
             /\ queue' = [queue EXCEPT ![tun.to] = Append(@, tun.dst)]
    <3>1. /\ Append(queue[tun.to], tun.dst) \in Seq(Octet \cup {NoIP})
          /\ Len(Append(queue[tun.to], tun.dst)) <= QueueCap
      BY Zenon, <2>1, <2>3, QueueType
    <3>2. queue' \in [Conn -> Seq(Octet \cup {NoIP})]
      BY Zenon, <2>3, <3>1 DEF TypeOK
    <3>3. \A d \in Conn : Len(queue'[d]) <= QueueCap
      BY <2>3, <3>1 DEF TypeOK
    <3>. QED  BY Zenon, <1>3, <3>2, <3>3 DEF TypeOK, TunSend, TunTask, TunIdle, NoIP
  <2>. QED  BY Zenon, <1>3, <2>2, <2>3 DEF TunSend
<1>4. CASE Sweep \/ Tick
  BY <1>4 DEF TypeOK, Sweep, Tick
<1>. QED  BY <1>1, <1>2, <1>3, <1>4

-----------------------------------------------------------------------------
\* Numbers that differ by less than the octet space have different octets.
LEMMA AddressInjective ==
    ASSUME NEW a \in Nat, NEW b \in Nat, a < b, b - a < OctetSpace
    PROVE  AddressOf(a) # AddressOf(b)
<1>. DEFINE m == OctetSpace
            q == a \div m
            r == b \div m
<1>1. /\ m \in Nat \ {0} /\ q \in Int /\ r \in Int
      /\ a = m * q + (a % m) /\ a % m \in Int
      /\ b = m * r + (b % m) /\ b % m \in Int
  BY ConstantsAssumption
<1>2. SUFFICES ASSUME a % m = b % m PROVE FALSE
  BY DEF AddressOf
<1>. HIDE DEF m, q, r
<1>3. b - a = m * (r - q)
  <2>1. b - a = m * r - m * q
    BY <1>1, <1>2
  <2>2. m * r - m * q = m * (r - q)
    BY <1>1
  <2>. QED  BY <2>1, <2>2
<1>4. CASE r - q >= 1
  <2>1. m * (r - q) >= m
    BY <1>1, <1>4
  <2>. QED  BY <1>1, <1>3, <2>1 DEF m
<1>5. CASE r - q <= 0
  <2>1. m * (r - q) <= 0
    BY <1>1, <1>5
  <2>. QED  BY <1>1, <1>3, <2>1
<1>. QED  BY <1>1, <1>4, <1>5

\* Drawing a number backs the new grant and leaves the others backed.
LEMMA AllocateBacked ==
    ASSUME TypeOK, AddressInv, NEW c \in Conn, Allocate(c)
    PROVE  /\ nextId' >= FirstId
           /\ \A s \in SessionId : num'[s] # 0 => FirstId <= num'[s] /\ num'[s] < nextId'
           /\ \A s, t \in SessionId : num'[s] # 0 /\ num'[s] = num'[t] => s = t
           /\ \A id, ip : Backed(id, ip) => Backed(id, ip)'
           /\ Backed(hs[c].id, hs[c].ip)'
           /\ \A d \in Conn \ {c} : hs'[d] = hs[d]
<1>1. PICK s \in SessionId :
        /\ num[s] = 0
        /\ num' = [num EXCEPT ![s] = nextId]
        /\ nextId' = nextId + 1
        /\ hs' = [hs EXCEPT ![c] = [id |-> s, ip |-> AddressOf(nextId), seen |-> 0]]
  BY Zenon DEF Allocate
<1>2. nextId \in Nat /\ nextId >= FirstId /\ FirstId \in Nat \ {0}
  BY Zenon, ConstantsAssumption DEF TypeOK, AddressInv
<1>3. \A t \in SessionId : num'[t] = IF t = s THEN nextId ELSE num[t]
  BY <1>1 DEF TypeOK
<1>4. nextId' >= FirstId
  BY <1>1, <1>2
<1>5. \A t \in SessionId : num'[t] # 0 => FirstId <= num'[t] /\ num'[t] < nextId'
  <2>. TAKE t \in SessionId
  <2>1. num[t] \in Nat /\ (num[t] # 0 => FirstId <= num[t] /\ num[t] < nextId)
    BY Zenon DEF TypeOK, AddressInv
  <2>. QED  BY <1>1, <1>2, <1>3, <2>1
<1>6. \A t, u \in SessionId : num'[t] # 0 /\ num'[t] = num'[u] => t = u
  <2>. TAKE t, u \in SessionId
  <2>1. /\ num[t] \in Nat /\ (num[t] # 0 => num[t] < nextId)
        /\ num[u] \in Nat /\ (num[u] # 0 => num[u] < nextId)
        /\ num[t] # 0 /\ num[t] = num[u] => t = u
    BY DEF TypeOK, AddressInv
  <2>. QED  BY <1>2, <1>3, <2>1
<1>7. \A id, ip : Backed(id, ip) => Backed(id, ip)'
  BY Zenon, <1>1, <1>3 DEF Backed, AddressOf
<1>8. Backed(hs[c].id, hs[c].ip)'
  <2>1. hs'[c] = [id |-> s, ip |-> AddressOf(nextId), seen |-> 0]
    BY Zenon, <1>1 DEF TypeOK
  <2>. QED  BY <1>2, <1>3, <2>1 DEF Backed, AddressOf
<1>9. \A d \in Conn \ {c} : hs'[d] = hs[d]
  BY Zenon, <1>1 DEF TypeOK
<1>. QED  BY Zenon, <1>4, <1>5, <1>6, <1>7, <1>8, <1>9

\* A step that draws nothing and hands out nothing preserves the invariant.
LEMMA QuietAddress ==
    ASSUME AddressInv,
           UNCHANGED <<num, nextId>>,
           \A r \in sessions' : Backed(r.id, r.ip),
           \A c \in Conn : told'[c].id # NoId => Backed(told'[c].id, told'[c].ip),
           \A c \in Conn : pc'[c] \in {"respond", "insert"} =>
                              Backed(hs'[c].id, hs'[c].ip)
    PROVE  AddressInv'
BY Zenon DEF AddressInv, Backed, AddressOf

LEMMA HandshakeAddress ==
    ASSUME TypeOK, AddressInv, NEW c \in Conn,
           UNCHANGED <<sessions, told>>,
           pc' = [pc EXCEPT ![c] = "respond"],
           Allocate(c)
    PROVE  AddressInv'
<1>1. /\ nextId' >= FirstId
      /\ \A s \in SessionId : num'[s] # 0 => FirstId <= num'[s] /\ num'[s] < nextId'
      /\ \A s, t \in SessionId : num'[s] # 0 /\ num'[s] = num'[t] => s = t
  BY Zenon, AllocateBacked
<1>2. \A r \in sessions' : Backed(r.id, r.ip)'
  BY AllocateBacked DEF AddressInv
<1>3. \A d \in Conn : pc'[d] \in {"respond", "insert"} => Backed(hs[d].id, hs[d].ip)'
  <2>. SUFFICES ASSUME NEW d \in Conn, pc'[d] \in {"respond", "insert"}
                PROVE  Backed(hs[d].id, hs[d].ip)'
    BY Zenon
  <2>1. CASE d = c
    BY Zenon, <2>1, AllocateBacked
  <2>2. CASE d # c
    <3>1. pc[d] \in {"respond", "insert"} /\ hs'[d] = hs[d]
      BY Zenon, <2>2, AllocateBacked DEF TypeOK
    <3>2. Backed(hs[d].id, hs[d].ip)
      BY Zenon, <3>1 DEF AddressInv
    <3>3. \A id, ip : Backed(id, ip) => Backed(id, ip)'
      BY Zenon, AllocateBacked
    <3>. QED  BY Zenon, <3>1, <3>2, <3>3 DEF Backed
  <2>. QED  BY Zenon, <2>1, <2>2
<1>4. \A d \in Conn : told'[d].id # NoId => Backed(told[d].id, told[d].ip)'
  BY Zenon, AllocateBacked DEF AddressInv
<1>. QED  BY Zenon, <1>1, <1>2, <1>3, <1>4 DEF AddressInv

LEMMA AddressStep ==
    ASSUME TypeOK, AddressInv, [Next]_vars
    PROVE  AddressInv'
<1>1. ASSUME NEW c \in Conn, NEW id \in Presentable,
             NEW token \in Token \cup {NoToken}, RecvHandshake(c, id, token)
      PROVE  AddressInv'
  <2>1. CASE Allocate(c) /\ Goto(c, "loop", "respond")
    BY Zenon, <1>1, <2>1, HandshakeAddress DEF RecvHandshake, Goto
  <2>2. CASE UNCHANGED <<num, nextId>>
    <3>1. \A d \in Conn : pc'[d] \in {"respond", "insert"} =>
                              pc'[d] = pc[d] /\ hs'[d] = hs[d]
      <4>1. ~Allocate(c)
        BY <2>2 DEF Allocate, TypeOK
      <4>2. pc' = [pc EXCEPT ![c] = pc'[c]] /\ pc'[c] \in {"loop", "reply", "lookup"}
        BY Zenon, <1>1, <4>1 DEF RecvHandshake, Goto, TypeOK
      <4>3. \A d \in Conn \ {c} : hs'[d] = hs[d]
        BY Zenon, <1>1, <4>1 DEF RecvHandshake, TypeOK
      <4>. QED  BY Zenon, <4>2, <4>3 DEF TypeOK
    <3>. QED
      BY Zenon, <1>1, <2>2, <3>1, QuietAddress DEF RecvHandshake, AddressInv
  <2>. QED  BY <1>1, <2>1, <2>2 DEF RecvHandshake
<1>2. ASSUME NEW c \in Conn, Lookup(c)
      PROVE  AddressInv'
  <2>1. CASE Allocate(c)
    BY Zenon, <1>2, <2>1, HandshakeAddress DEF Lookup, Goto
  <2>2. CASE \E r \in sessions :
               /\ hs' = [hs EXCEPT ![c] = [id |-> r.id, ip |-> r.ip, seen |-> 0]]
               /\ UNCHANGED <<num, nextId>>
    <3>1. PICK r \in sessions :
            /\ hs' = [hs EXCEPT ![c] = [id |-> r.id, ip |-> r.ip, seen |-> 0]]
            /\ UNCHANGED <<num, nextId>>
      BY Zenon, <2>2
    <3>2. \A d \in Conn : pc'[d] \in {"respond", "insert"} =>
                              Backed(hs'[d].id, hs'[d].ip)
      BY Zenon, <1>2, <3>1 DEF Lookup, Goto, TypeOK, AddressInv
    <3>. QED
      BY Zenon, <1>2, <3>1, <3>2, QuietAddress DEF Lookup, AddressInv
  <2>. QED  BY Zenon, <1>2, <2>1, <2>2 DEF Lookup
<1>3. ASSUME NEW c \in Conn, Respond(c)
      PROVE  AddressInv'
  <2>1. \A d \in Conn : told'[d].id # NoId => Backed(told'[d].id, told'[d].ip)
    BY Zenon, <1>3 DEF Respond, Goto, TypeOK, AddressInv
  <2>2. \A d \in Conn : pc'[d] \in {"respond", "insert"} =>
                            Backed(hs'[d].id, hs'[d].ip)
    <3>1. \A d \in Conn : hs'[d].id = hs[d].id /\ hs'[d].ip = hs[d].ip
      <4>. DEFINE g == [id |-> hs[c].id, ip |-> hs[c].ip, seen |-> now]
      <4>1. g.id = hs[c].id /\ g.ip = hs[c].ip
        BY Zenon
      <4>2. hs' = [hs EXCEPT ![c] = g] \/ hs' = hs
        BY <1>3 DEF Respond
      <4>. HIDE DEF g
      <4>. QED  BY Zenon, <4>1, <4>2 DEF TypeOK
    <3>2. \A d \in Conn : pc'[d] \in {"respond", "insert"} =>
                              pc[d] \in {"respond", "insert"}
      BY Zenon, <1>3 DEF Respond, Goto, TypeOK
    <3>. QED  BY <3>1, <3>2 DEF AddressInv
  <2>. QED
    BY Zenon, <1>3, <2>1, <2>2, QuietAddress DEF Respond, AddressInv
<1>4. ASSUME NEW c \in Conn, InsertSession(c)
      PROVE  AddressInv'
  <2>1. Backed(hs[c].id, hs[c].ip)
    BY Zenon, <1>4 DEF InsertSession, Goto, AddressInv
  <2>2. \A r \in sessions' : Backed(r.id, r.ip)
    <3>1. ASSUME NEW r \in sessions'
          PROVE  r \in sessions \/ (r.id = hs[c].id /\ r.ip = hs[c].ip)
      BY <1>4 DEF InsertSession, Insert
    <3>2. \A r \in sessions : Backed(r.id, r.ip)
      BY Zenon DEF AddressInv
    <3>. QED  BY Zenon, <2>1, <3>1, <3>2
  <2>3. \A d \in Conn : pc'[d] \in {"respond", "insert"} =>
                            Backed(hs'[d].id, hs'[d].ip)
    BY Zenon, <1>4 DEF InsertSession, Goto, TypeOK, AddressInv
  <2>. QED
    BY Zenon, <1>4, <2>2, <2>3, QuietAddress DEF InsertSession, AddressInv
<1>5. ASSUME /\ UNCHANGED <<num, nextId, hs>>
             /\ sessions' \subseteq sessions
             /\ \A d \in Conn : told'[d] = told[d] \/ told'[d].id = NoId
             /\ \A d \in Conn : pc'[d] = pc[d] \/ pc'[d] \notin {"respond", "insert"}
      PROVE  AddressInv'
  BY Zenon, <1>5, QuietAddress DEF AddressInv
<1>6. ASSUME NEW c \in Conn,
             \/ Accept(c) \/ PeerCloses(c) \/ RecvKeepalive(c) \/ RecvData(c)
             \/ RecvDisconnect(c) \/ ReadEnds(c) \/ Sent(c) \/ ForwardPacket(c)
             \/ TakePacket(c)
      PROVE  AddressInv'
  BY Zenon, <1>5, <1>6
  DEF Accept, PeerCloses, RecvKeepalive, RecvData, RecvDisconnect, ReadEnds, Sent,
      ForwardPacket, TakePacket, Goto, TypeOK
<1>7. ASSUME NEW c \in Conn, Disconnect(c) \/ Close(c)
      PROVE  AddressInv'
  <2>1. sessions' \subseteq sessions
    BY Zenon, <1>7, RemoveType DEF Disconnect, Close
  <2>2. UNCHANGED <<num, nextId, hs>>
    BY Zenon, <1>7 DEF Disconnect, Close
  <2>3. \A d \in Conn : told'[d] = told[d] \/ told'[d].id = NoId
    <3>1. NoGrant.id = NoId
      BY DEF NoGrant
    <3>2. told' = [told EXCEPT ![c] = NoGrant] \/ told' = told
      BY Zenon, <1>7 DEF Disconnect, Close
    <3>. QED  BY Zenon, <3>1, <3>2 DEF TypeOK
  <2>4. \A d \in Conn : pc'[d] = pc[d] \/ pc'[d] \notin {"respond", "insert"}
    BY Zenon, <1>7 DEF Disconnect, Close, Goto, TypeOK
  <2>. QED  BY Zenon, <1>5, <2>1, <2>2, <2>3, <2>4
<1>8. ASSUME (\E dst \in Octet \cup {NoIP} : TunRecv(dst)) \/ TunLookup \/ TunSend
             \/ Sweep \/ Tick \/ UNCHANGED vars
      PROVE  AddressInv'
  BY Zenon, <1>5, <1>8 DEF TunRecv, TunLookup, TunSend, Sweep, Tick, vars
<1>. QED
  BY Zenon, <1>1, <1>2, <1>3, <1>4, <1>6, <1>7, <1>8, StepCases

LEMMA TypeStep ==
    ASSUME TypeOK, AddressInv, [Next]_vars
    PROVE  TypeOK'
<1>1. CASE UNCHANGED vars
  BY <1>1 DEF TypeOK, vars
<1>. QED
  BY Zenon, <1>1, StepCases, RecvHandshakeType, LookupType, RespondType, InsertSessionType,
     LoopType, TunType

\* Types and the address invariant hold together: an insert has a typed session
\* to insert only because the handshake before it was granted an address.
THEOREM TypeAndAddress == Spec => [](TypeOK /\ AddressInv)
<1>1. Init => TypeOK /\ AddressInv
  <2>1. Init => AddressInv
    BY ConstantsAssumption DEF Init, AddressInv, NoGrant
  <2>. QED  BY Zenon, <2>1, InitType
<1>2. TypeOK /\ AddressInv /\ [Next]_vars => (TypeOK /\ AddressInv)'
  BY AddressStep, TypeStep
<1>. QED  BY <1>1, <1>2, PTL DEF Spec

\* Every reachable state of the server is well typed and no channel exceeds its
\* capacity.
THEOREM TypeCorrect == Spec => []TypeOK
BY TypeAndAddress, PTL

LEMMA HeldBacked ==
    ASSUME TypeOK, AddressInv, NEW g \in Held
    PROVE  Backed(g.id, g.ip)
<1>1. CASE \E r \in sessions : g = [id |-> r.id, ip |-> r.ip]
  BY <1>1 DEF AddressInv
<1>2. CASE \E c \in Conn : pc[c] \in {"respond", "insert"}
                           /\ g = [id |-> hs[c].id, ip |-> hs[c].ip]
  BY <1>2 DEF AddressInv
<1>3. CASE \E c \in Conn : told[c].id # NoId
                           /\ g = [id |-> told[c].id, ip |-> told[c].ip]
  BY <1>3 DEF AddressInv
<1>. QED  BY Zenon, <1>1, <1>2, <1>3 DEF Held

\* A session id stands for one virtual address, whatever happens between the
\* lookup and the insert of a handshake.
THEOREM SessionKeepsAddress == Spec => []OneAddressPerSession
<1>1. TypeOK /\ AddressInv => OneAddressPerSession
  BY HeldBacked DEF OneAddressPerSession, Backed
<1>. QED  BY <1>1, TypeAndAddress, PTL

\* Until the counter has run through the octets, two session ids never hold the
\* same virtual address.
THEOREM AddressesAreUnique == Spec => []UniqueVirtualIP
<1>1. ASSUME TypeOK, AddressInv
      PROVE  UniqueVirtualIP
  <2>. SUFFICES ASSUME nextId <= FirstId + OctetSpace,
                       NEW g \in Held, NEW h \in Held, g.ip = h.ip
                PROVE  g.id = h.id
    BY DEF UniqueVirtualIP
  <2>1. Backed(g.id, g.ip) /\ Backed(h.id, h.ip)
    BY <1>1, HeldBacked
  <2>. DEFINE a == num[g.id]
              b == num[h.id]
  <2>2. /\ a \in Nat /\ b \in Nat /\ FirstId \in Nat /\ OctetSpace \in Nat
        /\ nextId \in Nat
        /\ FirstId <= a /\ a < nextId /\ FirstId <= b /\ b < nextId
        /\ AddressOf(a) = AddressOf(b)
    BY Zenon, <1>1, <2>1, ConstantsAssumption DEF TypeOK, AddressInv, Backed
  <2>3. ~(a < b) /\ ~(b < a)
    <3>. HIDE DEF a, b
    <3>1. a < b => b - a < OctetSpace
      BY <2>2
    <3>2. b < a => a - b < OctetSpace
      BY <2>2
    <3>. QED  BY Zenon, <2>2, <3>1, <3>2, AddressInjective
  <2>4. a = b
    <3>. HIDE DEF a, b
    <3>. QED  BY <2>2, <2>3
  <2>. QED
    BY Zenon, <1>1, <2>1, <2>4 DEF AddressInv, Backed
<1>. QED  BY <1>1, TypeAndAddress, PTL

-----------------------------------------------------------------------------
\* handle_tun_packet sends to the session it found while nobody can take that
\* session away: every change of the table needs the mutex it holds.
THEOREM RoutesAreCurrent == Spec => []RouteIsCurrent
<1>1. Init => RouteIsCurrent
  BY DEF Init, RouteIsCurrent, TunIdle
<1>2. RouteIsCurrent /\ [Next]_vars => RouteIsCurrent'
  <2>. SUFFICES ASSUME RouteIsCurrent, [Next]_vars PROVE RouteIsCurrent'
    OBVIOUS
  <2>1. ASSUME tun.pc = "send", UNCHANGED tun
        PROVE  UNCHANGED sessions
    BY Zenon, <2>1, StepCases
    DEF RecvHandshake, Accept, PeerCloses, RecvKeepalive, RecvData, RecvDisconnect,
        ReadEnds, Lookup, Respond, InsertSession, Sent, TakePacket, ForwardPacket,
        Disconnect, Close, TunRecv, TunLookup, TunSend, Sweep, Tick, LockFree, vars
  <2>2. CASE UNCHANGED tun
    BY <2>1, <2>2 DEF RouteIsCurrent
  <2>3. ASSUME NEW dst \in Octet \cup {NoIP}, TunRecv(dst)
        PROVE  RouteIsCurrent'
    BY Zenon, <2>3 DEF TunRecv, RouteIsCurrent
  <2>4. CASE TunLookup
    BY <2>4 DEF TunLookup, RouteIsCurrent, TunIdle
  <2>5. CASE TunSend
    BY <2>5 DEF TunSend, RouteIsCurrent, TunIdle
  <2>6. UNCHANGED tun \/ (\E dst \in Octet \cup {NoIP} : TunRecv(dst)) \/ TunLookup \/ TunSend
    BY Zenon, StepCases
    DEF RecvHandshake, Accept, PeerCloses, RecvKeepalive, RecvData, RecvDisconnect,
        ReadEnds, Lookup, Respond, InsertSession, Sent, TakePacket, ForwardPacket,
        Disconnect, Close, Sweep, Tick, vars
  <2>. QED  BY Zenon, <2>2, <2>3, <2>4, <2>5, <2>6
<1>. QED  BY <1>1, <1>2, PTL DEF Spec

-----------------------------------------------------------------------------
(***************************************************************************)
(* What becomes of the sessions of a connection, proved for any number of  *)
(* connections, session ids, queue capacity and expiry time: which steps   *)
(* remove one, how many a connection leaves behind, and that a peer can be *)
(* reached under the address it was told.                                  *)
(*                                                                         *)
(* handle_disconnect finds the session to remove by the peer's address.    *)
(* The results therefore assume that no two connections come from one      *)
(* address.  Connections of one listener that are open together never do;  *)
(* a peer that comes back from the port of an earlier connection may.      *)
(***************************************************************************)

\* No two connections come from one address.
DistinctPeers == \A c, d \in Conn : AddrOf[c] = AddrOf[d] => c = d

Handling == {"lookup", "respond", "insert"}

\* The steps, as far as the table and the grants go.  Only the clock goes on, or
\* a connection task moves that neither handles a handshake nor removes a session ...
Still ==
    /\ UNCHANGED <<sessions, hs, told, shakes>>
    /\ now' = now \/ now' = now + 1
    /\ \/ pc' = pc
       \/ \E c \in Conn, p \in {"loop", "reply", "forward", "bye", "closing"} :
             /\ pc[c] \in {"idle", "loop", "reply", "forward", "respond"}
             /\ pc' = [pc EXCEPT ![c] = p]

\* ... a handshake arrives ...
Shakes(c) ==
    /\ pc[c] = "loop"
    /\ shakes' = [shakes EXCEPT ![c] = @ + 1]
    /\ \/ pc' = [pc EXCEPT ![c] = "loop"] /\ hs' = hs
       \/ pc' = [pc EXCEPT ![c] = "reply"] /\ hs' = hs
       \/ /\ pc' = [pc EXCEPT ![c] = "respond"]
          /\ \E s, a : hs' = [hs EXCEPT ![c] = [id |-> s, ip |-> a, seen |-> 0]]
       \/ /\ pc' = [pc EXCEPT ![c] = "lookup"]
          /\ \E s : hs' = [hs EXCEPT ![c] = [id |-> s, ip |-> NoIP, seen |-> 0]]
    /\ UNCHANGED <<sessions, told, now>>

\* ... and is looked up, answered and registered ...
Looks(c) ==
    /\ pc[c] = "lookup" /\ pc' = [pc EXCEPT ![c] = "respond"]
    /\ \E s, a : hs' = [hs EXCEPT ![c] = [id |-> s, ip |-> a, seen |-> 0]]
    /\ UNCHANGED <<sessions, told, shakes, now>>

Responds(c) ==
    /\ pc[c] = "respond" /\ pc' = [pc EXCEPT ![c] = "insert"]
    /\ hs' = [hs EXCEPT ![c] = [id |-> hs[c].id, ip |-> hs[c].ip, seen |-> now]]
    /\ told' = [told EXCEPT ![c] = hs[c]]
    /\ UNCHANGED <<sessions, shakes, now>>

Inserts(c) ==
    /\ pc[c] = "insert" /\ pc' = [pc EXCEPT ![c] = "loop"]
    /\ sessions' = Insert(sessions, [id |-> hs[c].id, ip |-> hs[c].ip,
                                     conn |-> c, seen |-> hs[c].seen])
    /\ UNCHANGED <<hs, told, shakes, now>>

\* ... or sessions are removed.
Leaves(c) ==
    /\ \/ /\ pc[c] = "bye" /\ pc' = [pc EXCEPT ![c] = "loop"]
          /\ told' = [told EXCEPT ![c] = NoGrant]
       \/ /\ pc[c] = "closing" /\ pc' = [pc EXCEPT ![c] = "done"]
          /\ told' = told
    /\ RemoveByAddr(AddrOf[c])
    /\ UNCHANGED <<hs, shakes, now>>

Sweeps ==
    /\ sessions' = {r \in sessions : ~Expired(r)}
    /\ UNCHANGED <<pc, hs, told, shakes, now>>

LEMMA StepEffect ==
    ASSUME TypeOK, [Next]_vars
    PROVE  \/ Still \/ Sweeps
           \/ \E c \in Conn : \/ Shakes(c) \/ Looks(c) \/ Responds(c) \/ Inserts(c) \/ Leaves(c)
<1>1. ASSUME NEW c \in Conn, NEW id \in Presentable,
             NEW token \in Token \cup {NoToken}, RecvHandshake(c, id, token)
      PROVE  Shakes(c)
  BY Zenon, <1>1 DEF RecvHandshake, Goto, Allocate, Shakes
<1>2. ASSUME NEW c \in Conn, Lookup(c)
      PROVE  Looks(c)
  BY Zenon, <1>2 DEF Lookup, Goto, Allocate, Looks
<1>3. ASSUME NEW c \in Conn, Respond(c)
      PROVE  Responds(c) \/ Still
  BY Zenon, <1>3 DEF Respond, Goto, Responds, Still
<1>4. ASSUME NEW c \in Conn, InsertSession(c)
      PROVE  Inserts(c)
  BY Zenon, <1>4 DEF InsertSession, Goto, Inserts
<1>5. ASSUME NEW c \in Conn, Disconnect(c) \/ Close(c)
      PROVE  Leaves(c)
  BY Zenon, <1>5 DEF Disconnect, Close, Goto, Leaves
<1>6. CASE Sweep
  BY Zenon, <1>6 DEF Sweep, Sweeps
<1>7. ASSUME NEW c \in Conn,
             \/ Accept(c) \/ RecvKeepalive(c) \/ RecvData(c) \/ RecvDisconnect(c)
             \/ ReadEnds(c) \/ Sent(c) \/ TakePacket(c) \/ ForwardPacket(c)
      PROVE  Still
  BY Zenon, <1>7
  DEF Accept, RecvKeepalive, RecvData, RecvDisconnect, ReadEnds, Sent, TakePacket,
      ForwardPacket, Goto, Still
<1>8. ASSUME NEW c \in Conn, PeerCloses(c)
      PROVE  Still
  BY Zenon, <1>8 DEF PeerCloses, Still
<1>9. ASSUME NEW dst \in Octet \cup {NoIP}, TunRecv(dst)
      PROVE  Still
  BY Zenon, <1>9 DEF TunRecv, Still
<1>10. CASE TunLookup \/ TunSend \/ Tick
  BY Zenon, <1>10 DEF TunLookup, TunSend, Tick, Still
<1>11. CASE UNCHANGED vars
  <2>1. UNCHANGED <<sessions, hs, told, shakes, pc, now>>
    BY <1>11 DEF vars
  <2>. QED  BY Zenon, <2>1 DEF Still
<1>. QED
  BY Zenon, StepCases, <1>1, <1>2, <1>3, <1>4, <1>5, <1>6, <1>7, <1>8, <1>9, <1>10, <1>11

\* A session removed with its address is one of that connection.
LEMMA OwnRemoval ==
    ASSUME TypeOK, DistinctPeers, NEW c \in Conn, RemoveByAddr(AddrOf[c])
    PROVE  \/ sessions' = sessions /\ \A r \in sessions : r.conn # c
           \/ \E r \in sessions : r.conn = c /\ sessions' = sessions \ {r}
<1>1. \A r \in sessions : r.conn \in Conn
  BY Zenon DEF TypeOK, Client
<1>2. \A r \in sessions : AddrOf[r.conn] = AddrOf[c] <=> r.conn = c
  BY <1>1 DEF DistinctPeers
<1>. QED  BY Zenon, <1>2 DEF RemoveByAddr, WithAddr

\* No connection loses a session through another that leaves, as long as no two
\* have one address.
THEOREM SessionsStay == ASSUME DistinctPeers PROVE Spec => NoStrayRemoval
<1>1. ASSUME TypeOK, [Next]_vars
      PROVE  \A r \in sessions \ sessions' :
                 \/ Expired(r)
                 \/ pc[r.conn] \in {"bye", "closing"} /\ pc'[r.conn] # pc[r.conn]
                 \/ \E q \in sessions' : q.id = r.id
  <2>1. pc \in [Conn -> PC]
    BY <1>1 DEF TypeOK
  <2>2. ASSUME NEW c \in Conn, Inserts(c), NEW r \in sessions \ sessions'
        PROVE  \E q \in sessions' : q.id = r.id
    BY Zenon, <2>2 DEF Inserts, Insert
  <2>3. ASSUME NEW c \in Conn, Leaves(c), NEW r \in sessions \ sessions'
        PROVE  pc[r.conn] \in {"bye", "closing"} /\ pc'[r.conn] # pc[r.conn]
    <3>1. r.conn = c
      BY Zenon, <1>1, <2>3, OwnRemoval DEF Leaves
    <3>. QED  BY Zenon, <2>1, <2>3, <3>1 DEF Leaves
  <2>4. CASE Sweeps
    BY Zenon, <2>4 DEF Sweeps
  <2>5. ASSUME NEW c \in Conn, Shakes(c) \/ Looks(c) \/ Responds(c)
        PROVE  sessions' = sessions
    BY Zenon, <2>5 DEF Shakes, Looks, Responds
  <2>6. Still => sessions' = sessions
    BY Zenon DEF Still
  <2>. QED  BY Zenon, <1>1, <2>2, <2>3, <2>4, <2>5, <2>6, StepEffect
<1>. QED  BY <1>1, TypeCorrect, PTL DEF Spec, NoStrayRemoval

-----------------------------------------------------------------------------
(***************************************************************************)
(* How many sessions a connection has in the table.                        *)
(***************************************************************************)

Of(c) == {r \in sessions : r.conn = c}

\* Every handshake adds at most one session of the connection, and not before it
\* is handled; the end of the connection takes one away.
CountInv ==
    /\ IsFiniteSet(sessions)
    /\ \A c \in Conn :
          /\ Cardinality(Of(c)) <= shakes[c]
          /\ pc[c] \in Handling => Cardinality(Of(c)) < shakes[c]
          /\ pc[c] = "done" /\ shakes[c] > 0 => Cardinality(Of(c)) < shakes[c]

LEMMA CountOf ==
    ASSUME CountInv, NEW c \in Conn
    PROVE  IsFiniteSet(Of(c)) /\ Cardinality(Of(c)) \in Nat
BY Zenon, FS_Subset, FS_CardinalityType DEF CountInv, Of

LEMMA CountShrinks ==
    ASSUME NEW S, IsFiniteSet(S), NEW T \in SUBSET S
    PROVE  /\ IsFiniteSet(T) /\ Cardinality(T) \in Nat /\ Cardinality(S) \in Nat
           /\ Cardinality(T) <= Cardinality(S)
BY Zenon, FS_Subset, FS_CardinalityType

LEMMA CountRemoves ==
    ASSUME NEW S, IsFiniteSet(S), NEW x \in S
    PROVE  /\ Cardinality(S) \in Nat /\ Cardinality(S \ {x}) \in Nat
           /\ Cardinality(S \ {x}) < Cardinality(S)
<1>1. Cardinality(S \ {x}) = Cardinality(S) - 1 /\ IsFiniteSet(S \ {x})
  BY Zenon, FS_RemoveElement
<1>2. Cardinality(S) \in Nat /\ Cardinality(S \ {x}) \in Nat
  BY Zenon, <1>1, FS_CardinalityType
<1>. QED  BY <1>1, <1>2

LEMMA CountAdds ==
    ASSUME NEW S, IsFiniteSet(S), NEW x
    PROVE  /\ IsFiniteSet(S \cup {x})
           /\ Cardinality(S) \in Nat /\ Cardinality(S \cup {x}) \in Nat
           /\ Cardinality(S \cup {x}) <= Cardinality(S) + 1
<1>1. IsFiniteSet(S \cup {x})
      /\ (Cardinality(S \cup {x}) = Cardinality(S)
          \/ Cardinality(S \cup {x}) = Cardinality(S) + 1)
  BY Zenon, FS_AddElement
<1>2. Cardinality(S) \in Nat /\ Cardinality(S \cup {x}) \in Nat
  BY Zenon, <1>1, FS_CardinalityType
<1>. QED  BY <1>1, <1>2

LEMMA CountInit == ASSUME Init PROVE CountInv
<1>1. \A c \in Conn : Of(c) = {}
  BY Zenon DEF Init, Of
<1>2. IsFiniteSet(sessions) /\ Cardinality({}) = 0
  BY FS_EmptySet DEF Init
<1>3. ASSUME NEW c \in Conn
      PROVE  Cardinality(Of(c)) = 0 /\ shakes[c] = 0 /\ pc[c] = "idle"
  BY Zenon, <1>1, <1>2 DEF Init
<1>. QED  BY <1>2, <1>3 DEF CountInv, Handling

\* A step that adds no session and leaves the count of handshakes and the place of
\* a connection alone.
LEMMA CountKept ==
    ASSUME TypeOK, CountInv, sessions' \subseteq sessions, NEW c \in Conn,
           shakes'[c] = shakes[c],
           pc'[c] \in Handling => pc[c] \in Handling,
           pc'[c] = "done" => pc[c] = "done"
    PROVE  /\ Cardinality(Of(c)') <= shakes'[c]
           /\ pc'[c] \in Handling => Cardinality(Of(c)') < shakes'[c]
           /\ pc'[c] = "done" /\ shakes'[c] > 0 => Cardinality(Of(c)') < shakes'[c]
<1>1. Of(c)' \in SUBSET Of(c) /\ IsFiniteSet(Of(c))
  BY Zenon, CountOf DEF Of
<1>2. /\ Cardinality(Of(c)') \in Nat /\ Cardinality(Of(c)) \in Nat
      /\ Cardinality(Of(c)') <= Cardinality(Of(c))
  BY Zenon, <1>1, CountShrinks
<1>3. shakes[c] \in Nat
  BY Zenon DEF TypeOK
<1>. QED  BY <1>2, <1>3 DEF CountInv

LEMMA CountStep ==
    ASSUME TypeOK, CountInv, DistinctPeers, [Next]_vars
    PROVE  CountInv'
<1>0. pc \in [Conn -> PC] /\ shakes \in [Conn -> Nat]
  BY Zenon DEF TypeOK
<1>1. ASSUME Still \/ Sweeps PROVE CountInv'
  <2>1. sessions' \subseteq sessions /\ shakes' = shakes
    BY Zenon, <1>1 DEF Still, Sweeps
  <2>2. IsFiniteSet(sessions')
    BY Zenon, <2>1, FS_Subset DEF CountInv
  <2>3. ASSUME NEW c \in Conn
        PROVE  (pc'[c] \in Handling => pc[c] \in Handling) /\ (pc'[c] = "done" => pc[c] = "done")
    BY Zenon, <1>0, <1>1 DEF Still, Sweeps, Handling
  <2>. QED  BY Zenon, <2>1, <2>2, <2>3, CountKept DEF CountInv
<1>2. ASSUME NEW c \in Conn, Shakes(c) \/ Looks(c) \/ Responds(c) PROVE CountInv'
  <2>1. sessions' = sessions
    BY Zenon, <1>2 DEF Shakes, Looks, Responds
  <2>2. ASSUME NEW d \in Conn
        PROVE  Of(d)' = Of(d) /\ Cardinality(Of(d)) \in Nat
    BY Zenon, <2>1, CountOf DEF Of
  <2>3. ASSUME NEW d \in Conn, d # c
        PROVE  shakes'[d] = shakes[d] /\ pc'[d] = pc[d]
    BY Zenon, <1>0, <1>2, <2>3 DEF Shakes, Looks, Responds
  <2>4. \/ shakes'[c] = shakes[c] + 1 /\ pc'[c] # "done"
        \/ shakes'[c] = shakes[c] /\ pc[c] \in Handling /\ pc'[c] \in Handling
    BY Zenon, <1>0, <1>2 DEF Shakes, Looks, Responds, Handling
  <2>5. /\ Cardinality(Of(c)') <= shakes'[c]
        /\ pc'[c] \in Handling => Cardinality(Of(c)') < shakes'[c]
        /\ pc'[c] = "done" /\ shakes'[c] > 0 => Cardinality(Of(c)') < shakes'[c]
    <3>1. Of(c)' = Of(c) /\ Cardinality(Of(c)) \in Nat /\ shakes[c] \in Nat
      BY Zenon, <1>0, <2>2
    <3>2. /\ Cardinality(Of(c)) <= shakes[c]
          /\ pc[c] \in Handling => Cardinality(Of(c)) < shakes[c]
      BY DEF CountInv
    <3>3. Cardinality(Of(c)') = Cardinality(Of(c))
      BY <3>1
    <3>4. "done" \notin Handling
      BY Zenon DEF Handling
    <3>. QED  BY <2>4, <3>1, <3>2, <3>3, <3>4
  <2>. QED  BY Zenon, <2>1, <2>2, <2>3, <2>5 DEF CountInv
<1>3. ASSUME NEW c \in Conn, Inserts(c) PROVE CountInv'
  <2>. DEFINE new == [id |-> hs[c].id, ip |-> hs[c].ip, conn |-> c, seen |-> hs[c].seen]
  <2>0. sessions' = {r \in sessions : r.id # new.id} \cup {new} /\ new.conn = c
    BY <1>3 DEF Inserts, Insert
  <2>. HIDE DEF new
  <2>1. IsFiniteSet(sessions')
    <3>1. IsFiniteSet({r \in sessions : r.id # new.id})
      BY Zenon, FS_Subset DEF CountInv
    <3>. QED  BY Zenon, <2>0, <3>1, CountAdds
  <2>2. pc[c] = "insert" /\ pc'[c] = "loop" /\ shakes' = shakes
        /\ \A d \in Conn : d # c => pc'[d] = pc[d]
    BY Zenon, <1>0, <1>3 DEF Inserts
  <2>3. ASSUME NEW d \in Conn, d # c
        PROVE  /\ Cardinality(Of(d)') <= shakes'[d]
               /\ pc'[d] \in Handling => Cardinality(Of(d)') < shakes'[d]
               /\ pc'[d] = "done" /\ shakes'[d] > 0 => Cardinality(Of(d)') < shakes'[d]
    <3>1. Of(d)' \in SUBSET Of(d) /\ IsFiniteSet(Of(d))
      BY Zenon, <2>0, <2>3, CountOf DEF Of
    <3>2. /\ Cardinality(Of(d)') \in Nat /\ Cardinality(Of(d)) \in Nat
          /\ Cardinality(Of(d)') <= Cardinality(Of(d))
      BY Zenon, <3>1, CountShrinks
    <3>3. shakes[d] \in Nat /\ shakes'[d] = shakes[d] /\ pc'[d] = pc[d]
      BY Zenon, <1>0, <2>2, <2>3
    <3>. QED  BY <3>2, <3>3 DEF CountInv
  <2>4. /\ Cardinality(Of(c)') <= shakes'[c]
        /\ pc'[c] \notin Handling /\ pc'[c] # "done"
    <3>1. Of(c)' \in SUBSET (Of(c) \cup {new}) /\ IsFiniteSet(Of(c))
      BY Zenon, <2>0, CountOf DEF Of
    <3>2. /\ IsFiniteSet(Of(c) \cup {new})
          /\ Cardinality(Of(c)) \in Nat /\ Cardinality(Of(c) \cup {new}) \in Nat
          /\ Cardinality(Of(c) \cup {new}) <= Cardinality(Of(c)) + 1
      BY Zenon, <3>1, CountAdds
    <3>3. Cardinality(Of(c)') \in Nat /\ Cardinality(Of(c)') <= Cardinality(Of(c) \cup {new})
      BY Zenon, <3>1, <3>2, CountShrinks
    <3>4. Cardinality(Of(c)) < shakes[c]
      BY Zenon, <2>2 DEF CountInv, Handling
    <3>5. shakes[c] \in Nat /\ shakes'[c] = shakes[c]
      BY Zenon, <1>0, <2>2
    <3>. QED  BY <2>2, <3>2, <3>3, <3>4, <3>5 DEF Handling
  <2>. QED  BY Zenon, <2>1, <2>3, <2>4 DEF CountInv
<1>4. ASSUME NEW c \in Conn, Leaves(c) PROVE CountInv'
  <2>1. /\ shakes' = shakes
        /\ pc'[c] \in {"loop", "done"}
        /\ \A d \in Conn : d # c => pc'[d] = pc[d]
    BY Zenon, <1>0, <1>4 DEF Leaves
  <2>2. \/ sessions' = sessions /\ \A r \in sessions : r.conn # c
        \/ \E r \in sessions : r.conn = c /\ sessions' = sessions \ {r}
    BY Zenon, <1>4, OwnRemoval DEF Leaves
  <2>3. sessions' \subseteq sessions
    BY Zenon, <2>2
  <2>4. IsFiniteSet(sessions')
    BY Zenon, <2>3, FS_Subset DEF CountInv
  <2>5. ASSUME NEW d \in Conn, d # c
        PROVE  /\ Cardinality(Of(d)') <= shakes'[d]
               /\ pc'[d] \in Handling => Cardinality(Of(d)') < shakes'[d]
               /\ pc'[d] = "done" /\ shakes'[d] > 0 => Cardinality(Of(d)') < shakes'[d]
    BY Zenon, <2>1, <2>3, <2>5, CountKept
  <2>6. /\ Cardinality(Of(c)') <= shakes'[c]
        /\ shakes'[c] > 0 => Cardinality(Of(c)') < shakes'[c]
    <3>1. shakes[c] \in Nat /\ shakes'[c] = shakes[c] /\ Cardinality(Of(c)) <= shakes[c]
      BY Zenon, <1>0, <2>1 DEF CountInv
    <3>2. IsFiniteSet(Of(c))
      BY Zenon, CountOf
    <3>3. CASE \A r \in sessions' : r.conn # c
      <4>1. Of(c)' = {}
        BY Zenon, <3>3 DEF Of
      <4>2. Cardinality(Of(c)') = 0
        BY Zenon, <4>1, FS_EmptySet
      <4>. QED  BY <3>1, <4>2
    <3>4. ASSUME NEW r \in sessions, r.conn = c, sessions' = sessions \ {r}
          PROVE  /\ Cardinality(Of(c)') <= shakes'[c]
                 /\ shakes'[c] > 0 => Cardinality(Of(c)') < shakes'[c]
      <4>1. Of(c)' = Of(c) \ {r} /\ r \in Of(c)
        BY Zenon, <3>4 DEF Of
      <4>2. /\ Cardinality(Of(c)) \in Nat /\ Cardinality(Of(c) \ {r}) \in Nat
            /\ Cardinality(Of(c) \ {r}) < Cardinality(Of(c))
        BY Zenon, <3>2, <4>1, CountRemoves
      <4>. QED  BY <3>1, <4>1, <4>2
    <3>. QED  BY Zenon, <2>2, <3>3, <3>4
  <2>7. pc'[c] \notin Handling
    BY <2>1 DEF Handling
  <2>. QED  BY Zenon, <2>4, <2>5, <2>6, <2>7 DEF CountInv
<1>. QED  BY Zenon, <1>1, <1>2, <1>3, <1>4, StepEffect

\* A connection that has ended leaves fewer sessions in the table than it did
\* handshakes, as long as no two connections have one address: handle_disconnect
\* finds one of its own.
THEOREM FewAreLeft == ASSUME DistinctPeers PROVE Spec => []FewOrphanSessions
<1>1. TypeOK /\ CountInv /\ [Next]_vars => CountInv'
  BY Zenon, CountStep
<1>2. CountInv => FewOrphanSessions
  BY Zenon DEF CountInv, FewOrphanSessions, Of
<1>. QED  BY <1>1, <1>2, CountInit, TypeCorrect, PTL DEF Spec

-----------------------------------------------------------------------------
(***************************************************************************)
(* Who was told an address can be reached under it.                        *)
(***************************************************************************)

\* Nothing in the table is younger than the clock, who was granted something has
\* done a handshake, and a grant is registered as it was told.
GrantOf(c) ==
    /\ hs[c].seen <= now
    /\ hs[c].ip # NoIP \/ pc[c] \in Handling => shakes[c] > 0
    /\ pc[c] = "lookup" => hs[c].ip = NoIP
    /\ pc[c] = "insert" => hs[c].id = told[c].id /\ hs[c].ip = told[c].ip

GrantInv ==
    /\ \A r \in sessions : r.seen <= now
    /\ \A c \in Conn : GrantOf(c)

\* The conclusion of RegisteredIsRoutable.
Routable(c) ==
    \/ \E r \in sessions : r.id = told[c].id /\ r.ip = told[c].ip /\ r.conn = c
    \/ \E d \in Conn \ {c} : shakes[d] > 1 \/ (hs[d].id = told[c].id /\ hs[d].ip # NoIP)
    \/ now >= Expiry

\* It also holds while the next handshake of the connection is being handled.
RouteInv ==
    /\ GrantInv
    /\ \A c \in Conn :
          pc[c] \notin {"insert", "closing", "done"} /\ told[c].id # NoId => Routable(c)

LEMMA RouteInit == ASSUME Init PROVE RouteInv
BY DEF Init, RouteInv, GrantInv, GrantOf, NoGrant, Handling

LEMMA RouteTypes ==
    ASSUME TypeOK
    PROVE  /\ pc \in [Conn -> PC] /\ shakes \in [Conn -> Nat]
           /\ hs \in [Conn -> Grant] /\ told \in [Conn -> Grant]
           /\ sessions \in SUBSET Client /\ now \in Nat
BY Zenon DEF TypeOK

LEMMA GrantKept ==
    ASSUME NEW d, GrantOf(d), now' = now,
           hs'[d] = hs[d], pc'[d] = pc[d], shakes'[d] = shakes[d], told'[d] = told[d]
    PROVE  GrantOf(d)'
BY Zenon DEF GrantOf

LEMMA GrantStep ==
    ASSUME TypeOK, GrantInv, [Next]_vars
    PROVE  GrantInv'
<1>0. /\ pc \in [Conn -> PC] /\ shakes \in [Conn -> Nat]
      /\ hs \in [Conn -> Grant] /\ told \in [Conn -> Grant]
      /\ sessions \in SUBSET Client /\ now \in Nat
  BY Zenon, RouteTypes
<1>1. /\ \A r \in sessions : r.seen \in Nat
      /\ \A c \in Conn : hs[c].seen \in Nat
  BY Zenon, <1>0 DEF Grant, Client
<1>2. CASE Still
  <2>1. /\ \A d \in Conn : pc'[d] = pc[d] \/ pc'[d] \notin Handling
        /\ UNCHANGED <<sessions, hs, told, shakes>>
        /\ now' = now \/ now' = now + 1
    BY Zenon, <1>0, <1>2 DEF Still, Handling
  <2>2. ASSUME NEW d \in Conn PROVE GrantOf(d)'
    <3>1. GrantOf(d) /\ hs[d].seen \in Nat
      BY Zenon, <1>1 DEF GrantInv
    <3>. QED  BY <1>0, <2>1, <3>1 DEF GrantOf, Handling
  <2>3. \A r \in sessions : r.seen <= now'
    BY <1>0, <1>1, <2>1 DEF GrantInv
  <2>. QED  BY Zenon, <2>1, <2>2, <2>3 DEF GrantInv
<1>3. CASE Sweeps
  <2>1. \A d \in Conn : GrantOf(d)'
    BY Zenon, <1>3, GrantKept DEF Sweeps, GrantInv
  <2>. QED  BY Zenon, <1>3, <2>1 DEF Sweeps, GrantInv
<1>4. ASSUME NEW c \in Conn, Shakes(c) \/ Looks(c) \/ Responds(c) PROVE GrantInv'
  <2>1. sessions' = sessions /\ now' = now
    BY <1>4 DEF Shakes, Looks, Responds
  <2>2. ASSUME NEW d \in Conn, d # c PROVE GrantOf(d)'
    <3>1. hs'[d] = hs[d] /\ pc'[d] = pc[d] /\ shakes'[d] = shakes[d] /\ told'[d] = told[d]
      BY Zenon, <1>0, <1>4, <2>2 DEF Shakes, Looks, Responds
    <3>. QED  BY Zenon, <2>1, <3>1, GrantKept DEF GrantInv
  <2>3. GrantOf(c) /\ shakes[c] \in Nat
    BY <1>0 DEF GrantInv
  <2>4. ASSUME Shakes(c) PROVE GrantOf(c)'
    <3>1. shakes'[c] > 0
      BY <1>0, <2>4 DEF Shakes
    <3>2. hs'[c].seen <= now'
      BY <1>0, <2>1, <2>3, <2>4 DEF Shakes, GrantOf
    <3>3. pc'[c] # "insert" /\ (pc'[c] = "lookup" => hs'[c].ip = NoIP)
      BY <1>0, <2>4 DEF Shakes
    <3>. QED  BY Zenon, <3>1, <3>2, <3>3 DEF GrantOf
  <2>5. ASSUME Looks(c) PROVE GrantOf(c)'
    <3>1. shakes'[c] > 0
      BY Zenon, <2>3, <2>5 DEF Looks, GrantOf, Handling
    <3>2. hs'[c].seen = 0 /\ pc'[c] = "respond"
      BY <1>0, <2>5 DEF Looks
    <3>3. hs'[c].seen <= now'
      BY <1>0, <2>1, <3>2
    <3>4. pc'[c] # "lookup" /\ pc'[c] # "insert"
      BY <3>2
    <3>. QED  BY Zenon, <3>1, <3>3, <3>4 DEF GrantOf
  <2>6. ASSUME Responds(c) PROVE GrantOf(c)'
    <3>1. shakes'[c] > 0
      BY Zenon, <2>3, <2>6 DEF Responds, GrantOf, Handling
    <3>2. /\ hs'[c].seen = now /\ pc'[c] = "insert"
          /\ hs'[c].id = told'[c].id /\ hs'[c].ip = told'[c].ip
      BY Zenon, <1>0, <2>6 DEF Responds
    <3>3. hs'[c].seen <= now'
      BY <1>0, <2>1, <3>2
    <3>4. pc'[c] # "lookup"
      BY <3>2
    <3>. QED  BY Zenon, <3>1, <3>2, <3>3, <3>4 DEF GrantOf
  <2>7. GrantOf(c)'
    BY Zenon, <1>4, <2>4, <2>5, <2>6
  <2>. QED  BY Zenon, <2>1, <2>2, <2>7 DEF GrantInv
<1>5. ASSUME NEW c \in Conn, Inserts(c) \/ Leaves(c) PROVE GrantInv'
  <2>1. \A r \in sessions' : r \in sessions \/ r.seen = hs[c].seen
    BY <1>5 DEF Inserts, Insert, Leaves, RemoveByAddr, WithAddr
  <2>2. UNCHANGED <<hs, shakes, now>>
    BY Zenon, <1>5 DEF Inserts, Leaves
  <2>3. /\ pc'[c] \notin Handling
        /\ \A d \in Conn : d # c => pc'[d] = pc[d] /\ told'[d] = told[d]
    BY Zenon, <1>0, <1>5 DEF Inserts, Leaves, Handling
  <2>4. ASSUME NEW d \in Conn, d # c PROVE GrantOf(d)'
    BY Zenon, <2>2, <2>3, <2>4, GrantKept DEF GrantInv
  <2>5. GrantOf(c) /\ GrantOf(c)'
    BY Zenon, <2>2, <2>3 DEF GrantInv, GrantOf, Handling
  <2>6. \A r \in sessions' : r.seen <= now'
    BY Zenon, <2>1, <2>2, <2>5 DEF GrantInv, GrantOf
  <2>. QED  BY Zenon, <2>4, <2>5, <2>6 DEF GrantInv
<1>. QED  BY Zenon, <1>2, <1>3, <1>4, <1>5, StepEffect

\* A connection stays the holder of what it was granted until its next handshake.
LEMMA GrantsStay ==
    ASSUME TypeOK, GrantInv, [Next]_vars, NEW d \in Conn
    PROVE  /\ now' \in Nat /\ now' >= now
           /\ shakes'[d] \in Nat /\ shakes'[d] >= shakes[d]
           /\ hs[d].ip # NoIP => \/ shakes'[d] > 1
                                 \/ hs'[d].id = hs[d].id /\ hs'[d].ip = hs[d].ip
<1>0. /\ pc \in [Conn -> PC] /\ shakes \in [Conn -> Nat]
      /\ hs \in [Conn -> Grant] /\ now \in Nat
  BY Zenon, RouteTypes
<1>1. CASE Still \/ Sweeps
  BY <1>0, <1>1 DEF Still, Sweeps
<1>2. ASSUME NEW c \in Conn, Shakes(c)
      PROVE  /\ now' = now
             /\ shakes'[d] \in Nat /\ shakes'[d] >= shakes[d]
             /\ hs[d].ip # NoIP => shakes'[d] > 1 \/ hs'[d] = hs[d]
  <2>0. hs[d].ip # NoIP => shakes[d] > 0
    BY Zenon DEF GrantInv, GrantOf
  <2>1. CASE d = c
    <3>1. shakes'[d] = shakes[d] + 1 /\ shakes[d] \in Nat /\ now' = now
      BY Zenon, <1>0, <1>2, <2>1 DEF Shakes
    <3>. QED  BY <2>0, <3>1
  <2>2. CASE d # c
    <3>1. shakes'[d] = shakes[d] /\ shakes[d] \in Nat /\ hs'[d] = hs[d] /\ now' = now
      BY Zenon, <1>0, <1>2, <2>2 DEF Shakes
    <3>. QED  BY <3>1
  <2>. QED  BY Zenon, <2>1, <2>2
<1>3. ASSUME NEW c \in Conn, Looks(c)
      PROVE  /\ now' = now /\ shakes' = shakes
             /\ hs[d].ip # NoIP => hs'[d] = hs[d]
  <2>1. hs[c].ip = NoIP
    BY Zenon, <1>3 DEF Looks, GrantInv, GrantOf
  <2>2. d # c => hs'[d] = hs[d]
    BY Zenon, <1>0, <1>3 DEF Looks
  <2>. QED  BY Zenon, <1>3, <2>1, <2>2 DEF Looks
<1>4. ASSUME NEW c \in Conn, Responds(c)
      PROVE  /\ now' = now /\ shakes' = shakes
             /\ hs'[d].id = hs[d].id /\ hs'[d].ip = hs[d].ip
  BY Zenon, <1>0, <1>4 DEF Responds
<1>5. ASSUME NEW c \in Conn, Inserts(c) \/ Leaves(c)
      PROVE  now' = now /\ shakes' = shakes /\ hs' = hs
  BY Zenon, <1>5 DEF Inserts, Leaves
<1>. QED  BY <1>0, <1>1, <1>2, <1>3, <1>4, <1>5, StepEffect

\* The session of a connection that is not leaving is replaced only by one with
\* the same id, and swept only when it is old.
LEMMA SessionStays ==
    ASSUME TypeOK, AddressInv, GrantInv, DistinctPeers, [Next]_vars,
           NEW c \in Conn, ~Leaves(c), ~Inserts(c),
           NEW r \in sessions, r.conn = c
    PROVE  \/ r \in sessions'
           \/ \E d \in Conn \ {c} : hs'[d].id = r.id /\ hs'[d].ip # NoIP
           \/ now >= Expiry
<1>0. now \in Nat /\ r.seen \in Nat
  BY Zenon, RouteTypes DEF Client
<1>1. CASE Sweeps
  <2>1. r.seen <= now
    BY Zenon DEF GrantInv
  <2>2. Expired(r) => now >= Expiry
    BY <1>0, <2>1, ConstantsAssumption DEF Expired
  <2>. QED  BY Zenon, <1>1, <2>2 DEF Sweeps
<1>2. ASSUME NEW d \in Conn, Inserts(d), r \notin sessions'
      PROVE  d # c /\ hs'[d].id = r.id /\ hs'[d].ip # NoIP
  <2>1. d # c /\ hs' = hs /\ pc[d] = "insert" /\ hs[d].id = r.id
    BY Zenon, <1>2 DEF Inserts, Insert
  <2>2. Backed(hs[d].id, hs[d].ip)
    BY Zenon, <2>1 DEF AddressInv
  <2>3. hs[d].ip \in Octet
    BY Zenon, <2>2, AddressType DEF Backed, TypeOK
  <2>4. hs[d].ip # NoIP
    BY <2>3, ConstantsAssumption DEF Octet, NoIP
  <2>. QED  BY Zenon, <2>1, <2>4
<1>3. ASSUME NEW d \in Conn, Leaves(d)
      PROVE  r \in sessions'
  <2>1. d # c
    BY Zenon, <1>3
  <2>. QED  BY Zenon, <1>3, <2>1, OwnRemoval DEF Leaves
<1>4. Still => sessions' = sessions
  BY DEF Still
<1>5. ASSUME NEW d \in Conn, Shakes(d) \/ Looks(d) \/ Responds(d)
      PROVE  sessions' = sessions
  BY Zenon, <1>5 DEF Shakes, Looks, Responds
<1>. QED  BY Zenon, <1>1, <1>2, <1>3, <1>4, <1>5, StepEffect

LEMMA RoutableStays ==
    ASSUME TypeOK, AddressInv, GrantInv, DistinctPeers, [Next]_vars,
           NEW c \in Conn, ~Leaves(c), ~Inserts(c), told'[c] = told[c], Routable(c)
    PROVE  Routable(c)'
<1>0. now \in Nat /\ now' \in Nat /\ now' >= now /\ Expiry \in Nat
  BY Zenon, RouteTypes, GrantsStay, ConstantsAssumption
<1>1. ASSUME NEW r \in sessions, r.id = told[c].id, r.ip = told[c].ip, r.conn = c
      PROVE  Routable(c)'
  <2>1. \/ r \in sessions'
        \/ \E d \in Conn \ {c} : hs'[d].id = r.id /\ hs'[d].ip # NoIP
        \/ now >= Expiry
    BY Zenon, <1>1, SessionStays
  <2>2. r.id = told'[c].id /\ r.ip = told'[c].ip
    BY Zenon, <1>1
  <2>3. CASE r \in sessions'
    BY Zenon, <1>1, <2>2, <2>3 DEF Routable
  <2>4. ASSUME NEW d \in Conn \ {c}, hs'[d].id = r.id, hs'[d].ip # NoIP
        PROVE  Routable(c)'
    BY Zenon, <2>2, <2>4 DEF Routable
  <2>5. CASE now >= Expiry
    BY <1>0, <2>5 DEF Routable
  <2>. QED  BY Zenon, <2>1, <2>3, <2>4, <2>5
<1>2. ASSUME NEW d \in Conn \ {c}, shakes[d] > 1 \/ (hs[d].id = told[c].id /\ hs[d].ip # NoIP)
      PROVE  Routable(c)'
  <2>1. shakes[d] \in Nat /\ shakes'[d] \in Nat /\ shakes'[d] >= shakes[d]
    BY Zenon, RouteTypes, GrantsStay
  <2>2. hs[d].ip # NoIP => \/ shakes'[d] > 1
                           \/ hs'[d].id = hs[d].id /\ hs'[d].ip = hs[d].ip
    BY Zenon, GrantsStay
  <2>3. shakes[d] > 1 => shakes'[d] > 1
    BY <2>1
  <2>4. shakes'[d] > 1 \/ (hs'[d].id = told'[c].id /\ hs'[d].ip # NoIP)
    BY Zenon, <1>2, <2>2, <2>3
  <2>. QED  BY Zenon, <2>4 DEF Routable
<1>3. CASE now >= Expiry
  BY <1>0, <1>3 DEF Routable
<1>. QED  BY Zenon, <1>1, <1>2, <1>3 DEF Routable

LEMMA RouteStep ==
    ASSUME TypeOK, AddressInv, RouteInv, DistinctPeers, [Next]_vars
    PROVE  RouteInv'
<1>0. pc \in [Conn -> PC] /\ told \in [Conn -> Grant]
  BY Zenon, RouteTypes
<1>1. GrantInv'
  BY Zenon, GrantStep DEF RouteInv
<1>2. SUFFICES ASSUME NEW c \in Conn, pc'[c] \notin {"insert", "closing", "done"},
                      told'[c].id # NoId
               PROVE  Routable(c)'
  BY Zenon, <1>1 DEF RouteInv
<1>3. CASE Inserts(c)
  <2>1. hs[c].id = told[c].id /\ hs[c].ip = told[c].ip
    BY Zenon, <1>3 DEF RouteInv, GrantInv, GrantOf, Inserts
  <2>2. /\ told' = told
        /\ [id |-> hs[c].id, ip |-> hs[c].ip, conn |-> c, seen |-> hs[c].seen] \in sessions'
    BY Zenon, <1>3 DEF Inserts, Insert
  <2>. QED  BY Zenon, <2>1, <2>2 DEF Routable
<1>4. CASE Leaves(c)
  <2>1. pc'[c] = "done" \/ told'[c].id = NoId
    BY <1>0, <1>4 DEF Leaves, NoGrant
  <2>. QED  BY Zenon, <1>2, <2>1
<1>5. CASE ~Inserts(c) /\ ~Leaves(c)
  <2>1. /\ told'[c] = told[c]
        /\ pc[c] \notin {"insert", "closing", "done"}
    <3>1. CASE Still
      BY Zenon, <1>0, <1>2, <3>1 DEF Still
    <3>2. CASE Sweeps
      BY Zenon, <1>2, <3>2 DEF Sweeps
    <3>3. ASSUME NEW d \in Conn, Shakes(d)
          PROVE  told' = told /\ pc[c] \notin {"insert", "closing", "done"}
      BY Zenon, <1>0, <1>2, <3>3 DEF Shakes
    <3>4. ASSUME NEW d \in Conn, Looks(d)
          PROVE  told' = told /\ pc[c] \notin {"insert", "closing", "done"}
      BY Zenon, <1>0, <1>2, <3>4 DEF Looks
    <3>5. ASSUME NEW d \in Conn, Responds(d)
          PROVE  told'[c] = told[c] /\ pc[c] \notin {"insert", "closing", "done"}
      BY Zenon, <1>0, <1>2, <3>5 DEF Responds
    <3>6. ASSUME NEW d \in Conn, d # c, Inserts(d) \/ Leaves(d)
          PROVE  told'[c] = told[c] /\ pc[c] \notin {"insert", "closing", "done"}
      BY Zenon, <1>0, <1>2, <3>6 DEF Inserts, Leaves
    <3>. QED  BY Zenon, <1>5, <3>1, <3>2, <3>3, <3>4, <3>5, <3>6, StepEffect
  <2>2. Routable(c) /\ GrantInv
    BY Zenon, <1>2, <2>1 DEF RouteInv
  <2>. QED  BY Zenon, <1>5, <2>1, <2>2, RoutableStays
<1>. QED  BY Zenon, <1>3, <1>4, <1>5

\* A peer that was told an address is reachable under it, whatever the other
\* connections do meanwhile, unless one of them was given the same session id or
\* the table may have been swept; no two connections have one address.
THEOREM GrantedIsRoutable == ASSUME DistinctPeers PROVE Spec => []RegisteredIsRoutable
<1>1. TypeOK /\ AddressInv /\ RouteInv /\ [Next]_vars => RouteInv'
  BY Zenon, RouteStep
<1>2. RouteInv => RegisteredIsRoutable
  BY DEF RouteInv, RegisteredIsRoutable, Routable
<1>. QED  BY <1>1, <1>2, RouteInit, TypeAndAddress, PTL DEF Spec
=============================================================================
