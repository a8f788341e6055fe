--------------------------- MODULE UdpTunnelProofs ---------------------------
(***************************************************************************)
(* Proofs about UdpTunnel for any number of clients, session ids, attempts,*)
(* octets, restarts and hours: what a step may do to the network, to a     *)
(* client and to the table of the server; whose an id is, and which        *)
(* address goes with it.                                                   *)
(***************************************************************************)
EXTENDS UdpTunnel, TLAPS

Asked == net \cap Request

Answered == net \cap Answer

\* No session has the id; once an id was drawn this stays so.
Lost(id) == \A r \in sessions : r.id # id

-----------------------------------------------------------------------------
\* The network.

\* What a message can be is told from its fields.
LEMMA Kinds ==
    /\ \A m \in Request : "from" \in DOMAIN m /\ "to" \notin DOMAIN m
    /\ \A m \in Answer \cup Packet : "to" \in DOMAIN m /\ "from" \notin DOMAIN m
    /\ \A m \in Answer : m.type = "handshake"
    /\ \A m \in Packet : m.type = "data"
BY DEF Request, Answer, Packet

LEMMA NetKinds ==
    ASSUME TypeOK
    PROVE  /\ Requests = Asked
           /\ \A c \in Client : \A m \in ArrivedAt(Here(c)) :
                 /\ m.to = Here(c)
                 /\ Usable(m) => m \in Answered
BY Kinds DEF TypeOK, Requests, Asked, ArrivedAt, Usable, Answered

LEMMA SendRequest ==
    ASSUME NEW m \in Request, Send(m)
    PROVE  Asked' = Asked \cup {m} /\ Answered' = Answered
BY Kinds DEF Send, Asked, Answered

LEMMA SendAnswer ==
    ASSUME NEW m \in Answer, Send(m)
    PROVE  Asked' = Asked /\ Answered' = Answered \cup {m}
BY Kinds DEF Send, Asked, Answered

LEMMA SendPacket ==
    ASSUME NEW m \in Packet, Send(m)
    PROVE  Asked' = Asked /\ Answered' = Answered
BY Kinds DEF Send, Asked, Answered

LEMMA SendType ==
    ASSUME net \subseteq Request \cup Answer \cup Packet,
           NEW m \in Request \cup Answer \cup Packet, Send(m)
    PROVE  (net \subseteq Request \cup Answer \cup Packet)'
BY DEF Send, Request, Answer, Packet

\* The fields of the messages that are under way.
LEMMA Fields ==
    /\ \A m \in Asked : /\ m \in Request /\ m.from \in Address /\ m.from[1] \in Client
                        /\ m.from[2] \in 1 .. MaxAttempts
                        /\ m.id \in SessionId \cup {NoId} /\ m.token \in AnyToken
    /\ \A m \in Answered : /\ m \in Answer /\ m.to \in Address /\ m.to[1] \in Client
                           /\ m.to[2] \in 1 .. MaxAttempts
                           /\ m.id \in SessionId \cup {NoId} /\ m.ip \in Octet \cup {NoIP}
BY DEF Asked, Answered, Request, Answer, Address

LEMMA AddressType ==
    ASSUME NEW n \in Nat
    PROVE  AddressOf(n) \in Octet
BY DatagramsAssumption DEF AddressOf, Octet

-----------------------------------------------------------------------------
\* What a step of the client c may change, and to what.
ClientStep(c) ==
    \/ Start(c) \/ Attempt(c) \/ Timeout(c) \/ EmptyFile(c) \/ WriteFile(c)
    \/ CreateDevice(c) \/ TunnelEnds(c) \/ Retry(c) \/ Crash(c)
    \/ \E m \in ArrivedAt(Here(c)) : RecvAnswer(c, m)

LEMMA RequestMade ==
    ASSUME TypeOK, NEW c \in Client, sock[c] < MaxAttempts
    PROVE  [type |-> "handshake", from |-> <<c, sock[c] + 1>>, id |-> base[c],
            token |-> ClientToken] \in Request
<1>1. sock[c] + 1 \in 1 .. MaxAttempts
  BY DatagramsAssumption DEF TypeOK, ClientTypeOK
<1>. QED  BY <1>1, ClientAssumption DEF Request, Address, TypeOK, ClientTypeOK

LEMMA ClientTypes ==
    ASSUME TypeOK, NEW c \in Client, ClientStep(c), UNCHANGED serverVars
    PROVE  TypeOK'
<1>0. TypeOK' <=> ((net \subseteq Request \cup Answer \cup Packet)' /\ ClientTypeOK')
  BY Zenon DEF TypeOK, ServerTypeOK, serverVars, Session, Octet, Address
<1>1. CASE Start(c)
  BY <1>0, <1>1, ClientAssumption
  DEF Start, Goto, Loaded, Phase, TypeOK, ClientTypeOK, Request, Answer, Packet
<1>2. CASE Attempt(c)
  <2>1. (net \subseteq Request \cup Answer \cup Packet)'
    BY <1>2, RequestMade, SendType DEF Attempt, TypeOK, Request, Answer, Packet
  <2>2. sock' \in [Client -> 0 .. MaxAttempts]
    BY <1>2, DatagramsAssumption DEF Attempt, TypeOK, ClientTypeOK
  <2>. QED  BY Zenon, <1>0, <1>2, <2>1, <2>2 DEF Attempt, Goto, Phase, TypeOK, ClientTypeOK
<1>3. CASE Timeout(c) \/ CreateDevice(c) \/ TunnelEnds(c) \/ Crash(c)
  <2>1. phase' \in [Client -> Phase] /\ UNCHANGED <<net, file, base, cfg, ip, sock, delay>>
    BY Zenon, <1>3 DEF Timeout, CreateDevice, TunnelEnds, Crash, Goto, Phase, TypeOK, ClientTypeOK
  <2>. QED  BY <1>0, <2>1 DEF TypeOK, ClientTypeOK, Request, Answer, Packet
<1>4. CASE EmptyFile(c) \/ WriteFile(c)
  <2>1. /\ phase' \in [Client -> Phase] /\ file' \in [Client -> SessionId \cup {NoId, Torn}]
        /\ UNCHANGED <<net, base, cfg, ip, sock, delay>>
    BY <1>4 DEF EmptyFile, WriteFile, Goto, Phase, TypeOK, ClientTypeOK
  <2>. QED  BY <1>0, <2>1 DEF TypeOK, ClientTypeOK, Request, Answer, Packet
<1>5. CASE Retry(c)
  <2>1. /\ phase' \in [Client -> Phase] /\ delay' \in [Client -> 1 .. MaxDelay]
        /\ UNCHANGED <<net, file, base, cfg, ip, sock>>
    BY <1>5, ClientAssumption DEF Retry, Goto, Phase, TypeOK, ClientTypeOK
  <2>. QED  BY <1>0, <2>1 DEF TypeOK, ClientTypeOK, Request, Answer, Packet
<1>6. ASSUME NEW m \in ArrivedAt(Here(c)), RecvAnswer(c, m)
      PROVE  TypeOK'
  <2>1. Usable(m) => m.id \in SessionId \cup {NoId} /\ m.ip \in Octet \cup {NoIP}
    BY NetKinds, Fields
  <2>2. /\ phase' \in [Client -> Phase] /\ cfg' \in [Client -> SessionId \cup {NoId}]
        /\ ip' \in [Client -> Octet \cup {NoIP}]
        /\ UNCHANGED <<net, file, base, sock, delay>>
    BY <1>6, <2>1 DEF RecvAnswer, Goto, Phase, TypeOK, ClientTypeOK
  <2>. QED  BY <1>0, <2>2 DEF TypeOK, ClientTypeOK, Request, Answer, Packet
<1>. QED  BY <1>1, <1>2, <1>3, <1>4, <1>5, <1>6 DEF ClientStep

\* The answer of a handshake, and the session it inserts.
Grant(m, id, i) ==
    [type |-> "handshake", to |-> m.from, id |-> id, ip |-> i, token |-> ServerToken]

Entry(m, id, i) == [id |-> id, ip |-> i, addr |-> m.from, aged |-> FALSE]

\* The effect of Admit: nothing, or an answer and a session with the same
\* id and address for the address the request came from.
Admits(m, id, i) ==
    /\ Asked' = Asked
    /\ \/ UNCHANGED <<net, sessions, Answered>>
       \/ /\ Send(Grant(m, id, i))
          /\ Answered' = Answered \cup {Grant(m, id, i)}
          /\ sessions' = {r \in sessions : r.id # id} \cup {Entry(m, id, i)}

LEMMA AdmitEffect ==
    ASSUME NEW m \in Asked, NEW id \in SessionId, NEW i \in Octet, Admit(m, id, i)
    PROVE  /\ Grant(m, id, i) \in Answer
           /\ Entry(m, id, i) \in Session
           /\ Admits(m, id, i)
<1>1. Grant(m, id, i) \in Answer
  BY Fields, ServerAssumption DEF Grant, Answer
<1>2. Entry(m, id, i) \in Session
  BY Fields DEF Entry, Session
<1>3. CASE UNCHANGED <<net, sessions>>
  BY <1>1, <1>2, <1>3 DEF Admits, Asked, Answered
<1>4. CASE Send(Grant(m, id, i)) /\ sessions' = {r \in sessions : r.id # id} \cup {Entry(m, id, i)}
  BY <1>1, <1>2, <1>4, SendAnswer DEF Admits
<1>. QED  BY <1>3, <1>4 DEF Admit, Grant, Entry

\* A known id is answered with the address of its session ...
LEMMA ResumeEffect ==
    ASSUME TypeOK, NEW m \in Asked, Resume(m)
    PROVE  \E r \in sessions : r \in Session /\ r.id = m.id /\ Admits(m, r.id, r.ip)
<1>1. PICK r \in sessions : r.id = m.id /\ Admit(m, r.id, r.ip)
  BY DEF Resume
<1>2. r \in Session /\ r.id \in SessionId /\ r.ip \in Octet
  BY DEF TypeOK, ServerTypeOK, Session
<1>. QED  BY <1>1, <1>2, AdmitEffect

\* ... and any other with one that was not drawn before.
LEMMA RegisterEffect ==
    ASSUME TypeOK, NEW m \in Asked, Register(m)
    PROVE  /\ Lost(m.id)
           /\ nextId' = nextId + 1
           /\ \E s \in SessionId :
                 /\ drawn[s] = 0
                 /\ drawn' = [drawn EXCEPT ![s] = nextId]
                 /\ Admits(m, s, AddressOf(nextId))
<1>1. PICK s \in SessionId :
          /\ drawn[s] = 0
          /\ drawn' = [drawn EXCEPT ![s] = nextId]
          /\ nextId' = nextId + 1
          /\ Admit(m, s, AddressOf(nextId))
  BY Zenon DEF Register
<1>2. AddressOf(nextId) \in Octet
  BY AddressType DEF TypeOK, ServerTypeOK
<1>3. Admits(m, s, AddressOf(nextId))
  BY <1>1, <1>2, AdmitEffect
<1>4. Lost(m.id)
  BY DEF Register, Lost
<1>. QED  BY Zenon, <1>1, <1>3, <1>4

LEMMA RejectionMade ==
    ASSUME NEW m \in Asked
    PROVE  Rejection(m) \in Answer /\ Rejection(m).id = NoId /\ Rejection(m).ip = NoIP
BY Fields DEF Rejection, Answer, AnyToken

LEMMA AdmitsType ==
    ASSUME TypeOK, NEW m \in Asked, NEW id \in SessionId, NEW i \in Octet, Admits(m, id, i)
    PROVE  (net \subseteq Request \cup Answer \cup Packet)' /\ (sessions \subseteq Session)'
<1>1. Grant(m, id, i) \in Answer
  BY Fields, ServerAssumption DEF Grant, Answer
<1>2. Entry(m, id, i) \in Session
  BY Zenon, Fields DEF Entry, Session
<1>3. (net \subseteq Request \cup Answer \cup Packet)'
  BY <1>1, SendType DEF Admits, TypeOK, Request, Answer, Packet
<1>4. (sessions \subseteq Session)'
  BY <1>2 DEF Admits, TypeOK, ServerTypeOK, Session
<1>. QED  BY <1>3, <1>4

LEMMA ServerTypes ==
    ASSUME TypeOK, ServerNext, UNCHANGED clientVars
    PROVE  TypeOK'
<1>0. TypeOK' <=> ((net \subseteq Request \cup Answer \cup Packet)' /\ ServerTypeOK')
  BY Zenon DEF TypeOK, ClientTypeOK, clientVars, Octet
<1>1. ASSUME NEW m \in Asked, Resume(m), UNCHANGED <<restarts, hours>>
      PROVE  TypeOK'
  <2>1. PICK r \in sessions : r \in Session /\ r.id = m.id /\ Admits(m, r.id, r.ip)
    BY <1>1, ResumeEffect
  <2>2. r.id \in SessionId /\ r.ip \in Octet
    BY <2>1 DEF Session
  <2>3. (net \subseteq Request \cup Answer \cup Packet)' /\ (sessions \subseteq Session)'
    BY <2>1, <2>2, AdmitsType
  <2>. QED  BY <1>0, <1>1, <2>3 DEF Resume, TypeOK, ServerTypeOK
<1>2. ASSUME NEW m \in Asked, Register(m), UNCHANGED <<restarts, hours>>
      PROVE  TypeOK'
  <2>1. PICK s \in SessionId :
            drawn' = [drawn EXCEPT ![s] = nextId] /\ Admits(m, s, AddressOf(nextId))
    BY <1>2, RegisterEffect
  <2>2. AddressOf(nextId) \in Octet /\ nextId' \in Nat
    BY <1>2, AddressType, RegisterEffect DEF TypeOK, ServerTypeOK
  <2>3. (net \subseteq Request \cup Answer \cup Packet)' /\ (sessions \subseteq Session)'
    BY <2>1, <2>2, AdmitsType
  <2>4. drawn' \in [SessionId -> Nat]
    BY Zenon, <2>1 DEF TypeOK, ServerTypeOK
  <2>. QED  BY <1>0, <1>2, <2>2, <2>3, <2>4 DEF TypeOK, ServerTypeOK
<1>3. ASSUME NEW m \in Asked, Reject(m), UNCHANGED <<restarts, hours>>
      PROVE  TypeOK'
  <2>1. (net \subseteq Request \cup Answer \cup Packet)'
    BY Zenon, <1>3, RejectionMade, SendType DEF Reject, TypeOK
  <2>. QED  BY Zenon, <1>0, <1>3, <2>1 DEF Reject, TypeOK, ServerTypeOK, Session, Octet, Address
<1>4. ASSUME NEW i \in Octet, RoutePacket(i)
      PROVE  TypeOK'
  <2>1. PICK r \in sessions : Send([type |-> "data", to |-> r.addr])
    BY <1>4 DEF RoutePacket
  <2>2. [type |-> "data", to |-> r.addr] \in Packet
    BY DEF Packet, TypeOK, ServerTypeOK, Session
  <2>3. (net \subseteq Request \cup Answer \cup Packet)'
    BY Zenon, <2>1, <2>2, SendType DEF TypeOK
  <2>. QED
    BY <1>0, <1>4, <2>3 DEF RoutePacket, serverVars, TypeOK, ServerTypeOK, Session, Octet, Address
<1>5. CASE HourPasses
  <2>1. (sessions \subseteq Session)'
    <3>1. \A r \in Session :
              [id |-> r.id, ip |-> r.ip, addr |-> r.addr, aged |-> TRUE] \in Session
      BY DEF Session
    <3>2. \A r \in sessions' : r \in Session
      BY Zenon, <1>5, <3>1 DEF HourPasses, TypeOK, ServerTypeOK
    <3>. QED  BY <3>2 DEF Session, Octet, Address
  <2>2. hours' \in 0 .. MaxHours
    BY <1>5, ServerAssumption DEF HourPasses, TypeOK, ServerTypeOK
  <2>. QED
    BY <1>0, <1>5, <2>1, <2>2 DEF HourPasses, TypeOK, ServerTypeOK, Request, Answer, Packet
<1>6. CASE SweepAged
  BY Zenon, <1>0, <1>6 DEF SweepAged, TypeOK, ServerTypeOK, Session, Request, Answer, Packet
<1>7. CASE RestartServer
  <2>1. restarts' \in 0 .. MaxRestarts
    BY <1>7, ServerAssumption DEF RestartServer, TypeOK, ServerTypeOK
  <2>. QED
    BY <1>0, <1>7, <2>1, ServerAssumption
    DEF RestartServer, TypeOK, ServerTypeOK, Session, Request, Answer, Packet
<1>. QED
  BY Zenon, <1>1, <1>2, <1>3, <1>4, <1>5, <1>6, <1>7, NetKinds DEF ServerNext, ServeHandshake

-----------------------------------------------------------------------------
\* What a step of the client c does: it may send a request from a new socket with
\* the id it loaded; ids and addresses only move between its own variables, or
\* come from an answer to it.
ClientEffect(c) ==
    /\ UNCHANGED <<serverVars, Answered>>
    /\ \A d \in Client \ {c} :
          /\ file'[d] = file[d] /\ base'[d] = base[d] /\ cfg'[d] = cfg[d] /\ ip'[d] = ip[d]
          /\ phase'[d] = phase[d] /\ sock'[d] = sock[d]
    /\ \/ Asked' = Asked
       \/ \E m \in Request : m.from = <<c, sock[c] + 1>> /\ m.id = base[c] /\ Asked' = Asked \cup {m}
    /\ file'[c] \in {file[c], cfg[c], Torn}
    /\ base'[c] \in {base[c], file[c], NoId}
    /\ \/ cfg'[c] \in {cfg[c], base[c]}
       \/ \E m \in Answered : m.to[1] = c /\ cfg'[c] = m.id
    /\ phase'[c] \in {"empty", "write", "device", "running"} =>
          \/ /\ phase[c] \in {"empty", "write", "device", "running"}
             /\ cfg'[c] = cfg[c] /\ ip'[c] = ip[c]
          \/ \E m \in Answered : cfg'[c] = m.id /\ ip'[c] = m.ip

LEMMA ClientHasEffect ==
    ASSUME TypeOK, NEW c \in Client, ClientStep(c), UNCHANGED serverVars
    PROVE  ClientEffect(c)
<1>. USE DEF TypeOK, ClientTypeOK, Goto
<1>1. CASE Start(c)
  BY Zenon, <1>1 DEF Start, Loaded, ClientEffect, Asked, Answered, Request, Answer
<1>2. CASE Attempt(c)
  <2>. DEFINE m == [type |-> "handshake", from |-> <<c, sock[c] + 1>>, id |-> base[c],
                    token |-> ClientToken]
  <2>1. m \in Request /\ m.from = <<c, sock[c] + 1>> /\ m.id = base[c]
    BY Zenon, <1>2, RequestMade DEF Attempt
  <2>2. Answered' = Answered /\ (Asked' = Asked \/ Asked' = Asked \cup {m})
    <3>1. CASE Send(m)
      BY Zenon, <2>1, <3>1, SendRequest
    <3>2. CASE UNCHANGED net
      BY Zenon, <3>2 DEF Asked, Answered, Request, Answer
    <3>. QED  BY Zenon, <1>2, <3>1, <3>2 DEF Attempt
  <2>. HIDE DEF m
  <2>. QED  BY Zenon, <1>2, <2>1, <2>2 DEF Attempt, ClientEffect
<1>3. CASE Timeout(c) \/ CreateDevice(c) \/ TunnelEnds(c) \/ Retry(c) \/ Crash(c)
  <2>1. /\ UNCHANGED <<net, file, base, cfg, ip, sock>>
        /\ \A d \in Client \ {c} : phase'[d] = phase[d]
        /\ phase'[c] \in {"empty", "write", "device", "running"} =>
              phase[c] \in {"empty", "write", "device", "running"}
    BY Zenon, <1>3 DEF Timeout, CreateDevice, TunnelEnds, Retry, Crash
  <2>. QED  BY Zenon, <2>1 DEF ClientEffect, Asked, Answered, Request, Answer
<1>4. CASE EmptyFile(c) \/ WriteFile(c)
  <2>1. /\ UNCHANGED <<net, base, cfg, ip, sock>>
        /\ \A d \in Client \ {c} : phase'[d] = phase[d] /\ file'[d] = file[d]
        /\ file'[c] \in {file[c], cfg[c], Torn}
        /\ phase[c] \in {"empty", "write", "device", "running"}
    BY Zenon, <1>4 DEF EmptyFile, WriteFile
  <2>. QED  BY Zenon, <2>1 DEF ClientEffect, Asked, Answered, Request, Answer
<1>5. ASSUME NEW m \in ArrivedAt(Here(c)), RecvAnswer(c, m)
      PROVE  ClientEffect(c)
  <2>1. /\ UNCHANGED <<net, file, base, sock>>
        /\ \A d \in Client \ {c} : phase'[d] = phase[d] /\ cfg'[d] = cfg[d] /\ ip'[d] = ip[d]
    BY Zenon, <1>5 DEF RecvAnswer
  <2>2. Usable(m) => m \in Answered /\ m.to[1] = c
    BY NetKinds DEF Here
  <2>3. cfg'[c] = cfg[c] \/ (Usable(m) /\ cfg'[c] = m.id)
    BY Zenon, <1>5 DEF RecvAnswer
  <2>4. phase'[c] \in {"empty", "write", "device", "running"} =>
            Usable(m) /\ cfg'[c] = m.id /\ ip'[c] = m.ip
    BY Zenon, <1>5 DEF RecvAnswer
  <2>. QED  BY Zenon, <2>1, <2>2, <2>3, <2>4 DEF ClientEffect, Asked, Answered, Request, Answer
<1>. QED  BY Zenon, <1>1, <1>2, <1>3, <1>4, <1>5 DEF ClientStep

LEMMA InitTypes == Init => TypeOK
BY DatagramsAssumption, ClientAssumption, ServerAssumption
DEF Init, ClientInit, ServerInit, TypeOK, ClientTypeOK, ServerTypeOK, Phase

\* Every variable has its type, whatever the network, the crashes and the
\* restarts do.
THEOREM TypesHold == Spec => []TypeOK
<1>1. TypeOK /\ [Next]_vars => TypeOK'
  <2>. SUFFICES ASSUME TypeOK, [Next]_vars PROVE TypeOK'
    OBVIOUS
  <2>1. CASE ClientNext /\ UNCHANGED serverVars
    BY <2>1, ClientTypes DEF ClientNext, ClientStep
  <2>2. CASE ServerNext /\ UNCHANGED clientVars
    BY Zenon, <2>2, ServerTypes
  <2>3. CASE UNCHANGED vars
    BY Zenon, <2>3 DEF vars, clientVars, serverVars, TypeOK, ClientTypeOK, ServerTypeOK
  <2>. QED  BY <2>1, <2>2, <2>3 DEF Next
<1>. QED  BY <1>1, InitTypes, PTL DEF Spec

-----------------------------------------------------------------------------
\* The client holds the session id, or a message or a session of it carries it.
Owns(c, s) ==
    \/ s \in {file[c], base[c], cfg[c]}
    \/ \E m \in Asked : m.from[1] = c /\ m.id = s
    \/ \E m \in Answered : m.to[1] = c /\ m.id = s
    \/ \E r \in sessions : r.addr[1] = c /\ r.id = s

\* A session id that is in use was drawn, and belongs to one client.
OwnInv ==
    \A c \in Client, s \in SessionId : Owns(c, s) =>
        drawn[s] # 0 /\ \A d \in Client : Owns(d, s) => d = c

\* The virtual address goes with the session id wherever they are together.
Bears(s, i) ==
    \/ \E r \in sessions : r.id = s /\ r.ip = i
    \/ \E m \in Answered : m.id = s /\ m.ip = i
    \/ \E c \in Client :
          phase[c] \in {"empty", "write", "device", "running"} /\ cfg[c] = s /\ ip[c] = i

BearInv ==
    \A s \in SessionId, i \in Octet \cup {NoIP} : Bears(s, i) => i = AddressOf(drawn[s])

\* The client numbers of one life of the server are distinct.
DrawnInv ==
    /\ nextId >= FirstId
    /\ restarts = 0 => \A s \in SessionId : drawn[s] # 0 =>
          /\ FirstId <= drawn[s] /\ drawn[s] < nextId
          /\ \A t \in SessionId : drawn[t] = drawn[s] => t = s

\* Until an hour passes or the server restarts, no session that was answered
\* leaves the table.
KeptInv ==
    restarts = 0 /\ hours = 0 =>
        /\ \A r \in sessions : ~r.aged
        /\ \A c \in Client, s \in SessionId : Owns(c, s) => \E r \in sessions : r.id = s

\* Sockets are used once, a request of the current one has the id that run_client
\* loaded, and an answer with an address has an id.
SocketInv ==
    /\ \A m \in Asked :
          /\ m.from[2] <= sock[m.from[1]]
          /\ \A c \in Client : m.from = Here(c) /\ phase[c] = "await" => m.id = base[c]
    /\ \A m \in Answered :
          /\ m.to[2] <= sock[m.to[1]]
          /\ m.ip # NoIP => m.id \in SessionId

\* A client that is given another id than the one it presented, or whose file
\* differs from what it presents, presents an id that the server has lost; then
\* no answer to its socket confirms that id.
IdInv(c) ==
    /\ phase[c] = "await" =>
          /\ cfg[c] = base[c]
          /\ \A m \in Answered : m.to = Here(c) /\ m.id \in SessionId =>
                /\ m.id = base[c] \/ Lost(base[c])
                /\ m.id = base[c] => file[c] = base[c]
    /\ phase[c] \in {"empty", "write"} => cfg[c] # base[c]
    /\ phase[c] # "down" => file[c] = base[c] \/ Lost(base[c])
    /\ phase[c] \in {"device", "running"} => file[c] = cfg[c]
    /\ phase[c] \in {"empty", "write", "device", "running"} =>
          cfg[c] \in SessionId /\ (cfg[c] = base[c] \/ Lost(base[c]))

Inv ==
    /\ TypeOK
    /\ OwnInv
    /\ BearInv
    /\ DrawnInv
    /\ KeptInv
    /\ SocketInv
    /\ \A c \in Client : IdInv(c)

\* A step of a client gives no id to anybody who did not have it.
LEMMA ClientOwns ==
    ASSUME TypeOK, NEW c \in Client, ClientEffect(c),
           NEW d \in Client, NEW s \in SessionId, Owns(d, s)'
    PROVE  Owns(d, s)
<1>. USE DatagramsAssumption, ClientAssumption
<1>1. CASE s \in {file'[d], base'[d], cfg'[d]}
  <2>1. CASE s \in {file'[d], base'[d]}
    <3>1. file'[d] \in {file[d], cfg[d], Torn} /\ base'[d] \in {base[d], file[d], NoId}
      BY Zenon DEF ClientEffect
    <3>2. s \in {file[d], base[d], cfg[d]}
      BY Zenon, <2>1, <3>1
    <3>. QED  BY Zenon, <3>2 DEF Owns
  <2>2. CASE s = cfg'[d]
    <3>1. \/ cfg'[d] \in {cfg[d], base[d]}
          \/ \E m \in Answered : m.to[1] = d /\ cfg'[d] = m.id
      BY Zenon DEF ClientEffect
    <3>. QED  BY Zenon, <2>2, <3>1 DEF Owns
  <2>. QED  BY Zenon, <1>1, <2>1, <2>2
<1>2. ASSUME NEW m \in Asked', m.from[1] = d, m.id = s
      PROVE  Owns(d, s)
  <2>1. m \in Asked \/ (m.from = <<c, sock[c] + 1>> /\ m.id = base[c])
    BY Zenon, <1>2 DEF ClientEffect
  <2>. QED  BY <1>2, <2>1 DEF Owns
<1>3. ASSUME NEW m \in Answered', m.to[1] = d, m.id = s
      PROVE  Owns(d, s)
  BY Zenon, <1>3 DEF ClientEffect, Owns
<1>4. ASSUME NEW r \in sessions', r.addr[1] = d, r.id = s
      PROVE  Owns(d, s)
  BY Zenon, <1>4 DEF ClientEffect, serverVars, Owns
<1>. QED  BY Zenon, <1>1, <1>2, <1>3, <1>4 DEF Owns

LEMMA ClientBears ==
    ASSUME TypeOK, NEW c \in Client, ClientEffect(c), NEW s, NEW i, Bears(s, i)'
    PROVE  Bears(s, i)
<1>1. ASSUME NEW d \in Client, phase'[d] \in {"empty", "write", "device", "running"},
             cfg'[d] = s, ip'[d] = i
      PROVE  Bears(s, i)
  BY Zenon, <1>1 DEF ClientEffect, Bears
<1>2. UNCHANGED <<sessions, Answered>>
  BY Zenon DEF ClientEffect, serverVars
<1>. QED  BY Zenon, <1>1, <1>2 DEF Bears

LEMMA ClientSockets ==
    ASSUME TypeOK, SocketInv, NEW c \in Client, ClientStep(c), ClientEffect(c)
    PROVE  SocketInv'
<1>1. /\ \A d \in Client : sock[d] \in Nat /\ sock'[d] \in Nat /\ sock'[d] >= sock[d]
      /\ \A d \in Client \ {c} : sock'[d] = sock[d] /\ phase'[d] = phase[d] /\ base'[d] = base[d]
      /\ UNCHANGED Answered
  <2>1. sock' = sock \/ sock' = [sock EXCEPT ![c] = sock[c] + 1]
    BY Zenon DEF ClientStep, Start, Attempt, Timeout, EmptyFile, WriteFile, CreateDevice, TunnelEnds,
           Retry, Crash, RecvAnswer
  <2>2. \A d \in Client : sock[d] \in Nat /\ sock'[d] \in {sock[d], sock[d] + 1}
    BY <2>1 DEF TypeOK, ClientTypeOK
  <2>3. \A d \in Client : sock[d] \in Nat /\ sock'[d] \in Nat /\ sock'[d] >= sock[d]
    BY <2>2
  <2>. QED  BY Zenon, <2>3 DEF ClientEffect
<1>2. /\ phase'[c] = "await" =>
            \/ phase[c] = "await" /\ sock'[c] = sock[c] /\ base'[c] = base[c] /\ Asked' = Asked
            \/ sock'[c] = sock[c] + 1 /\ base'[c] = base[c]
      /\ Asked' # Asked => sock'[c] = sock[c] + 1
  BY Zenon DEF ClientStep, Start, Attempt, Timeout, EmptyFile, WriteFile, CreateDevice, TunnelEnds,
         Retry, Crash, RecvAnswer, Goto, TypeOK, ClientTypeOK, Asked, Request
<1>3. \A m \in Answered' :
          /\ m.to[2] <= sock'[m.to[1]]
          /\ m.ip # NoIP => m.id \in SessionId
  <2>. SUFFICES ASSUME NEW m \in Answered
                PROVE  /\ m.to[2] <= sock'[m.to[1]]
                       /\ m.ip # NoIP => m.id \in SessionId
    BY Zenon, <1>1
  <2>1. m.to[1] \in Client /\ m.to[2] \in Nat
    BY Fields
  <2>2. m.to[2] <= sock[m.to[1]] /\ (m.ip # NoIP => m.id \in SessionId)
    BY Zenon DEF SocketInv
  <2>3. /\ sock[m.to[1]] \in Nat /\ sock'[m.to[1]] \in Nat
        /\ sock'[m.to[1]] >= sock[m.to[1]]
    BY <1>1, <2>1
  <2>4. \A x, y, z \in Nat : x <= y /\ z >= y => x <= z
    OBVIOUS
  <2>. QED  BY Zenon, <2>1, <2>2, <2>3, <2>4
<1>4. ASSUME NEW m \in Asked', m \in Asked
      PROVE  /\ m.from[2] <= sock'[m.from[1]]
             /\ \A d \in Client : m.from = Here(d)' /\ phase'[d] = "await" => m.id = base'[d]
  <2>1. m.from[1] \in Client /\ m.from[2] \in Nat /\ m.from[2] <= sock[m.from[1]]
    <3>1. m.from[1] \in Client /\ m.from[2] \in Nat
      BY <1>4, Fields
    <3>. QED  BY Zenon, <1>4, <3>1 DEF SocketInv
  <2>2. m.from[2] <= sock'[m.from[1]]
    BY <1>1, <2>1
  <2>3. ASSUME NEW d \in Client, m.from = Here(d)', phase'[d] = "await"
        PROVE  m.id = base'[d]
    <3>1. m.from[1] = d /\ m.from[2] = sock'[d]
      BY <2>3 DEF Here
    <3>2. CASE d # c
      BY Zenon, <1>1, <1>4, <2>3, <3>2 DEF SocketInv, Here
    <3>3. CASE d = c /\ sock'[c] = sock[c] + 1
      BY <1>1, <2>1, <3>1, <3>3
    <3>4. CASE d = c /\ phase[c] = "await" /\ sock'[c] = sock[c] /\ base'[c] = base[c]
      BY Zenon, <1>4, <2>3, <3>4 DEF SocketInv, Here
    <3>. QED  BY Zenon, <1>2, <2>3, <3>2, <3>3, <3>4
  <2>. QED  BY Zenon, <2>2, <2>3
<1>5. ASSUME NEW m \in Asked', m \notin Asked
      PROVE  /\ m.from[2] <= sock'[m.from[1]]
             /\ \A d \in Client : m.from = Here(d)' /\ phase'[d] = "await" => m.id = base'[d]
  <2>1. m.from = <<c, sock[c] + 1>> /\ m.id = base[c] /\ sock'[c] = sock[c] + 1
    BY Zenon, <1>2, <1>5 DEF ClientEffect
  <2>2. m.from[2] <= sock'[m.from[1]]
    BY <1>1, <2>1
  <2>3. \A d \in Client : m.from = Here(d)' => d = c
    BY <2>1 DEF Here
  <2>. QED  BY Zenon, <1>2, <1>5, <2>1, <2>2, <2>3
<1>. QED  BY Zenon, <1>3, <1>4, <1>5 DEF SocketInv

\* The other clients see nothing of a step of c ...
LEMMA ClientIdsOthers ==
    ASSUME NEW c \in Client, ClientEffect(c), NEW d \in Client \ {c}, IdInv(d)
    PROVE  IdInv(d)'
<1>1. /\ file'[d] = file[d] /\ base'[d] = base[d] /\ cfg'[d] = cfg[d]
      /\ phase'[d] = phase[d] /\ sock'[d] = sock[d]
      /\ UNCHANGED <<Answered, sessions>>
  BY Zenon DEF ClientEffect, serverVars
<1>2. Here(d)' = Here(d) /\ Lost(base[d])' = Lost(base[d])
  BY Zenon, <1>1 DEF Here, Lost
<1>. QED  BY Zenon, <1>1, <1>2 DEF IdInv

\* ... and c keeps to the ids it presented or was given.
LEMMA ClientIds ==
    ASSUME TypeOK, SocketInv, NEW c \in Client, IdInv(c), ClientStep(c), UNCHANGED serverVars,
           ClientEffect(c)
    PROVE  IdInv(c)'
<1>0. \A id : Lost(id)' = Lost(id)
  BY Zenon DEF Lost, serverVars
<1>1. CASE Start(c)
  <2>1. phase'[c] = "attempt" /\ base'[c] = Loaded(c) /\ file' = file
    BY Zenon, <1>1 DEF Start, Goto, TypeOK, ClientTypeOK
  <2>2. file[c] = Torn => Lost(NoId)
    BY Zenon, DatagramsAssumption DEF Lost, TypeOK, ServerTypeOK, Session
  <2>. QED  BY Zenon, <1>0, <2>1, <2>2 DEF IdInv, Loaded
<1>2. CASE Attempt(c)
  <2>1. /\ sock'[c] = sock[c] + 1 /\ cfg'[c] = base[c] /\ sock[c] \in Nat
        /\ phase[c] = "attempt" /\ phase'[c] \in {"await", "backoff"}
        /\ UNCHANGED <<file, base>>
    BY <1>2 DEF Attempt, Goto, TypeOK, ClientTypeOK
  <2>2. \A m \in Answered' : m.to # Here(c)'
    <3>. SUFFICES ASSUME NEW m \in Answered, m.to = <<c, sock[c] + 1>> PROVE FALSE
      BY Zenon, <2>1 DEF ClientEffect, Here
    <3>1. m.to[1] = c /\ m.to[2] = sock[c] + 1
      OBVIOUS
    <3>2. m.to[2] <= sock[m.to[1]]
      BY Zenon DEF SocketInv
    <3>3. sock[c] + 1 <= sock[c]
      BY Zenon, <3>1, <3>2
    <3>. QED  BY <2>1, <3>3
  <2>. QED  BY Zenon, <1>0, <2>1, <2>2 DEF IdInv
<1>3. CASE Timeout(c) \/ TunnelEnds(c) \/ Retry(c) \/ Crash(c)
  <2>1. /\ phase[c] # "down" /\ phase'[c] \in {"down", "attempt", "backoff"}
        /\ UNCHANGED <<file, base>>
    BY Zenon, <1>3 DEF Timeout, TunnelEnds, Retry, Crash, Goto, Phase, TypeOK, ClientTypeOK
  <2>. QED  BY Zenon, <1>0, <2>1 DEF IdInv
<1>4. CASE CreateDevice(c)
  <2>1. /\ phase[c] = "device" /\ phase'[c] \in {"running", "backoff"}
        /\ UNCHANGED <<file, base, cfg>>
    BY Zenon, <1>4 DEF CreateDevice, Goto, TypeOK, ClientTypeOK
  <2>. QED  BY Zenon, <1>0, <2>1 DEF IdInv
<1>5. CASE EmptyFile(c)
  <2>1. /\ phase[c] = "empty" /\ UNCHANGED <<base, cfg>>
        /\ \/ phase'[c] = "write"
           \/ phase'[c] = "backoff" /\ file'[c] = file[c]
    BY Zenon, <1>5 DEF EmptyFile, Goto, TypeOK, ClientTypeOK
  <2>. QED  BY Zenon, <1>0, <2>1 DEF IdInv
<1>6. CASE WriteFile(c)
  <2>1. /\ phase[c] = "write" /\ UNCHANGED <<base, cfg>>
        /\ \/ phase'[c] = "device" /\ file'[c] = cfg[c]
           \/ phase'[c] = "backoff" /\ file'[c] = file[c]
    BY Zenon, <1>6 DEF WriteFile, Goto, TypeOK, ClientTypeOK
  <2>. QED  BY Zenon, <1>0, <2>1 DEF IdInv
<1>7. ASSUME NEW m \in ArrivedAt(Here(c)), RecvAnswer(c, m)
      PROVE  IdInv(c)'
  <2>1. phase[c] = "await" /\ UNCHANGED <<file, base>>
    BY Zenon, <1>7 DEF RecvAnswer, Goto
  <2>2. Usable(m) => m \in Answered /\ m.to = Here(c) /\ m.id \in SessionId
    BY Zenon, NetKinds DEF Usable, SocketInv
  <2>3. CASE phase'[c] = "backoff"
    BY Zenon, <1>0, <2>1, <2>3 DEF IdInv
  <2>4. CASE Usable(m) /\ m.id = cfg[c] /\ phase'[c] = "device" /\ cfg'[c] = cfg[c]
    BY Zenon, <1>0, <2>1, <2>2, <2>4 DEF IdInv
  <2>5. CASE Usable(m) /\ m.id # cfg[c] /\ phase'[c] = "empty" /\ cfg'[c] = m.id
    BY Zenon, <1>0, <2>1, <2>2, <2>5 DEF IdInv
  <2>. QED  BY Zenon, <1>7, <2>3, <2>4, <2>5 DEF RecvAnswer, Goto, TypeOK, ClientTypeOK
<1>. QED  BY Zenon, <1>1, <1>2, <1>3, <1>4, <1>5, <1>6, <1>7 DEF ClientStep

LEMMA ClientInv ==
    ASSUME Inv, NEW c \in Client, ClientStep(c), UNCHANGED serverVars
    PROVE  Inv'
<1>1. ClientEffect(c) /\ TypeOK'
  BY ClientHasEffect, ClientTypes DEF Inv
<1>2. UNCHANGED <<sessions, nextId, drawn, restarts, hours>>
  BY Zenon DEF serverVars
<1>3. OwnInv'
  <2>1. \A d \in Client, s \in SessionId : Owns(d, s)' => Owns(d, s)
    BY Zenon, <1>1, ClientOwns DEF Inv
  <2>. QED  BY Zenon, <1>2, <2>1 DEF Inv, OwnInv
<1>4. BearInv'
  <2>1. \A s, i : Bears(s, i)' => Bears(s, i)
    BY Zenon, <1>1, ClientBears DEF Inv
  <2>. QED  BY Zenon, <1>2, <2>1 DEF Inv, BearInv, Octet
<1>5. DrawnInv'
  BY Zenon, <1>2 DEF Inv, DrawnInv
<1>6. KeptInv'
  <2>1. \A d \in Client, s \in SessionId : Owns(d, s)' => Owns(d, s)
    BY Zenon, <1>1, ClientOwns DEF Inv
  <2>. QED  BY Zenon, <1>2, <2>1 DEF Inv, KeptInv
<1>7. SocketInv'
  BY Zenon, <1>1, ClientSockets DEF Inv
<1>8. \A d \in Client : IdInv(d)'
  BY Zenon, <1>1, ClientIds, ClientIdsOthers DEF Inv
<1>. QED  BY Zenon, <1>1, <1>3, <1>4, <1>5, <1>6, <1>7, <1>8 DEF Inv

-----------------------------------------------------------------------------
\* The server.

\* A step that grants nothing: no answer with an id, and no session but those
\* there were, older or swept.
Idle ==
    /\ UNCHANGED clientVars
    /\ Asked' = Asked
    /\ \A m \in Answered' : m \in Answered \/ (m \in Answer /\ m.id = NoId /\ m.ip = NoIP
                                               /\ \E a \in Asked : m.to = a.from)
    /\ \A m \in Answered : m \in Answered'
    /\ \A r \in sessions' : \E x \in sessions : r.id = x.id /\ r.ip = x.ip /\ r.addr = x.addr
    /\ UNCHANGED drawn
    /\ restarts' = 0 => UNCHANGED <<restarts, nextId>>
    /\ nextId' >= FirstId
    /\ restarts' = 0 /\ hours' = 0 => hours = 0 /\ (KeptInv => sessions' = sessions)

LEMMA IdleInv ==
    ASSUME Inv, TypeOK', Idle
    PROVE  Inv'
<1>. USE DatagramsAssumption
<1>0. UNCHANGED <<file, base, cfg, ip, phase, sock>>
  BY Zenon DEF Idle, clientVars
<1>1. ASSUME NEW c \in Client, NEW s \in SessionId, Owns(c, s)'
      PROVE  Owns(c, s)
  <2>1. \A m \in Answered' : m.id = s => m \in Answered
    BY Zenon DEF Idle
  <2>2. \A r \in sessions' : \E x \in sessions : r.id = x.id /\ r.addr = x.addr
    BY Zenon DEF Idle
  <2>. QED  BY <1>0, <1>1, <2>1, <2>2 DEF Idle, Owns
<1>2. ASSUME NEW s \in SessionId, NEW i, Bears(s, i)'
      PROVE  Bears(s, i)
  <2>1. \A m \in Answered' : m.id = s => m \in Answered
    BY Zenon DEF Idle
  <2>2. \A r \in sessions' : \E x \in sessions : r.id = x.id /\ r.ip = x.ip
    BY Zenon DEF Idle
  <2>. QED  BY Zenon, <1>0, <1>2, <2>1, <2>2 DEF Bears
<1>3. \A id : Lost(id) => Lost(id)'
  BY Zenon DEF Idle, Lost
<1>4. OwnInv'
  BY Zenon, <1>1 DEF Inv, OwnInv, Idle
<1>5. BearInv'
  BY Zenon, <1>2 DEF Inv, BearInv, Idle, Octet
<1>6. DrawnInv'
  BY Zenon DEF Inv, DrawnInv, Idle
<1>7. KeptInv'
  BY <1>1 DEF Inv, KeptInv, Idle
<1>8. SocketInv'
  <2>1. ASSUME NEW m \in Answered', m \notin Answered
        PROVE  m.to[2] <= sock'[m.to[1]] /\ m.ip = NoIP
    <3>1. PICK a \in Asked : m.to = a.from /\ m.ip = NoIP
      BY Zenon, <2>1 DEF Idle
    <3>. QED  BY Zenon, <1>0, <3>1 DEF Inv, SocketInv
  <2>2. ASSUME NEW m \in Answered
        PROVE  m.to[2] <= sock'[m.to[1]] /\ (m.ip # NoIP => m.id \in SessionId)
    BY Zenon, <1>0 DEF Inv, SocketInv
  <2>3. Asked' = Asked /\ \A c \in Client : Here(c)' = Here(c)
    BY Zenon, <1>0 DEF Idle, Here
  <2>4. \A m \in Asked' :
            /\ m.from[2] <= sock'[m.from[1]]
            /\ \A c \in Client : m.from = Here(c)' /\ phase'[c] = "await" => m.id = base'[c]
    BY <1>0, <2>3 DEF Inv, SocketInv
  <2>. QED  BY Zenon, <2>1, <2>2, <2>4 DEF SocketInv
<1>9. ASSUME NEW c \in Client
      PROVE  IdInv(c)'
  <2>1. \A m \in Answered' : m.id \in SessionId => m \in Answered
    BY DEF Idle
  <2>2. IdInv(c)
    BY DEF Inv
  <2>. QED  BY Zenon, <1>0, <1>3, <2>1, <2>2 DEF IdInv, Here
<1>. QED  BY Zenon, <1>4, <1>5, <1>6, <1>7, <1>8, <1>9 DEF Inv

LEMMA QuietServer ==
    ASSUME Inv, UNCHANGED clientVars,
           \/ \E m \in Asked : Reject(m) /\ UNCHANGED <<restarts, hours>>
           \/ \E i \in Octet : RoutePacket(i)
           \/ HourPasses \/ SweepAged \/ RestartServer
    PROVE  Idle
<1>0. nextId >= FirstId /\ TypeOK /\ FirstId \in Nat
  BY Zenon, ServerAssumption DEF Inv, DrawnInv
<1>1. ASSUME NEW m \in Asked, Reject(m), UNCHANGED <<restarts, hours>>
      PROVE  Idle
  <2>1. Asked' = Asked /\ Answered' = Answered \cup {Rejection(m)}
    BY Zenon, <1>1, RejectionMade, SendAnswer DEF Reject
  <2>2. Rejection(m).to = m.from
    BY Zenon DEF Rejection
  <2>. QED  BY Zenon, <1>0, <1>1, <2>1, <2>2, RejectionMade DEF Reject, Idle
<1>2. ASSUME NEW i \in Octet, RoutePacket(i)
      PROVE  Idle
  <2>1. PICK r \in sessions : Send([type |-> "data", to |-> r.addr])
    BY Zenon, <1>2 DEF RoutePacket
  <2>2. [type |-> "data", to |-> r.addr] \in Packet
    BY Zenon, <1>0 DEF Packet, TypeOK, ServerTypeOK, Session
  <2>3. Asked' = Asked /\ Answered' = Answered
    BY Zenon, <2>1, <2>2, SendPacket
  <2>. QED  BY Zenon, <1>0, <1>2, <2>3 DEF RoutePacket, serverVars, Idle
<1>3. ASSUME UNCHANGED net
      PROVE  Asked' = Asked /\ Answered' = Answered
  BY Zenon, <1>3 DEF Asked, Answered, Request, Answer
<1>4. CASE HourPasses
  <2>1. hours' # 0
    BY <1>0, <1>4 DEF HourPasses, TypeOK, ServerTypeOK
  <2>. QED  BY SMTT(30), <1>0, <1>3, <1>4, <2>1 DEF HourPasses, Idle
<1>5. CASE SweepAged
  <2>1. restarts = 0 /\ hours = 0 /\ KeptInv => sessions' = sessions
    BY Zenon, <1>5 DEF SweepAged, KeptInv
  <2>. QED  BY Zenon, <1>0, <1>3, <1>5, <2>1 DEF SweepAged, Idle
<1>6. CASE RestartServer
  <2>1. restarts' # 0 /\ nextId' >= FirstId
    BY <1>0, <1>6 DEF RestartServer, TypeOK, ServerTypeOK
  <2>. QED  BY Zenon, <1>3, <1>6, <2>1 DEF RestartServer, Idle
<1>. QED  BY Zenon, <1>1, <1>2, <1>4, <1>5, <1>6

\* Whoever has an address with an id has the id.
LEMMA BearsOwned ==
    ASSUME TypeOK, NEW s \in SessionId, NEW i, Bears(s, i)
    PROVE  \E c \in Client : Owns(c, s)
<1>1. ASSUME NEW r \in sessions, r.id = s
      PROVE  \E c \in Client : Owns(c, s)
  <2>1. r.addr[1] \in Client
    BY Zenon DEF TypeOK, ServerTypeOK, Session, Address
  <2>. QED  BY Zenon, <1>1, <2>1 DEF Owns
<1>2. ASSUME NEW m \in Answered, m.id = s
      PROVE  \E c \in Client : Owns(c, s)
  BY Zenon, <1>2, Fields DEF Owns
<1>3. ASSUME NEW c \in Client, cfg[c] = s
      PROVE  \E d \in Client : Owns(d, s)
  BY Zenon, <1>3 DEF Owns
<1>. QED  BY Zenon, <1>1, <1>2, <1>3 DEF Bears

\* A handshake that is admitted under an id that is the requester's, or nobody's
\* when the requester's own is lost, keeps the invariant.
Granted(m, id, i) ==
    /\ UNCHANGED <<clientVars, restarts, hours>>
    /\ Admits(m, id, i)
    /\ \A s \in SessionId \ {id} : drawn'[s] = drawn[s]
    /\ drawn'[id] # 0 /\ i = AddressOf(drawn'[id])
    /\ \/ m.id = id /\ ~Lost(id) /\ UNCHANGED drawn
       \/ Lost(m.id) /\ \A c \in Client : ~Owns(c, id)

LEMMA GrantInv ==
    ASSUME Inv, TypeOK', DrawnInv',
           NEW m \in Asked, NEW id \in SessionId, NEW i \in Octet, Granted(m, id, i)
    PROVE  Inv'
<1>. DEFINE g == Grant(m, id, i)
            e == Entry(m, id, i)
            o == m.from[1]
<1>0. UNCHANGED <<file, base, cfg, ip, phase, sock>> /\ Asked' = Asked
  BY Zenon DEF clientVars, Admits, Granted
<1>1. /\ g.to = m.from /\ g.id = id /\ g.ip = i /\ e.id = id /\ e.ip = i /\ e.addr = m.from
      /\ ~e.aged /\ o \in Client
  BY Zenon, Fields DEF Grant, Entry
<1>2. /\ \A x \in Answered' : x \in Answered \/ x = g
      /\ \A r \in sessions' : r \in sessions \/ r = e
      /\ \A r \in sessions : r.id # id => r \in sessions'
      /\ UNCHANGED <<Answered, sessions>> \/ e \in sessions'
  BY Zenon DEF Admits, Granted
<1>a. /\ UNCHANGED <<restarts, hours>>
      /\ \A s \in SessionId \ {id} : drawn'[s] = drawn[s]
      /\ drawn'[id] # 0 /\ i = AddressOf(drawn'[id])
  BY Zenon DEF Granted
<1>b. \/ m.id = id /\ ~Lost(id) /\ UNCHANGED drawn
      \/ Lost(m.id) /\ \A c \in Client : ~Owns(c, id)
  BY Zenon DEF Granted
<1>. HIDE DEF g, e
<1>3. \A c \in Client : Owns(c, id) => c = o
  <2>1. m.id = id => Owns(o, id)
    BY DEF Owns
  <2>. QED  BY Zenon, <1>b, <1>1, <2>1 DEF Inv, OwnInv
<1>4. ASSUME NEW c \in Client, NEW s \in SessionId, Owns(c, s)'
      PROVE  Owns(c, s) \/ (s = id /\ c = o /\ e \in sessions')
  <2>1. ASSUME NEW x \in Answered', x.to[1] = c, x.id = s
        PROVE  Owns(c, s) \/ (s = id /\ c = o /\ e \in sessions')
    BY Zenon, <1>1, <1>2, <2>1 DEF Owns
  <2>2. ASSUME NEW r \in sessions', r.addr[1] = c, r.id = s
        PROVE  Owns(c, s) \/ (s = id /\ c = o /\ e \in sessions')
    BY Zenon, <1>1, <1>2, <2>2 DEF Owns
  <2>. QED  BY Zenon, <1>0, <1>4, <2>1, <2>2 DEF Owns
<1>5. OwnInv'
  <2>. SUFFICES ASSUME NEW c \in Client, NEW s \in SessionId, Owns(c, s)'
                PROVE  drawn'[s] # 0 /\ \A d \in Client : Owns(d, s)' => d = c
    BY Zenon DEF OwnInv
  <2>1. CASE s = id
    BY Zenon, <1>a, <1>3, <1>4, <2>1
  <2>2. CASE s # id
    <3>1. \A d \in Client : Owns(d, s)' => Owns(d, s)
      BY Zenon, <1>4, <2>2
    <3>. QED  BY Zenon, <1>a, <2>2, <3>1 DEF Inv, OwnInv
  <2>. QED  BY Zenon, <2>1, <2>2
<1>6. BearInv'
  <2>. SUFFICES ASSUME NEW s \in SessionId, NEW j \in Octet \cup {NoIP}, Bears(s, j)'
                PROVE  j = AddressOf(drawn'[s])
    BY DEF BearInv, Octet
  <2>1. Bears(s, j) \/ (s = id /\ j = i)
    <3>1. ASSUME NEW x \in Answered', x.id = s, x.ip = j
          PROVE  Bears(s, j) \/ (s = id /\ j = i)
      BY Zenon, <1>1, <1>2, <3>1 DEF Bears
    <3>2. ASSUME NEW r \in sessions', r.id = s, r.ip = j
          PROVE  Bears(s, j) \/ (s = id /\ j = i)
      BY Zenon, <1>1, <1>2, <3>2 DEF Bears
    <3>. QED  BY Zenon, <1>0, <3>1, <3>2 DEF Bears
  <2>2. CASE Bears(s, j) /\ s = id
    <3>1. \E c \in Client : Owns(c, id)
      BY Zenon, <2>2, BearsOwned DEF Inv
    <3>2. UNCHANGED drawn
      BY Zenon, <1>b, <3>1
    <3>. QED  BY Zenon, <2>2, <3>2 DEF Inv, BearInv
  <2>3. CASE Bears(s, j) /\ s # id
    BY Zenon, <1>a, <2>3 DEF Inv, BearInv
  <2>. QED  BY Zenon, <1>a, <2>1, <2>2, <2>3
<1>7. KeptInv'
  <2>. SUFFICES ASSUME restarts = 0, hours = 0
                PROVE  /\ \A r \in sessions' : ~r.aged
                       /\ \A c \in Client, s \in SessionId : Owns(c, s)' => \E r \in sessions' : r.id = s
    BY Zenon, <1>a DEF KeptInv
  <2>1. \A r \in sessions' : ~r.aged
    BY Zenon, <1>1, <1>2 DEF Inv, KeptInv
  <2>2. ASSUME NEW c \in Client, NEW s \in SessionId, Owns(c, s)
        PROVE  \E r \in sessions' : r.id = s
    BY Zenon, <1>1, <1>2, <2>2 DEF Inv, KeptInv
  <2>. QED  BY Zenon, <1>1, <1>4, <2>1, <2>2
<1>8. SocketInv'
  <2>1. m.from[2] <= sock[m.from[1]]
    BY Zenon DEF Inv, SocketInv
  <2>. QED  BY Zenon, <1>0, <1>1, <1>2, <2>1 DEF Inv, SocketInv, Here
<1>9. ASSUME NEW c \in Client
      PROVE  IdInv(c)'
  <2>1. IdInv(c)
    BY Zenon DEF Inv
  <2>2. Lost(base[c]) => base[c] # id
    <3>1. base[c] = id => Owns(c, id)
      BY Zenon DEF Owns
    <3>. QED  BY Zenon, <1>b, <3>1
  <2>3. Lost(base[c]) => Lost(base[c])'
    BY Zenon, <1>0, <1>1, <1>2, <2>2 DEF Lost
  <2>4. ASSUME phase[c] = "await", m.from = Here(c)
        PROVE  /\ id = base[c] \/ Lost(base[c])
               /\ id = base[c] => file[c] = base[c]
    <3>1. m.id = base[c]
      BY Zenon, <2>4 DEF Inv, SocketInv
    <3>2. base[c] = id => Owns(c, id)
      BY Zenon DEF Owns
    <3>3. file[c] = base[c] \/ Lost(base[c])
      BY Zenon, <2>1, <2>4 DEF IdInv
    <3>. QED  BY Zenon, <1>b, <3>1, <3>2, <3>3
  <2>. QED  BY Zenon, <1>0, <1>1, <1>2, <2>1, <2>3, <2>4 DEF IdInv, Here
<1>. QED  BY Zenon, <1>5, <1>6, <1>7, <1>8, <1>9 DEF Inv

LEMMA ServerInv ==
    ASSUME Inv, ServerNext, UNCHANGED clientVars
    PROVE  Inv'
<1>0. TypeOK /\ TypeOK' /\ DrawnInv /\ FirstId \in Nat \ {0} /\ nextId \in Nat
  BY Zenon, ServerTypes, ServerAssumption DEF Inv, TypeOK, ServerTypeOK
<1>1. ASSUME NEW m \in Asked, Resume(m), UNCHANGED <<restarts, hours>>
      PROVE  Inv'
  <2>1. PICK r \in sessions : r \in Session /\ r.id = m.id /\ Admits(m, r.id, r.ip)
    BY Zenon, <1>0, <1>1, ResumeEffect
  <2>2. r.id \in SessionId /\ r.ip \in Octet /\ ~Lost(r.id) /\ r.addr[1] \in Client
    BY Zenon, <2>1 DEF Session, Lost, Address
  <2>3. Bears(r.id, r.ip) /\ Owns(r.addr[1], r.id)
    BY Zenon DEF Bears, Owns
  <2>4. drawn[r.id] # 0 /\ r.ip = AddressOf(drawn[r.id])
    BY Zenon, <2>2, <2>3 DEF Inv, OwnInv, BearInv
  <2>5. UNCHANGED <<nextId, drawn>>
    BY Zenon, <1>1 DEF Resume
  <2>6. DrawnInv'
    BY Zenon, <1>0, <1>1, <2>5 DEF DrawnInv
  <2>7. drawn'[r.id] # 0 /\ r.ip = AddressOf(drawn'[r.id])
    BY Zenon, <2>4, <2>5
  <2>8. Granted(m, r.id, r.ip)
    BY Zenon, <1>1, <2>1, <2>2, <2>5, <2>7 DEF Granted
  <2>. QED  BY Zenon, <1>0, <2>2, <2>6, <2>8, GrantInv
<1>2. ASSUME NEW m \in Asked, Register(m), UNCHANGED <<restarts, hours>>
      PROVE  Inv'
  <2>1. Lost(m.id) /\ nextId' = nextId + 1
    BY Zenon, <1>0, <1>2, RegisterEffect
  <2>2. PICK s \in SessionId :
            /\ drawn[s] = 0
            /\ drawn' = [drawn EXCEPT ![s] = nextId]
            /\ Admits(m, s, AddressOf(nextId))
    BY Zenon, <1>0, <1>2, RegisterEffect
  <2>3. drawn'[s] = nextId /\ \A t \in SessionId \ {s} : drawn'[t] = drawn[t]
    BY Zenon, <1>0, <2>2 DEF TypeOK, ServerTypeOK
  <2>4. nextId # 0 /\ AddressOf(nextId) \in Octet
    BY <1>0, AddressType DEF DrawnInv
  <2>5. \A c \in Client : ~Owns(c, s)
    BY Zenon, <2>2 DEF Inv, OwnInv
  <2>6. DrawnInv'
    <3>1. nextId' >= FirstId
      BY <1>0, <2>1 DEF DrawnInv
    <3>2. ASSUME restarts' = 0, NEW t \in SessionId, drawn'[t] # 0
          PROVE  /\ FirstId <= drawn'[t] /\ drawn'[t] < nextId'
                 /\ \A u \in SessionId : drawn'[u] = drawn'[t] => u = t
      <4>1. restarts = 0 /\ \A u \in SessionId : drawn[u] \in Nat
        BY Zenon, <1>0, <1>2, <3>2 DEF TypeOK, ServerTypeOK
      <4>2. CASE t = s
        BY <1>0, <2>1, <2>3, <4>1, <4>2 DEF DrawnInv
      <4>3. CASE t # s
        BY <1>0, <2>1, <2>3, <3>2, <4>1, <4>3 DEF DrawnInv
      <4>. QED  BY Zenon, <4>2, <4>3
    <3>. QED  BY Zenon, <3>1, <3>2 DEF DrawnInv
  <2>. QED
    <3>1. AddressOf(nextId) = AddressOf(drawn'[s])
      BY Zenon, <2>3
    <3>2. Granted(m, s, AddressOf(nextId))
      BY Zenon, <1>2, <2>1, <2>2, <2>3, <2>4, <2>5, <3>1 DEF Granted
    <3>. QED  BY Zenon, <1>0, <2>4, <2>6, <3>2, GrantInv
<1>3. ASSUME \/ \E m \in Asked : Reject(m) /\ UNCHANGED <<restarts, hours>>
             \/ \E i \in Octet : RoutePacket(i)
             \/ HourPasses \/ SweepAged \/ RestartServer
      PROVE  Inv'
  BY Zenon, <1>0, <1>3, QuietServer, IdleInv
<1>. QED
  BY Zenon, <1>0, <1>1, <1>2, <1>3, NetKinds DEF ServerNext, ServeHandshake

-----------------------------------------------------------------------------
LEMMA InitInv == Init => Inv
<1>. SUFFICES ASSUME Init PROVE Inv
  BY Zenon
<1>. USE DEF Init, ClientInit, ServerInit
<1>1. TypeOK
  BY Zenon, InitTypes
<1>2. Asked = {} /\ Answered = {}
  BY Zenon DEF Asked, Answered
<1>3. \A c \in Client, s \in SessionId : ~Owns(c, s)
  BY Zenon, <1>2, DatagramsAssumption DEF Owns
<1>4. \A s, i : ~Bears(s, i)
  BY Zenon, <1>2 DEF Bears
<1>5. DrawnInv
  BY ServerAssumption DEF DrawnInv
<1>6. SocketInv /\ KeptInv /\ \A c \in Client : IdInv(c)
  BY Zenon, <1>2, <1>3 DEF SocketInv, KeptInv, IdInv
<1>. QED  BY <1>1, <1>3, <1>4, <1>5, <1>6 DEF Inv, OwnInv, BearInv

\* Whose an id is, which address goes with it, and what the table still knows,
\* over a network that loses, delays and repeats, with crashes and restarts.
THEOREM Invariance == Spec => []Inv
<1>1. Inv /\ [Next]_vars => Inv'
  <2>. SUFFICES ASSUME Inv, [Next]_vars PROVE Inv'
    BY Zenon
  <2>1. CASE ClientNext /\ UNCHANGED serverVars
    BY Zenon, <2>1, ClientInv DEF ClientNext, ClientStep
  <2>2. CASE ServerNext /\ UNCHANGED clientVars
    BY Zenon, <2>2, ServerInv
  <2>3. CASE UNCHANGED vars
    <3>1. /\ UNCHANGED <<net, file, base, cfg, ip, phase, sock, delay, sessions, nextId, drawn,
                         restarts, hours>>
      BY Zenon, <2>3 DEF vars, clientVars, serverVars
    <3>2. /\ TypeOK' = TypeOK /\ Asked' = Asked /\ Answered' = Answered
          /\ \A id : Lost(id)' = Lost(id)
      BY Zenon, <3>1 DEF TypeOK, ClientTypeOK, ServerTypeOK, Asked, Answered, Lost
    <3>3. /\ \A c, s : Owns(c, s)' = Owns(c, s)
          /\ \A s, i : Bears(s, i)' = Bears(s, i)
      BY Zenon, <3>1, <3>2 DEF Owns, Bears
    <3>4. OwnInv' /\ BearInv' /\ DrawnInv' /\ KeptInv'
      BY Zenon, <3>1, <3>3 DEF Inv, OwnInv, BearInv, DrawnInv, KeptInv, Octet
    <3>5. SocketInv' /\ \A c \in Client : IdInv(c)'
      BY Zenon, <3>1, <3>2 DEF Inv, SocketInv, IdInv, Here
    <3>. QED  BY Zenon, <3>2, <3>4, <3>5 DEF Inv
  <2>. QED  BY Zenon, <2>1, <2>2, <2>3 DEF Next
<1>. QED  BY <1>1, InitInv, PTL DEF Spec

\* A client never uses its tunnel before the id of its session is on disk.
THEOREM SavedBeforeUse == Spec => []PersistedBeforeUse
<1>1. Inv => PersistedBeforeUse
  BY Zenon DEF Inv, IdInv, PersistedBeforeUse
<1>. QED  BY <1>1, Invariance, PTL

\* Numbers that differ by less than the octet space have different octets.
LEMMA AddressInjective ==
    ASSUME NEW a \in Nat, NEW b \in Nat, a < b, b - a < OctetSpace
    PROVE  AddressOf(a) # AddressOf(b)
<1>. DEFINE m == OctetSpace
            q == a \div m
            r == b \div m
<1>1. /\ m \in Nat \ {0} /\ q \in Int /\ r \in Int
      /\ a = m * q + (a % m) /\ a % m \in Int
      /\ b = m * r + (b % m) /\ b % m \in Int
  BY DatagramsAssumption
<1>2. SUFFICES ASSUME a % m = b % m PROVE FALSE
  BY Zenon DEF AddressOf
<1>. HIDE DEF m, q, r
<1>3. b - a = m * (r - q)
  <2>1. b - a = m * r - m * q
    BY <1>1, <1>2
  <2>2. m * r - m * q = m * (r - q)
    BY <1>1
  <2>. QED  BY Zenon, <2>1, <2>2
<1>4. CASE r - q >= 1
  <2>1. m * (r - q) >= m
    BY <1>1, <1>4
  <2>. QED  BY <1>1, <1>3, <2>1 DEF m
<1>5. CASE r - q <= 0
  <2>1. m * (r - q) <= 0
    BY <1>1, <1>5
  <2>. QED  BY <1>1, <1>3, <2>1
<1>. QED  BY <1>1, <1>4, <1>5

\* A client that has a tunnel has a session id and the address that goes with it.
LEMMA TunnelOfId ==
    ASSUME Inv, NEW c \in Client, phase[c] \in {"device", "running"}
    PROVE  cfg[c] \in SessionId /\ Owns(c, cfg[c]) /\ ip[c] = AddressOf(drawn[cfg[c]])
<1>1. cfg[c] \in SessionId /\ ip[c] \in Octet \cup {NoIP}
  BY Zenon DEF Inv, TypeOK, ClientTypeOK, IdInv
<1>2. Owns(c, cfg[c]) /\ Bears(cfg[c], ip[c])
  BY DEF Owns, Bears
<1>. QED  BY Zenon, <1>1, <1>2 DEF Inv, BearInv

\* Two clients that are up never share a virtual address, until the server is
\* restarted or its octets are used up.
THEOREM TunnelsDistinct == Spec => []DistinctTunnelAddresses
<1>1. Inv => DistinctTunnelAddresses
  <2>. SUFFICES ASSUME Inv, restarts = 0, nextId <= FirstId + OctetSpace,
                       NEW c \in Client, NEW d \in Client,
                       phase[c] = "running", phase[d] = "running", ip[c] = ip[d]
                PROVE  c = d
    BY Zenon DEF DistinctTunnelAddresses
  <2>. DEFINE a == drawn[cfg[c]]
              b == drawn[cfg[d]]
  <2>1. /\ cfg[c] \in SessionId /\ Owns(c, cfg[c]) /\ ip[c] = AddressOf(a)
        /\ cfg[d] \in SessionId /\ Owns(d, cfg[d]) /\ ip[d] = AddressOf(b)
    BY Zenon, TunnelOfId
  <2>2. /\ a \in Nat /\ b \in Nat /\ FirstId <= a /\ a < nextId /\ FirstId <= b /\ b < nextId
        /\ a = b => cfg[c] = cfg[d]
    BY Zenon, <2>1 DEF Inv, OwnInv, DrawnInv, TypeOK, ServerTypeOK
  <2>3. FirstId \in Nat /\ OctetSpace \in Nat /\ nextId \in Nat
    BY Zenon, DatagramsAssumption, ServerAssumption DEF Inv, TypeOK, ServerTypeOK
  <2>. HIDE DEF a, b
  <2>4. a = b
    <3>1. a < b => b - a < OctetSpace
      BY <2>2, <2>3
    <3>2. b < a => a - b < OctetSpace
      BY <2>2, <2>3
    <3>3. AddressOf(a) = AddressOf(b)
      BY Zenon, <2>1
    <3>. QED  BY <2>2, <3>1, <3>2, <3>3, AddressInjective
  <2>. QED  BY Zenon, <2>1, <2>2, <2>4 DEF Inv, OwnInv
<1>. QED  BY <1>1, Invariance, PTL

\* A running client is in the table under its id and address and is reached at a
\* socket of its own, until the server is restarted or an hour passes.
THEOREM RunningRegistered == Spec => []RunningIsRegistered
<1>1. Inv => RunningIsRegistered
  <2>. SUFFICES ASSUME Inv, restarts = 0, hours = 0, NEW c \in Client, phase[c] = "running"
                PROVE  \E r \in sessions : r.id = cfg[c] /\ r.ip = ip[c] /\ r.addr[1] = c
    BY Zenon DEF RunningIsRegistered
  <2>1. cfg[c] \in SessionId /\ Owns(c, cfg[c]) /\ ip[c] = AddressOf(drawn[cfg[c]])
    BY Zenon, TunnelOfId
  <2>2. PICK r \in sessions : r.id = cfg[c]
    BY Zenon, <2>1 DEF Inv, KeptInv
  <2>3. r.addr[1] \in Client /\ r.ip \in Octet
    BY Zenon DEF Inv, TypeOK, ServerTypeOK, Session, Address
  <2>4. Owns(r.addr[1], cfg[c]) /\ Bears(cfg[c], r.ip)
    BY <2>2 DEF Owns, Bears
  <2>. QED  BY Zenon, <2>1, <2>2, <2>3, <2>4 DEF Inv, OwnInv, BearInv
<1>. QED  BY <1>1, Invariance, PTL

\* A client that starts with a session id on disk gets the address of that
\* session back, until the server is restarted or an hour passes.
THEOREM AddressKept == Spec => RestartKeepsAddress
<1>. DEFINE Kept == restarts = 0 /\ hours = 0 =>
                      \A c \in Client :
                         phase[c] = "device" /\ phase'[c] = "running" /\ base[c] # NoId =>
                             ip[c] = AddressOf(drawn[base[c]])
<1>1. Inv /\ [Next]_vars => [Kept]_vars
  <2>. SUFFICES ASSUME Inv, restarts = 0, hours = 0, NEW c \in Client, phase[c] = "device",
                       base[c] # NoId
                PROVE  ip[c] = AddressOf(drawn[base[c]])
    BY Zenon
  <2>1. base[c] \in SessionId /\ Owns(c, base[c])
    BY Zenon DEF Inv, TypeOK, ClientTypeOK, Owns
  <2>2. ~Lost(base[c])
    BY Zenon, <2>1 DEF Inv, KeptInv, Lost
  <2>3. cfg[c] = base[c]
    BY <2>2 DEF Inv, IdInv
  <2>. QED  BY Zenon, <2>3, TunnelOfId
<1>. QED  BY <1>1, Invariance, PTL DEF Spec, RestartKeepsAddress
=============================================================================
