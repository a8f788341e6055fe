----------------------------- MODULE UdpServer -----------------------------
(***************************************************************************)
(* The server when transport_type is "udp": one task (transport_io_task)   *)
(* receives datagrams, answers handshakes and routes packets to clients.   *)
(* The only other user of the session table is the sweep.  A sweep between *)
(* the lookup and the insert of a handshake changes nothing that the       *)
(* insert does not put back, so a handshake is one step.                   *)
(***************************************************************************)
EXTENDS Datagrams

CONSTANTS
    ServerToken,    \* server.token of the configuration
    FirstId,        \* initial value of NEXT_CLIENT_ID (2)
    MaxRestarts,    \* bound: restarts of the server
    MaxHours        \* bound: how often an hour passes

ASSUME ServerAssumption ==
    /\ ServerToken \in AnyToken
    /\ FirstId \in Nat \ {0}
    /\ {MaxRestarts, MaxHours} \subseteq Nat

VARIABLES
    sessions,   \* SESSIONS: Client records; aged stands for last_seen
    nextId,     \* NEXT_CLIENT_ID
    drawn,      \* history: the client number drawn with each session id, 0 if none
    restarts,   \* restarts so far
    hours       \* hours passed so far

serverVars == <<sessions, nextId, drawn, restarts, hours>>

\* struct Client.  aged: an hour has passed since last_seen.
Session == [id : SessionId, ip : Octet, addr : Address, aged : BOOLEAN]

\* Variants: no truncation to an octet, and an octet that avoids 0.
AddressOf_Wide(n) == n
AddressOf_SkipZero(n) == IF n % OctetSpace = 0 THEN 1 ELSE n % OctetSpace

AddressOf(n) == n % OctetSpace

ServerInit ==
    /\ sessions = {}
    /\ nextId = FirstId
    /\ drawn = [s \in SessionId |-> 0]
    /\ restarts = 0
    /\ hours = 0

\* validate_token; an empty token counts as not provided and is not validated.
TokenAccepted(token) ==
    token = NoToken \/ ServerToken = NoToken \/ token = ServerToken

Rejection(m) ==
    [type |-> "handshake", to |-> m.from, id |-> NoId, ip |-> NoIP, token |-> NoToken]

\* A variant that answers and does not insert.
Admit_NoInsert(m, id, ip) ==
    /\ Send([type |-> "handshake", to |-> m.from, id |-> id, ip |-> ip,
             token |-> ServerToken])
    /\ UNCHANGED sessions

\* The end of handle_handshake: the answer is sent, then the session inserted;
\* when the send fails nothing is inserted.
Admit(m, id, ip) ==
    \/ /\ Send([type |-> "handshake", to |-> m.from, id |-> id, ip |-> ip,
                token |-> ServerToken])
       /\ sessions' = {r \in sessions : r.id # id}
                        \cup {[id |-> id, ip |-> ip, addr |-> m.from, aged |-> FALSE]}
    \/ UNCHANGED <<net, sessions>>

\* A variant that allocates a new address for a known id.
Resume_NewAddress(m) ==
    /\ TokenAccepted(m.token)
    /\ \E r \in sessions : r.id = m.id /\ Admit(m, r.id, AddressOf(nextId))
    /\ nextId' = nextId + 1
    /\ UNCHANGED drawn

\* handle_handshake with an id the table holds ...
Resume(m) ==
    /\ TokenAccepted(m.token)
    /\ \E r \in sessions : r.id = m.id /\ Admit(m, r.id, r.ip)
    /\ UNCHANGED <<nextId, drawn>>

\* ... and without one.
Register(m) ==
    /\ TokenAccepted(m.token)
    /\ \A r \in sessions : r.id # m.id
    /\ \E s \in SessionId :
          /\ drawn[s] = 0
          /\ drawn' = [drawn EXCEPT ![s] = nextId]
          /\ nextId' = nextId + 1
          /\ Admit(m, s, AddressOf(nextId))

Reject(m) ==
    /\ ~TokenAccepted(m.token)
    /\ Send(Rejection(m))
    /\ UNCHANGED <<sessions, nextId, drawn>>

\* A handshake that comes while the configuration file cannot be read is
\* dropped, which is no step of the model.
ServeHandshake(m) ==
    /\ Resume(m) \/ Register(m) \/ Reject(m)
    /\ UNCHANGED <<restarts, hours>>

\* send_to_client: a packet read from the TUN device goes to the address of a
\* session with its destination.
RoutePacket(ip) ==
    /\ \E r \in sessions : r.ip = ip /\ Send([type |-> "data", to |-> r.addr])
    /\ UNCHANGED serverVars

HourPasses ==
    /\ hours < MaxHours
    /\ hours' = hours + 1
    /\ sessions' = {[id |-> r.id, ip |-> r.ip, addr |-> r.addr, aged |-> TRUE] : r \in sessions}
    /\ UNCHANGED <<net, nextId, drawn, restarts>>

\* cleanup_expired_sessions.
SweepAged ==
    /\ sessions' = {r \in sessions : ~r.aged}
    /\ UNCHANGED <<net, nextId, drawn, restarts, hours>>

\* The process ends (transport_io_task breaks on an error, or a crash) and is
\* started again: SESSIONS and NEXT_CLIENT_ID live in memory only.
RestartServer ==
    /\ restarts < MaxRestarts
    /\ restarts' = restarts + 1
    /\ sessions' = {}
    /\ nextId' = FirstId
    /\ UNCHANGED <<net, drawn, hours>>

ServerNext ==
    \/ \E m \in Requests : ServeHandshake(m)
    \/ \E ip \in Octet : RoutePacket(ip)
    \/ HourPasses \/ SweepAged \/ RestartServer

ServerTypeOK ==
    /\ sessions \subseteq Session
    /\ nextId \in Nat
    /\ drawn \in [SessionId -> Nat]
    /\ restarts \in 0 .. MaxRestarts
    /\ hours \in 0 .. MaxHours
=============================================================================
