----------------------------- MODULE Datagrams -----------------------------
(***************************************************************************)
(* The network between the clients and the server when transport_type is   *)
(* "udp".  A datagram that was sent stays deliverable for ever: it may be   *)
(* delayed, overtaken, delivered more than once, or never (it is lost).     *)
(***************************************************************************)
EXTENDS Integers, FiniteSets

CONSTANTS
    Client,         \* client processes
    SessionId,      \* the identifiers build_session_id may draw
    NoId,           \* the empty session id
    Token,          \* non-empty tokens
    NoToken,        \* the empty token
    OctetSpace,     \* number of values of the last address octet (256)
    MaxAttempts     \* bound: connection attempts (sockets bound) per client

ASSUME DatagramsAssumption ==
    /\ NoId \notin SessionId
    /\ NoToken \notin Token
    /\ OctetSpace \in Nat \ {0}
    /\ MaxAttempts \in Nat

VARIABLE net    \* the datagrams that may still be delivered

\* Each attempt binds port 0: a client's k-th socket has an address of its own.
Address == Client \X (1 .. MaxAttempts)

Octet == 0 .. OctetSpace - 1

NoIP == -1

AnyToken == Token \cup {NoToken}

\* Messages to the server.  Keepalives and data change nothing there.
Request == [type : {"handshake"}, from : Address, id : SessionId \cup {NoId},
            token : AnyToken]

\* Messages to a client: the answer to a handshake, with ip = NoIP when it
\* holds no tun_config, and packets routed to the client.
Answer == [type : {"handshake"}, to : Address, id : SessionId \cup {NoId},
           ip : Octet \cup {NoIP}, token : AnyToken]

Packet == [type : {"data"}, to : Address]

Requests == {m \in net : "from" \in DOMAIN m}

ArrivedAt(a) == {m \in net : "to" \in DOMAIN m /\ m.to = a}

Send(m) == net' = net \cup {m}
=============================================================================
