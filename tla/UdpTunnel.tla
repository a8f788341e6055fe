----------------------------- MODULE UdpTunnel -----------------------------
(***************************************************************************)
(* Client processes and the UDP server over a network that loses, delays,  *)
(* reorders and duplicates datagrams; clients crash and retry, the server  *)
(* restarts and sweeps.                                                    *)
(***************************************************************************)
EXTENDS ClientProcess, UdpServer

vars == <<net, clientVars, serverVars>>

Init == net = {} /\ ClientInit /\ ServerInit

Next ==
    \/ ClientNext /\ UNCHANGED serverVars
    \/ ServerNext /\ UNCHANGED clientVars

Spec == Init /\ [][Next]_vars

-----------------------------------------------------------------------------
\* Every variable has its type.
TypeOK ==
    /\ net \subseteq Request \cup Answer \cup Packet
    /\ ClientTypeOK
    /\ ServerTypeOK

\* The tunnel of a client is only used once its session id is on disk, whatever
\* crashed, was retried or answered twice before: the id a later start presents
\* is the one in use (handshake_async saves before it returns).
PersistedBeforeUse ==
    \A c \in Client : phase[c] \in {"device", "running"} => file[c] = cfg[c]

\* Clients that are up at the same time never share a virtual address, as long
\* as the server has not been restarted and the octets have not been used up.
DistinctTunnelAddresses ==
    restarts = 0 /\ nextId <= FirstId + OctetSpace =>
        \A c, d \in Client :
            phase[c] = "running" /\ phase[d] = "running" /\ ip[c] = ip[d] => c = d

\* A running client is in the session table under its id and virtual address,
\* and the table sends its packets to one of its own sockets, unless the server
\* has been restarted or an hour has passed.
RunningIsRegistered ==
    restarts = 0 /\ hours = 0 =>
        \A c \in Client : phase[c] = "running" =>
            \E r \in sessions : r.id = cfg[c] /\ r.ip = ip[c] /\ r.addr[1] = c

\* A client whose process starts with a session id on disk gets that session's
\* virtual address back, unless the server has been restarted or an hour passed.
RestartKeepsAddress ==
    [][restarts = 0 /\ hours = 0 =>
         \A c \in Client :
            phase[c] = "device" /\ phase'[c] = "running" /\ base[c] # NoId =>
                ip[c] = AddressOf(drawn[base[c]])]_vars

\* A client that reconnects gets back the virtual address of the session it
\* last saved, unless the server has been restarted or an hour passed.
ReconnectKeepsAddress ==
    [][restarts = 0 /\ hours = 0 =>
         \A c \in Client :
            phase[c] = "await" /\ ip'[c] # ip[c] /\ file[c] \in SessionId =>
                ip'[c] = AddressOf(drawn[file[c]])]_vars
============================================================================
