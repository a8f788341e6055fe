--------------------------- MODULE ClientProcess ---------------------------
(***************************************************************************)
(* The client processes: run_client loads the configuration and the state  *)
(* file once, run_client_with_retry makes attempts, and each attempt is a  *)
(* handshake (handshake_async), the creation of the TUN device and the     *)
(* life of the tunnel (run_connected_client).  Transport "udp".            *)
(***************************************************************************)
EXTENDS Datagrams

CONSTANTS
    ClientToken,    \* client.token of the configuration
    Torn,           \* content of a state file that was emptied and not yet written
    MaxDelay        \* max_retry_delay (300 s)

ASSUME ClientAssumption ==
    /\ ClientToken \in AnyToken
    /\ Torn \notin SessionId \cup {NoId}
    /\ MaxDelay \in Nat \ {0}

VARIABLES
    file,       \* session_id in client_state.yaml, NoId if there is no file
    base,       \* config.session_id as run_client loaded it
    cfg,        \* config.session_id of the current attempt
    ip,         \* the address in the tun_config of the current attempt
    phase,      \* where the process is
    sock,       \* number of sockets bound so far
    delay       \* retry_delay

clientVars == <<file, base, cfg, ip, phase, sock, delay>>

\* "down" no process, "attempt" about to connect, "await" the answer, "empty"
\* and "write" the two effects of save_client_state, "device" about to create the
\* TUN device, "running" run_connected_client, "backoff" the sleep before a retry.
Phase == {"down", "attempt", "await", "empty", "write", "device", "running",
          "backoff"}

ClientInit ==
    /\ file = [c \in Client |-> NoId]
    /\ base = [c \in Client |-> NoId]
    /\ cfg = [c \in Client |-> NoId]
    /\ ip = [c \in Client |-> NoIP]
    /\ phase = [c \in Client |-> "down"]
    /\ sock = [c \in Client |-> 0]
    /\ delay = [c \in Client |-> 1]

Here(c) == <<c, sock[c]>>

Goto(c, from, to) ==
    /\ phase[c] \in from
    /\ phase' = [phase EXCEPT ![c] = to]

\* load_client_state: the default state when there is no file.  An emptied file
\* is read as the default state too, or is an error that the caller returns.
Loaded(c) == IF file[c] = Torn THEN NoId ELSE file[c]

\* run_client.  When the state cannot be loaded the process ends again.
Start(c) ==
    /\ Goto(c, {"down"}, "attempt")
    /\ base' = [base EXCEPT ![c] = Loaded(c)]
    /\ delay' = [delay EXCEPT ![c] = 1]
    /\ UNCHANGED <<net, file, cfg, ip, sock>>

\* run_client_from_config works on a clone of the configuration loaded by
\* run_client.  Binding the socket or sending may fail.
Attempt(c) ==
    /\ sock[c] < MaxAttempts
    /\ sock' = [sock EXCEPT ![c] = @ + 1]
    /\ cfg' = [cfg EXCEPT ![c] = base[c]]
    /\ \/ /\ Goto(c, {"attempt"}, "await")
          /\ Send([type |-> "handshake", from |-> <<c, sock[c] + 1>>,
                   id |-> base[c], token |-> ClientToken])
       \/ Goto(c, {"attempt"}, "backoff") /\ UNCHANGED net
    /\ UNCHANGED <<file, base, ip, delay>>

\* The first message of the handshake.  Anything but a handshake with the
\* client's own token and a tun_config fails the attempt.
Usable(m) == m.type = "handshake" /\ m.token = ClientToken /\ m.ip # NoIP

RecvAnswer(c, m) ==
    /\ \/ /\ ~Usable(m)
          /\ Goto(c, {"await"}, "backoff")
          /\ UNCHANGED <<cfg, ip>>
       \/ /\ Usable(m)
          /\ m.id = cfg[c]
          /\ Goto(c, {"await"}, "device")
          /\ ip' = [ip EXCEPT ![c] = m.ip]
          /\ UNCHANGED cfg
       \/ /\ Usable(m)
          /\ m.id # cfg[c]
          /\ cfg' = [cfg EXCEPT ![c] = m.id]
          /\ \/ /\ Goto(c, {"await"}, "empty")
                /\ ip' = [ip EXCEPT ![c] = m.ip]
             \/ /\ file[c] = Torn
                /\ Goto(c, {"await"}, "backoff")
                /\ UNCHANGED ip
    /\ UNCHANGED <<net, file, base, sock, delay>>

Timeout(c) ==
    /\ Goto(c, {"await"}, "backoff")
    /\ UNCHANGED <<net, file, base, cfg, ip, sock, delay>>

\* save_client_state is std::fs::write: the file is emptied, then written; an
\* error of either fails the attempt.
EmptyFile(c) ==
    /\ \/ /\ Goto(c, {"empty"}, "write")
          /\ file' = [file EXCEPT ![c] = Torn]
       \/ Goto(c, {"empty"}, "backoff") /\ UNCHANGED file
    /\ UNCHANGED <<net, base, cfg, ip, sock, delay>>

\* A variant that goes on when the write fails.
WriteFile_IgnoresError(c) ==
    /\ Goto(c, {"write"}, "device")
    /\ file' = [file EXCEPT ![c] = cfg[c]] \/ UNCHANGED file
    /\ UNCHANGED <<net, base, cfg, ip, sock, delay>>

WriteFile(c) ==
    /\ \/ /\ Goto(c, {"write"}, "device")
          /\ file' = [file EXCEPT ![c] = cfg[c]]
       \/ Goto(c, {"write"}, "backoff") /\ UNCHANGED file
    /\ UNCHANGED <<net, base, cfg, ip, sock, delay>>

\* create_tun_device, which may fail, and the start of run_connected_client.
CreateDevice(c) ==
    /\ Goto(c, {"device"}, "running") \/ Goto(c, {"device"}, "backoff")
    /\ UNCHANGED <<net, file, base, cfg, ip, sock, delay>>

\* run_connected_client ends: with an error, which is retried, or because the
\* direct proxy ended, which ends the process.
TunnelEnds(c) ==
    /\ Goto(c, {"running"}, "backoff") \/ Goto(c, {"running"}, "down")
    /\ UNCHANGED <<net, file, base, cfg, ip, sock, delay>>

Retry(c) ==
    /\ Goto(c, {"backoff"}, "attempt")
    /\ delay' = [delay EXCEPT ![c] = IF 2 * @ < MaxDelay THEN 2 * @ ELSE MaxDelay]
    /\ UNCHANGED <<net, file, base, cfg, ip, sock>>

\* The process is killed, at any point.
Crash(c) ==
    /\ Goto(c, Phase \ {"down"}, "down")
    /\ UNCHANGED <<net, file, base, cfg, ip, sock, delay>>

ClientNext ==
    \E c \in Client :
        \/ Start(c) \/ Attempt(c) \/ Timeout(c) \/ EmptyFile(c) \/ WriteFile(c)
        \/ CreateDevice(c) \/ TunnelEnds(c) \/ Retry(c) \/ Crash(c)
        \/ \E m \in ArrivedAt(Here(c)) : RecvAnswer(c, m)

ClientTypeOK ==
    /\ file \in [Client -> SessionId \cup {NoId, Torn}]
    /\ base \in [Client -> SessionId \cup {NoId}]
    /\ cfg \in [Client -> SessionId \cup {NoId}]
    /\ ip \in [Client -> Octet \cup {NoIP}]
    /\ phase \in [Client -> Phase]
    /\ sock \in [Client -> 0 .. MaxAttempts]
    /\ delay \in [Client -> 1 .. MaxDelay]
=============================================================================
