------------------------------ MODULE Pipeline ------------------------------
(***************************************************************************)
(* The tasks of a running process: the TUN task and the transparent proxy  *)
(* with the transport side of a client (run_connected_client), of the UDP  *)
(* server (run_udp_server) or of a TCP or WebSocket server                 *)
(* (run_tcp_server, run_ws_server), and the select that waits for the      *)
(* first of them to end.                                                   *)
(***************************************************************************)
EXTENDS IoTask, ConnectionTasks

CONSTANT Mode   \* what the process may be: a subset of {"client", "udp", "tcp"}

vars == <<main, tunVars, ioVars, connVars>>

Init ==
    /\ mode \in Mode
    /\ TunInit /\ IoInit /\ ConnInit

\* Which ends of the channels are gone.  The accept loop of a
\* TCP or WebSocket server keeps a sender for itself.
SendersGone ==
    IF mode = "tcp" THEN listener = "panicked" ELSE io = Ended

ReceiverGone == IF mode = "tcp" THEN pump.at = "ended" ELSE io = Ended

\* A branch of the select is ready ...
TaskEnded == tun = Ended \/ (IF mode = "tcp" THEN listener = "panicked" ELSE io = Ended)

\* ... and taken.  A client returns the error of its TUN or transport task and
\* will retry; in every other case Ok is returned and the process exits.  The
\* handles of the other tasks are dropped, which lets them run on.
Return ==
    /\ main = "running"
    /\ \/ ~proxy /\ main' = "Ok"
       \/ TaskEnded /\ main' = IF mode = "client" THEN "Err" ELSE "Ok"
    /\ UNCHANGED <<tunVars, ioVars, connVars>>

Next ==
    \/ TunStep(SendersGone, ReceiverGone) /\ UNCHANGED <<ioVars, connVars>>
    \/ mode # "tcp" /\ IoStep /\ UNCHANGED connVars
    \/ mode = "tcp" /\ ConnStep /\ UNCHANGED ioVars
    \/ Return

Spec == Init /\ [][Next]_vars

\* What a task can do without a packet from outside.
TunMoves ==
    /\ \/ WriteReceived(SendersGone) \/ WriteReply
       \/ PassToTransport(ReceiverGone) \/ PassToProxy
    /\ UNCHANGED <<ioVars, connVars>>

IoMoves ==
    /\ mode # "tcp"
    /\ PassToDevice \/ SendToPeer
    /\ UNCHANGED connVars

TimerFires == SendKeepalive /\ UNCHANGED connVars

\* A task that can move is polled again, the channels wake their senders, and
\* the proxy's capture thread takes packets.  The bounds make this enough: a
\* branch of a select is not passed over for ever when the others run dry.
Fairness ==
    /\ WF_vars(TunMoves)
    /\ WF_vars(IoMoves) /\ WF_vars(TimerFires)
    /\ WF_vars(ProxyTakes /\ UNCHANGED <<ioVars, connVars>>)
    /\ WF_vars(Return)

FairSpec == Spec /\ Fairness

-----------------------------------------------------------------------------
\* Every variable has its type and no channel exceeds its capacity.
TypeOK ==
    /\ mode \in Mode
    /\ TunTypeOK /\ IoTypeOK /\ ConnTypeOK

\* Until a task ends no packet for the tunnel is lost, repeated or overtaken
\* between the TUN device and the network, in either direction: what was sent
\* on, what is queued and what a task is waiting to send are together the
\* packets taken in, in their order.
NothingLost ==
    mode # "tcp" /\ Ended \notin {tun, io} =>
        /\ handled \o tunq \o Holding(tun, "tunnel") = accepted
        /\ toDevice \o netq \o Holding(io, "device") = [i \in 1 .. received |-> i]

IsIncreasing(s) == \A i, j \in DOMAIN s : i < j => s[i] < s[j]

\* The messages of the connection that its task has passed on.
Passed(c) == IF conn[c].at = "device" THEN got[c] - 1 ELSE got[c]

\* The packets of a TCP or WebSocket client reach the TUN device in order and
\* none is lost or repeated, whatever the other connections do, while the TUN
\* task runs.
ClientOrderKept ==
    mode = "tcp" /\ tun # Ended =>
        LET s == toDevice \o netq
        IN  \A c \in Conn :
                /\ {x[2] : x \in {y \in Range(s) : y[1] = c}} = 1 .. Passed(c)
                /\ \A i, j \in DOMAIN s : i < j /\ s[i][1] = c /\ s[j][1] = c => s[i][2] < s[j][2]

\* Packets from the TUN device are handed out in the order in which they were
\* read, each to at most one client, and a client gets its packets in that order.
DeviceOrderKept ==
    mode = "tcp" =>
        /\ tun # Ended => pumped \o tunq \o Holding(tun, "tunnel") = accepted
        /\ \A c \in Conn :
              /\ IsIncreasing(forwarded[c] \o queue[c] \o
                    (IF pump.to = c THEN <<pump.holds>> ELSE <<>>))
              /\ \A d \in Conn \ {c} : Range(forwarded[c]) \cap Range(forwarded[d]) = {}

\* When one of the two tasks of a client or of the UDP server ends the other does
\* too, though its handle was dropped, unless the process exits: the next attempt
\* finds the TUN device and the connection of this one released.
FailureSpreads ==
    (mode # "tcp" /\ Ended \in {tun, io}) ~> (main = "Ok" \/ (tun = Ended /\ io = Ended))

\* A client that keeps running sends its keepalive again and again.
KeepaliveGoesOn ==
    \/ mode # "client"
    \/ <>(main = "Ok" \/ io = Ended)
    \/ ([]<>(beat = 0) /\ []<>(beat = 1))
=============================================================================
