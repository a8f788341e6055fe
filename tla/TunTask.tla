------------------------------ MODULE TunTask ------------------------------
(***************************************************************************)
(* The part of the process that the client and the servers share: the TUN  *)
(* task (tun_io_task) and the transparent proxy, joined to each other and  *)
(* to the transport side by four bounded channels.                         *)
(*                                                                         *)
(*   TUN task -- tunq --> transport side --> peers                         *)
(*   TUN task <-- netq -- transport side <-- peers                         *)
(*   TUN task -- directq --> transparent proxy -- replyq --> TUN task      *)
(***************************************************************************)
EXTENDS Integers, Sequences

CONSTANTS
    Capacity,       \* capacity of each channel (4096)
    MaxRead,        \* bound: packets read from the TUN device
    MaxReplies,     \* bound: packets the transparent proxy sends back
    Direct          \* bound: the modes whose rules send packets to the proxy

ASSUME TunTaskAssumption ==
    /\ Capacity \in Nat \ {0}
    /\ {MaxRead, MaxReplies} \subseteq Nat

VARIABLES
    mode,       \* what the process runs: "client", "udp" or "tcp" server
    main,       \* the function that runs the tasks: running, or what it returned
    tun,        \* TUN task: where it is and the packet it is sending
    proxy,      \* the transparent proxy is running
    tunq, netq, directq, replyq,
    read,       \* packets read from the TUN device, the numbers 1 .. read
    accepted,   \* history: the packets the rules sent to the tunnel
    replies,    \* packets the proxy sent back
    toDevice    \* history: packets of the peers written to the TUN device

tunVars == <<mode, tun, proxy, tunq, netq, directq, replyq, read, accepted, replies, toDevice>>

\* Packets are numbered from 1.
None == 0

Task(at, p) == [at |-> at, holds |-> p]

Waiting == Task("select", None)

Ended == Task("ended", None)

TunInit ==
    /\ main = "running"
    /\ tun = Waiting
    /\ proxy = TRUE
    /\ tunq = <<>> /\ netq = <<>> /\ directq = <<>> /\ replyq = <<>>
    /\ read = 0 /\ accepted = <<>> /\ replies = 0
    /\ toDevice = <<>>

\* The process exits when Ok is returned: nothing runs on.  A client that
\* returned Err is about to make its next attempt, and its tasks do run on.
Alive == main # "Ok"

\* A variant that lets one packet too many in.
HasRoom_OneMore(q) == Len(q) <= Capacity

HasRoom(q) == Len(q) < Capacity

\* transport_rx.recv(): the packet is written to the device; a failed write, or
\* a channel whose senders are gone, ends the task.
WriteReceived(sendersGone) ==
    /\ Alive /\ tun = Waiting
    /\ \/ /\ netq # <<>>
          /\ netq' = Tail(netq)
          /\ \/ tun' = Waiting /\ toDevice' = Append(toDevice, Head(netq))
             \/ tun' = Ended /\ UNCHANGED toDevice
       \/ /\ netq = <<>> /\ sendersGone
          /\ tun' = Ended
          /\ UNCHANGED <<netq, toDevice>>
    /\ UNCHANGED <<mode, main, proxy, tunq, directq, replyq, read, accepted, replies>>

\* direct_proxy_rx.recv(), likewise.
WriteReply ==
    /\ Alive /\ tun = Waiting
    /\ \/ /\ replyq # <<>>
          /\ replyq' = Tail(replyq)
          /\ tun' \in {Waiting, Ended}
       \/ /\ replyq = <<>> /\ ~proxy
          /\ tun' = Ended
          /\ UNCHANGED replyq
    /\ UNCHANGED <<mode, main, proxy, tunq, netq, directq, read, accepted, replies, toDevice>>

\* tun.read, and handle_packet_route up to the send its rule asks for.
ReadPacket ==
    /\ Alive /\ tun = Waiting
    /\ read < MaxRead
    /\ read' = read + 1
    /\ \/ tun' = Task("tunnel", read') /\ accepted' = Append(accepted, read')
       \/ mode \in Direct /\ tun' = Task("direct", read') /\ UNCHANGED accepted
       \/ tun' = Waiting /\ UNCHANGED accepted
    /\ UNCHANGED <<mode, main, proxy, tunq, netq, directq, replyq, replies, toDevice>>

ReadFails ==
    /\ Alive /\ tun = Waiting
    /\ tun' = Ended
    /\ UNCHANGED <<mode, main, proxy, tunq, netq, directq, replyq, read, accepted, replies, toDevice>>

\* tun_tx.send(packet).await
PassToTransport(receiverGone) ==
    /\ Alive /\ tun.at = "tunnel"
    /\ \/ /\ ~receiverGone /\ HasRoom(tunq)
          /\ tunq' = Append(tunq, tun.holds)
          /\ tun' = Waiting
       \/ receiverGone /\ tun' = Ended /\ UNCHANGED tunq
    /\ UNCHANGED <<mode, main, proxy, netq, directq, replyq, read, accepted, replies, toDevice>>

\* direct_proxy_tx.send(packet).await.  The thread that holds the receiver
\* notices the end of the proxy only when it next passes a packet on, so a
\* send may still succeed after it.
PassToProxy ==
    /\ Alive /\ tun.at = "direct"
    /\ \/ HasRoom(directq) /\ directq' = Append(directq, tun.holds) /\ tun' = Waiting
       \/ ~proxy /\ tun' = Ended /\ UNCHANGED directq
    /\ UNCHANGED <<mode, main, proxy, tunq, netq, replyq, read, accepted, replies, toDevice>>

-----------------------------------------------------------------------------
\* The transparent proxy, seen from its two channels.

ProxyTakes ==
    /\ Alive /\ proxy /\ directq # <<>>
    /\ directq' = Tail(directq)
    /\ UNCHANGED <<mode, main, tun, proxy, tunq, netq, replyq, read, accepted, replies, toDevice>>

ProxyReplies ==
    /\ Alive /\ proxy /\ tun # Ended
    /\ mode \in Direct /\ HasRoom(replyq) /\ replies < MaxReplies
    /\ replies' = replies + 1
    /\ replyq' = Append(replyq, replies')
    /\ UNCHANGED <<mode, main, tun, proxy, tunq, netq, directq, read, accepted, toDevice>>

\* One of the three proxies of run_transparent_proxy returns.
ProxyEnds ==
    /\ Alive /\ proxy
    /\ proxy' = FALSE
    /\ UNCHANGED <<mode, main, tun, tunq, netq, directq, replyq, read, accepted, replies, toDevice>>

TunStep(sendersGone, receiverGone) ==
    \/ WriteReceived(sendersGone) \/ WriteReply \/ ReadPacket \/ ReadFails
    \/ PassToTransport(receiverGone) \/ PassToProxy
    \/ ProxyTakes \/ ProxyReplies \/ ProxyEnds

-----------------------------------------------------------------------------
\* The TUN task and its channels have their types, within their capacities.
TunTypeOK ==
    /\ main \in {"running", "Ok", "Err"}
    /\ tun \in {Waiting, Ended} \cup {Task(at, p) : at \in {"tunnel", "direct"}, p \in 1 .. MaxRead}
    /\ proxy \in BOOLEAN
    /\ \A q \in {tunq, directq, replyq} : q \in Seq(Nat) /\ Len(q) <= Capacity
    /\ Len(netq) <= Capacity
    /\ read \in 0 .. MaxRead /\ replies \in 0 .. MaxReplies

Holding(task, at) == IF task.at = at THEN <<task.holds>> ELSE <<>>
=============================================================================
