------------------------------- MODULE IoTask -------------------------------
(***************************************************************************)
(* A transport side that is one task: client_transport_io_task of a client *)
(* and transport_io_task of the UDP server.  Both receive from the network *)
(* and take from tunq in one select loop; they differ in what an error     *)
(* does, and only the client sends keepalives.                             *)
(***************************************************************************)
EXTENDS TunTask

CONSTANT
    MaxReceived     \* bound: data messages received from the peer

ASSUME IoTaskAssumption == MaxReceived \in Nat

VARIABLES
    io,         \* the transport task: where it is and the packet it is sending
    received,   \* data messages received, the numbers 1 .. received
    handled,    \* history: packets taken from tunq and sent, or not addressed
                \* to a session of the server
    beat        \* parity of the keepalives sent

ioVars == <<io, received, handled, beat>>

IoInit ==
    /\ io = Waiting
    /\ received = 0
    /\ handled = <<>>
    /\ beat = 0

\* transport.next() returns data.
ReceiveData ==
    /\ Alive /\ io = Waiting
    /\ received < MaxReceived
    /\ received' = received + 1
    /\ io' = Task("device", received')
    /\ UNCHANGED <<main, tunVars, handled, beat>>

\* transport.next() returns an error, the end of the stream or, to a client,
\* Disconnect.  The other messages change nothing here.
ConnectionEnds ==
    /\ Alive /\ io = Waiting
    /\ io' = Ended
    /\ UNCHANGED <<main, tunVars, received, handled, beat>>

\* A variant that drops the packet when the channel is full.
PassToDevice_Drops ==
    /\ Alive /\ io.at = "device"
    /\ io' = IF tun = Ended THEN Ended ELSE Waiting
    /\ netq' = IF tun # Ended /\ HasRoom(netq) THEN Append(netq, io.holds) ELSE netq
    /\ UNCHANGED <<mode, main, tun, proxy, tunq, directq, replyq, read, accepted, replies, toDevice,
                   received, handled, beat>>

\* transport_tx.send(payload).await; handle_data only logs its failure.
PassToDevice ==
    /\ Alive /\ io.at = "device"
    /\ \/ tun # Ended /\ HasRoom(netq) /\ netq' = Append(netq, io.holds) /\ io' = Waiting
       \/ /\ tun = Ended
          /\ io' = IF mode = "client" THEN Ended ELSE Waiting
          /\ UNCHANGED netq
    /\ UNCHANGED <<mode, main, tun, proxy, tunq, directq, replyq, read, accepted, replies, toDevice,
                   received, handled, beat>>

\* A variant that does not notice that its channel was closed.
SendToPeer_IgnoresClose ==
    /\ Alive /\ io = Waiting
    /\ tunq # <<>>
    /\ tunq' = Tail(tunq)
    /\ \/ io' = Waiting /\ handled' = Append(handled, Head(tunq))
       \/ mode = "client" /\ io' = Ended /\ UNCHANGED handled
    /\ UNCHANGED <<mode, main, tun, proxy, netq, directq, replyq, read, accepted, replies, toDevice,
                   received, beat>>

\* tun_rx.recv() and the send to the peer.  A failed send ends a client's task;
\* send_to_client of the server logs it.
SendToPeer ==
    /\ Alive /\ io = Waiting
    /\ \/ /\ tunq # <<>>
          /\ tunq' = Tail(tunq)
          /\ \/ io' = Waiting /\ handled' = Append(handled, Head(tunq))
             \/ mode = "client" /\ io' = Ended /\ UNCHANGED handled
       \/ /\ tunq = <<>> /\ tun = Ended
          /\ io' = Ended
          /\ UNCHANGED <<tunq, handled>>
    /\ UNCHANGED <<mode, main, tun, proxy, netq, directq, replyq, read, accepted, replies, toDevice,
                   received, beat>>

\* keepalive_interval.tick(): the timer is always due again; the send may fail.
SendKeepalive ==
    /\ Alive /\ io = Waiting
    /\ mode = "client"
    /\ \/ beat' = 1 - beat /\ UNCHANGED io
       \/ io' = Ended /\ UNCHANGED beat
    /\ UNCHANGED <<main, tunVars, received, handled>>

IoStep ==
    ReceiveData \/ ConnectionEnds \/ PassToDevice \/ SendToPeer \/ SendKeepalive

IoTypeOK ==
    /\ io \in {Waiting, Ended} \cup {Task("device", p) : p \in 1 .. MaxReceived}
    /\ received \in 0 .. MaxReceived
    /\ beat \in {0, 1}
=============================================================================
