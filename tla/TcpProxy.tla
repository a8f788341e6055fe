------------------------------ MODULE TcpProxy ------------------------------
(***************************************************************************)
(* The TCP part of the transparent proxy: handle_inbound_stream accepts    *)
(* connections of the user-space IP stack and spawns a task for each, which *)
(* connects to the target and copies both ways until either side ends.     *)
(***************************************************************************)
EXTENDS Integers, FiniteSets

CONSTANT Stream     \* inbound connections

VARIABLES
    stream,     \* where the task of each connection is
    activeTcp   \* stats.active_tcp

tcpVars == <<stream, activeTcp>>

StreamInit ==
    /\ stream = [t \in Stream |-> "new"]
    /\ activeTcp = 0

StreamGoto(t, from, to) ==
    /\ stream[t] = from
    /\ stream' = [stream EXCEPT ![t] = to]

\* A connection the filters do not allow is dropped at once.
AcceptStream(t) ==
    /\ StreamGoto(t, "new", "spawned") \/ StreamGoto(t, "new", "done")
    /\ UNCHANGED activeTcp

CountStream(t) ==
    /\ StreamGoto(t, "spawned", "connect")
    /\ activeTcp' = activeTcp + 1

\* A variant that forgets the counter when the target cannot be reached.
ConnectStream_NoCount(t) ==
    /\ StreamGoto(t, "connect", "copy") \/ StreamGoto(t, "connect", "done")
    /\ UNCHANGED activeTcp

\* new_tcp_stream
ConnectStream(t) ==
    \/ StreamGoto(t, "connect", "copy") /\ UNCHANGED activeTcp
    \/ StreamGoto(t, "connect", "done") /\ activeTcp' = activeTcp - 1

\* copy_bidirectional returns, with or without an error.
CopyEnds(t) ==
    /\ StreamGoto(t, "copy", "done")
    /\ activeTcp' = activeTcp - 1

StreamStep(t) == CountStream(t) \/ ConnectStream(t) \/ CopyEnds(t)
=============================================================================
