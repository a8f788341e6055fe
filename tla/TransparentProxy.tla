-------------------------- MODULE TransparentProxy --------------------------
(***************************************************************************)
(* run_transparent_proxy: the inbound loops of the TCP, UDP and ICMP       *)
(* proxies in one select, the first of which to end cancels the others at  *)
(* the await they are in, while the tasks they have spawned run on.  Of    *)
(* the ICMP proxy, the module IcmpProxy, only its end is seen here.        *)
(***************************************************************************)
EXTENDS UdpProxy, TcpProxy

VARIABLE running    \* the select has not returned

proxyVars == <<vars, tcpVars, running>>

ProxyInit == Init /\ StreamInit /\ running = TRUE

\* A step of the inbound loop of the UDP proxy.
InboundMoves ==
    /\ running
    /\ FindSession \/ HandOver \/ DropEntry \/ \E s \in Session : SpawnSession(s)
    /\ UNCHANGED <<tcpVars, running>>

InboundReceives ==
    /\ running
    /\ \E k \in Key : Recv(k)
    /\ UNCHANGED <<tcpVars, running>>

StreamAccepted ==
    /\ running
    /\ \E t \in Stream : AcceptStream(t)
    /\ UNCHANGED <<vars, running>>

\* An error of accept or local_addr in the TCP loop, or of the raw socket in
\* the ICMP loop; the UDP loop goes on after its errors.  It is cancelled where
\* it waits: for a datagram or for the mutex.
Stop ==
    /\ running
    /\ main.pc \in {"recv", "lock", "drop"}
    /\ running' = FALSE
    /\ UNCHANGED <<vars, tcpVars>>

UdpTask(s) == SessionStep(s) /\ UNCHANGED <<tcpVars, running>>

TcpTask(t) == StreamStep(t) /\ UNCHANGED <<vars, running>>

ProxyNext ==
    \/ InboundReceives \/ InboundMoves \/ StreamAccepted \/ Stop
    \/ \E s \in Session : UdpTask(s)
    \/ \E t \in Stream : TcpTask(t)

ProxySpec == ProxyInit /\ [][ProxyNext]_proxyVars

\* A session task moves when it can, and when it has nothing to do it idles out
\* once its target falls silent.
SessionMoves(s) ==
    /\ \/ Open(s) \/ Take(s) \/ Relay(s) \/ Remove(s) \/ Leave(s)
       \/ chan[s] = <<>> /\ LoopEnds(s)
    /\ UNCHANGED <<tcpVars, running>>

\* The runtime runs every task that can move, and targets fall silent.
ProxyFairness ==
    /\ WF_proxyVars(InboundMoves)
    /\ \A s \in Session : WF_proxyVars(SessionMoves(s))

ProxyFairSpec == ProxySpec /\ ProxyFairness

-----------------------------------------------------------------------------
\* active_tcp counts the tasks between its increment and its decrement, on
\* every path through the task and after the proxy has stopped.
TcpActiveIsExact ==
    activeTcp = Cardinality({t \in Stream : stream[t] \in {"connect", "copy"}})

\* When the proxy stops, every UDP session ends, and with the last one the
\* socket and the table they share are released: the table holds a sender of
\* each session's own channel, so no session sees its channel closed and only
\* its timeout or an error ends it.
SessionsEndAfterStop ==
    ~running ~> \A s \in Session : pc[s] \in {"new", "gone"}
=============================================================================
