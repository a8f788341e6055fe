--------------------------- MODULE PipelineProofs ---------------------------
(***************************************************************************)
(* Proofs that the tasks of Pipeline and the channels between them keep    *)
(* their types and capacities, and that no packet is lost, repeated or     *)
(* reordered on its way, for any capacity and any connections.             *)
(***************************************************************************)
EXTENDS Pipeline, SequenceTheorems, TLAPS

\* What travels to the TUN device: a number, or a number of a connection.
Item == IF mode = "tcp" THEN Conn \X Nat ELSE Nat

\* What is read from the TUN device.
Packet == 1 .. MaxRead

Queue(S) == {q \in Seq(S) : Len(q) <= Capacity}

DeviceTypes ==
    /\ main \in {"running", "Ok", "Err"}
    /\ tun \in {Waiting, Ended} \cup {Task(at, p) : at \in {"tunnel", "direct"}, p \in 1 .. MaxRead}
    /\ tunq \in Queue(Packet) /\ directq \in Queue(Nat) /\ replyq \in Queue(Nat)
    /\ netq \in Queue(Item) /\ toDevice \in Seq(Item)
    /\ read \in 0 .. MaxRead /\ replies \in 0 .. MaxReplies /\ accepted \in Seq(Nat)

TransportTypes ==
    /\ IoTypeOK /\ ConnTypeOK
    /\ handled \in Seq(Nat) /\ pumped \in Seq(Nat) /\ forwarded \in [Conn -> Seq(Nat)]
    /\ \A c \in Conn : conn[c].at = "device" => got[c] # 0

Types == mode \in Mode /\ proxy \in BOOLEAN /\ DeviceTypes /\ TransportTypes

-----------------------------------------------------------------------------
\* Types.

LEMMA PacketNat ==
    /\ Packet \subseteq Nat
    /\ \A q \in Queue(Packet) : q \in Queue(Nat) /\ q \in Seq(Nat)
<1>1. Packet \subseteq Nat
  BY TunTaskAssumption DEF Packet
<1>2. \A q \in Seq(Packet) : q \in Seq(Nat)
  BY Zenon, <1>1, SeqMonotonic
<1>. QED  BY <1>1, <1>2 DEF Queue

LEMMA TypesSuffice == Types => TypeOK
<1>. SUFFICES ASSUME Types PROVE TypeOK
  OBVIOUS
<1>1. tunq \in Seq(Nat) /\ Len(tunq) <= Capacity
  BY PacketNat DEF Types, DeviceTypes, Queue
<1>. QED  BY <1>1 DEF Types, DeviceTypes, TransportTypes, TypeOK, TunTypeOK, Queue

\* What the channels do keeps them in their capacity.
LEMMA QueueTypes ==
    ASSUME NEW S, NEW q \in Queue(S)
    PROVE  /\ q \in Seq(S)
           /\ q # <<>> => Head(q) \in S /\ Tail(q) \in Queue(S)
           /\ \A x \in S : HasRoom(q) => Append(q, x) \in Queue(S)
<1>1. q \in Seq(S) /\ Len(q) \in Nat /\ Len(q) <= Capacity /\ Capacity \in Nat
  BY TunTaskAssumption, LenProperties DEF Queue
<1>2. ASSUME q # <<>>
      PROVE  Head(q) \in S /\ Tail(q) \in Queue(S)
  <2>1. Head(q) \in S /\ Tail(q) \in Seq(S) /\ Len(Tail(q)) = Len(q) - 1
    BY <1>1, <1>2, HeadTailProperties
  <2>. QED  BY <1>1, <2>1 DEF Queue
<1>3. ASSUME NEW x \in S, HasRoom(q)
      PROVE  Append(q, x) \in Queue(S)
  <2>1. Append(q, x) \in Seq(S) /\ Len(Append(q, x)) = Len(q) + 1
    BY <1>1, AppendProperties
  <2>. QED  BY <1>1, <1>3, <2>1 DEF Queue, HasRoom
<1>. QED  BY <1>1, <1>2, <1>3

LEMMA TunFacts ==
    ASSUME DeviceTypes
    PROVE  /\ tun.at \in {"select", "ended", "tunnel", "direct"}
           /\ tun.at = "select" <=> tun = Waiting
           /\ tun.at = "ended" <=> tun = Ended
           /\ tun.at \in {"tunnel", "direct"} => tun.holds \in 1 .. MaxRead /\ tun.holds \in Nat
           /\ read \in Nat /\ MaxRead \in Nat /\ replies \in Nat /\ MaxReplies \in Nat
BY TunTaskAssumption DEF DeviceTypes, Waiting, Ended, Task, None

\* The steps of the TUN task and the proxy, as far as the tunnel goes ...
Writes ==
    /\ tun = Waiting /\ tun' = Waiting
    /\ netq # <<>> /\ netq' = Tail(netq) /\ toDevice' = Append(toDevice, Head(netq))
    /\ UNCHANGED <<tunq, read, accepted>>

Reads ==
    /\ tun = Waiting /\ read < MaxRead /\ read' = read + 1
    /\ \/ tun' = Task("tunnel", read') /\ accepted' = Append(accepted, read')
       \/ tun' \in {Task("direct", read'), Waiting} /\ accepted' = accepted
    /\ UNCHANGED <<tunq, netq, toDevice>>

Passes ==
    /\ tun.at = "tunnel" /\ tun' = Waiting
    /\ HasRoom(tunq) /\ tunq' = Append(tunq, tun.holds)
    /\ UNCHANGED <<netq, read, accepted, toDevice>>

Stops ==
    /\ tun' = Ended
    /\ netq' = netq \/ (netq # <<>> /\ netq' = Tail(netq))
    /\ UNCHANGED <<tunq, read, accepted, toDevice>>

Aside ==
    /\ tun' = tun \/ (tun.at \in {"select", "direct"} /\ tun' = Waiting)
    /\ UNCHANGED <<tunq, netq, read, accepted, toDevice>>

\* ... and the two channels of the proxy.
Sides ==
    /\ \/ directq' = directq
       \/ directq # <<>> /\ directq' = Tail(directq)
       \/ tun.at = "direct" /\ HasRoom(directq) /\ directq' = Append(directq, tun.holds)
    /\ \/ replies' = replies /\ (replyq' = replyq \/ (replyq # <<>> /\ replyq' = Tail(replyq)))
       \/ /\ replies < MaxReplies /\ replies' = replies + 1
          /\ HasRoom(replyq) /\ replyq' = Append(replyq, replies')

TunEffect ==
    /\ Writes \/ Reads \/ Passes \/ Stops \/ Aside
    /\ Sides
    /\ UNCHANGED <<main, mode>>

LEMMA TunHasEffect ==
    ASSUME NEW gone, NEW closed, TunStep(gone, closed)
    PROVE  TunEffect /\ (proxy' = proxy \/ proxy' = FALSE)
<1>. USE DEF TunEffect, Sides
<1>1. CASE WriteReceived(gone)
  BY <1>1 DEF WriteReceived, Writes, Stops
<1>2. CASE WriteReply
  BY <1>2 DEF WriteReply, Stops, Aside, Waiting, Task
<1>3. CASE ReadPacket
  BY <1>3 DEF ReadPacket, Reads
<1>4. CASE ReadFails
  BY <1>4 DEF ReadFails, Stops
<1>5. CASE PassToTransport(closed)
  BY <1>5 DEF PassToTransport, Passes, Stops
<1>6. CASE PassToProxy
  BY <1>6 DEF PassToProxy, Aside, Stops
<1>7. CASE ProxyTakes
  BY <1>7 DEF ProxyTakes, Aside
<1>8. CASE ProxyReplies
  BY <1>8 DEF ProxyReplies, Aside
<1>9. CASE ProxyEnds
  BY Zenon, <1>9 DEF ProxyEnds, Aside
<1>. QED  BY Zenon, <1>1, <1>2, <1>3, <1>4, <1>5, <1>6, <1>7, <1>8, <1>9 DEF TunStep

LEMMA TunTypes ==
    ASSUME DeviceTypes, TunEffect
    PROVE  DeviceTypes'
<1>0. main' = main /\ Item' = Item
  BY DEF TunEffect, Item
<1>1. directq' \in Queue(Nat) /\ replyq' \in Queue(Nat) /\ replies' \in 0 .. MaxReplies
  <2>1. directq' \in Queue(Nat)
    <3>1. directq \in Queue(Nat) /\ (tun.at = "direct" => tun.holds \in Nat)
      BY TunFacts DEF DeviceTypes
    <3>2. \/ directq' = directq
          \/ directq # <<>> /\ directq' = Tail(directq)
          \/ tun.at = "direct" /\ HasRoom(directq) /\ directq' = Append(directq, tun.holds)
      BY DEF TunEffect, Sides
    <3>. QED  BY Zenon, <3>1, <3>2, QueueTypes
  <2>2. replies' \in 0 .. MaxReplies /\ replies' \in Nat
    BY TunFacts DEF TunEffect, Sides, DeviceTypes
  <2>3. replyq' \in Queue(Nat)
    <3>1. replyq \in Queue(Nat)
      BY DEF DeviceTypes
    <3>2. \/ replyq' = replyq
          \/ replyq # <<>> /\ replyq' = Tail(replyq)
          \/ HasRoom(replyq) /\ replyq' = Append(replyq, replies')
      BY DEF TunEffect, Sides
    <3>. QED  BY Zenon, <2>2, <3>1, <3>2, QueueTypes
  <2>. QED  BY <2>1, <2>2, <2>3
<1>2. CASE Writes
  <2>1. Head(netq) \in Item /\ Tail(netq) \in Queue(Item)
    BY <1>2, QueueTypes DEF DeviceTypes, Writes
  <2>2. Append(toDevice, Head(netq)) \in Seq(Item)
    BY <2>1, AppendProperties DEF DeviceTypes
  <2>. QED  BY <1>0, <1>1, <1>2, <2>1, <2>2 DEF Writes, DeviceTypes
<1>3. CASE Reads
  <2>1. read' \in 1 .. MaxRead /\ read' \in Nat /\ read' \in 0 .. MaxRead
    BY <1>3, TunFacts DEF Reads
  <2>2. accepted' \in Seq(Nat)
    <3>1. accepted' = accepted \/ accepted' = Append(accepted, read')
      BY <1>3 DEF Reads
    <3>2. accepted \in Seq(Nat)
      BY DEF DeviceTypes
    <3>. QED  BY <2>1, <3>1, <3>2, AppendProperties
  <2>3. tun' = Waiting \/ tun' = Task("tunnel", read') \/ tun' = Task("direct", read')
    BY <1>3 DEF Reads
  <2>. QED  BY <1>0, <1>1, <1>3, <2>1, <2>2, <2>3 DEF Reads, DeviceTypes
<1>4. CASE Passes
  <2>1. Append(tunq, tun.holds) \in Queue(Packet)
    <3>1. HasRoom(tunq) /\ tun.holds \in Packet /\ tunq \in Queue(Packet)
      BY <1>4, TunFacts DEF Passes, DeviceTypes, Packet
    <3>. QED  BY Zenon, <3>1, QueueTypes
  <2>. QED  BY <1>0, <1>1, <1>4, <2>1 DEF Passes, DeviceTypes
<1>5. CASE Stops
  <2>1. netq \in Queue(Item) /\ toDevice \in Seq(Item)
    BY DEF DeviceTypes
  <2>2. netq # <<>> => Tail(netq) \in Queue(Item)
    BY <2>1, QueueTypes
  <2>3. netq' = netq \/ (netq # <<>> /\ netq' = Tail(netq))
    BY <1>5 DEF Stops
  <2>4. netq' \in Queue(Item) /\ toDevice' \in Seq(Item)
    BY Zenon, <1>5, <2>1, <2>2, <2>3 DEF Stops
  <2>. QED  BY <1>0, <1>1, <1>5, <2>4 DEF Stops, DeviceTypes
<1>6. CASE Aside
  BY <1>0, <1>1, <1>6 DEF Aside, DeviceTypes
<1>. QED  BY <1>2, <1>3, <1>4, <1>5, <1>6 DEF TunEffect

-----------------------------------------------------------------------------
\* The transport side that is one task.

IoReceives ==
    /\ io = Waiting /\ received < MaxReceived /\ received' = received + 1
    /\ io' = Task("device", received')
    /\ UNCHANGED <<tunq, netq, handled>>

IoPasses ==
    /\ io.at = "device" /\ io' = Waiting
    /\ HasRoom(netq) /\ netq' = Append(netq, io.holds)
    /\ UNCHANGED <<tunq, received, handled>>

IoSends ==
    /\ io = Waiting /\ io' = Waiting
    /\ tunq # <<>> /\ tunq' = Tail(tunq) /\ handled' = Append(handled, Head(tunq))
    /\ UNCHANGED <<netq, received>>

\* Only the end of a task makes it drop a packet.
IoStops ==
    /\ io' = Ended \/ (tun = Ended /\ io' = Waiting)
    /\ tunq' = tunq \/ (tunq # <<>> /\ tunq' = Tail(tunq))
    /\ UNCHANGED <<netq, received, handled>>

IoRests == UNCHANGED <<io, tunq, netq, received, handled>>

IoEffect ==
    /\ IoReceives \/ IoPasses \/ IoSends \/ IoStops \/ IoRests
    /\ beat' \in {beat, 1 - beat}
    /\ UNCHANGED <<mode, main, tun, proxy, directq, replyq, read, accepted, replies, toDevice>>

LEMMA IoHasEffect ==
    ASSUME IoStep
    PROVE  IoEffect
<1>. USE DEF IoEffect, tunVars
<1>1. CASE ReceiveData
  BY <1>1 DEF ReceiveData, IoReceives
<1>2. CASE ConnectionEnds
  BY <1>2 DEF ConnectionEnds, IoStops
<1>3. CASE PassToDevice
  BY <1>3 DEF PassToDevice, IoPasses, IoStops
<1>4. CASE SendToPeer
  BY <1>4 DEF SendToPeer, IoSends, IoStops
<1>5. CASE SendKeepalive
  BY <1>5 DEF SendKeepalive, IoStops, IoRests
<1>. QED  BY Zenon, <1>1, <1>2, <1>3, <1>4, <1>5 DEF IoStep

LEMMA IoFacts ==
    ASSUME IoTypeOK
    PROVE  /\ io.at = "device" => io.holds \in 1 .. MaxReceived /\ io.holds \in Nat
           /\ io.at \in {"select", "ended", "device"}
           /\ io.at = "select" <=> io = Waiting
           /\ io.at = "ended" <=> io = Ended
           /\ received \in Nat
BY DEF IoTypeOK, Waiting, Ended, Task, None

LEMMA IoTypes ==
    ASSUME Types, mode # "tcp", IoEffect, UNCHANGED connVars
    PROVE  Types'
<1>0. /\ DeviceTypes /\ IoTypeOK /\ Item = Nat /\ Item' = Nat /\ mode' \in Mode /\ proxy' \in BOOLEAN
      /\ UNCHANGED <<main, tun, directq, replyq, read, accepted, replies, toDevice>>
      /\ tunq \in Queue(Packet) /\ netq \in Queue(Nat) /\ handled \in Seq(Nat)
  BY DEF Types, DeviceTypes, TransportTypes, Item, IoEffect
<1>1. tunq' \in Queue(Packet) /\ handled' \in Seq(Nat)
  <2>1. tunq' = tunq \/ (tunq # <<>> /\ tunq' = Tail(tunq))
    BY DEF IoEffect, IoReceives, IoPasses, IoSends, IoStops, IoRests
  <2>2. handled' = handled \/ (tunq # <<>> /\ handled' = Append(handled, Head(tunq)))
    BY DEF IoEffect, IoReceives, IoPasses, IoSends, IoStops, IoRests
  <2>3. tunq # <<>> => Head(tunq) \in Nat /\ Tail(tunq) \in Queue(Packet)
    BY Zenon, <1>0, QueueTypes, PacketNat
  <2>4. tunq' \in Queue(Packet)
    BY Zenon, <1>0, <2>1, <2>3
  <2>. QED  BY <1>0, <2>2, <2>3, <2>4, AppendProperties
<1>2. netq' \in Queue(Nat)
  <2>1. netq' = netq \/ (io.at = "device" /\ HasRoom(netq) /\ netq' = Append(netq, io.holds))
    BY DEF IoEffect, IoReceives, IoPasses, IoSends, IoStops, IoRests
  <2>2. io.at = "device" => io.holds \in Nat
    BY <1>0, IoFacts
  <2>. QED  BY Zenon, <1>0, <2>1, <2>2, QueueTypes
<1>3. IoTypeOK'
  <2>1. /\ \/ received' = received
           \/ received < MaxReceived /\ received' = received + 1
        /\ io' \in {io, Waiting, Ended} \/ (received' = received + 1 /\ io' = Task("device", received'))
        /\ beat' \in {beat, 1 - beat}
    BY DEF IoEffect, IoReceives, IoPasses, IoSends, IoStops, IoRests
  <2>2. received' \in 0 .. MaxReceived
    BY <1>0, <2>1, IoTaskAssumption DEF IoTypeOK
  <2>3. io' \in {io, Waiting, Ended} \/ (received' \in 1 .. MaxReceived /\ io' = Task("device", received'))
    BY <1>0, <2>1, <2>2 DEF IoTypeOK
  <2>4. beat' \in {0, 1}
    BY <1>0, <2>1 DEF IoTypeOK
  <2>. QED  BY Zenon, <1>0, <2>2, <2>3, <2>4 DEF IoTypeOK
<1>4. DeviceTypes'
  BY <1>0, <1>1, <1>2 DEF DeviceTypes
<1>5. /\ ConnTypeOK' /\ pumped' \in Seq(Nat) /\ forwarded' \in [Conn -> Seq(Nat)]
      /\ \A c \in Conn : conn'[c].at = "device" => got'[c] # 0
  <2>1. UNCHANGED <<listener, open, conn, pump, queue, pumped, got, forwarded>>
    BY Zenon DEF connVars
  <2>2. ConnTypeOK'
    BY <2>1 DEF Types, TransportTypes, ConnTypeOK
  <2>. QED  BY <2>1, <2>2 DEF Types, TransportTypes
<1>. QED  BY Zenon, <1>0, <1>1, <1>3, <1>4, <1>5 DEF Types, TransportTypes

-----------------------------------------------------------------------------
\* The transport side with connections.

Takes ==
    /\ pump = PumpIdle
    /\ pump' = pump \/ \E c \in open : pump' = Pump("send", Head(tunq), c)
    /\ tunq # <<>> /\ tunq' = Tail(tunq) /\ pumped' = Append(pumped, Head(tunq))
    /\ UNCHANGED <<netq, conn, queue, got, forwarded>>

Sends ==
    /\ pump.at = "send" /\ pump' = PumpIdle
    /\ \/ HasRoom(queue[pump.to]) /\ queue' = [queue EXCEPT ![pump.to] = Append(@, pump.holds)]
       \/ queue' = queue
    /\ UNCHANGED <<tunq, netq, conn, pumped, got, forwarded>>

Receives(c) ==
    /\ conn[c] = Waiting /\ conn' = [conn EXCEPT ![c] = Task("device", got[c] + 1)]
    /\ got' = [got EXCEPT ![c] = @ + 1]
    /\ UNCHANGED <<tunq, netq, pump, queue, pumped, forwarded>>

PassesOn(c) ==
    /\ conn[c].at = "device" /\ conn' = [conn EXCEPT ![c] = Waiting]
    /\ \/ HasRoom(netq) /\ netq' = Append(netq, <<c, conn[c].holds>>)
       \/ tun = Ended /\ netq' = netq
    /\ UNCHANGED <<tunq, pump, queue, pumped, got, forwarded>>

Forwards(c) ==
    /\ conn[c] = Waiting
    /\ \E t \in {Waiting, Task("closing", None)} : conn' = [conn EXCEPT ![c] = t]
    /\ queue[c] # <<>> /\ queue' = [queue EXCEPT ![c] = Tail(@)]
    /\ forwarded' = forwarded \/ forwarded' = [forwarded EXCEPT ![c] = Append(@, Head(queue[c]))]
    /\ UNCHANGED <<tunq, netq, pump, pumped, got>>

\* Neither the task nor the pump moves a packet.
Moves(c) ==
    /\ conn[c].at # "device"
    /\ \E t \in {Waiting, Ended, Task("lock", None), Task("closing", None)} :
          conn' = [conn EXCEPT ![c] = t]
    /\ queue' = queue \/ queue' = [queue EXCEPT ![c] = <<>>]
    /\ UNCHANGED <<tunq, netq, pump, pumped, got, forwarded>>

PumpRests ==
    /\ pump' = pump \/ (pump = PumpIdle /\ pump' = PumpEnded)
    /\ UNCHANGED <<tunq, netq, conn, queue, pumped, got, forwarded>>

ConnEffect ==
    /\ \/ Takes \/ Sends \/ PumpRests
       \/ \E c \in Conn : Receives(c) \/ PassesOn(c) \/ Forwards(c) \/ Moves(c)
    /\ listener' \in {listener, "listening", "panicked"}
    /\ open' \subseteq open \cup Conn
    /\ UNCHANGED <<mode, main, tun, proxy, directq, replyq, read, accepted, replies, toDevice>>

LEMMA ConnHasEffect ==
    ASSUME ConnStep
    PROVE  ConnEffect
<1>. USE DEF ConnEffect, tunVars, Goto
<1>1. CASE PumpTakes
  BY Zenon, <1>1 DEF PumpTakes, Takes
<1>2. CASE PumpSends
  BY <1>2 DEF PumpSends, Sends
<1>3. CASE PumpEnds
  BY <1>3 DEF PumpEnds, PumpRests
<1>4. CASE Bind
  BY <1>4 DEF Bind, PumpRests
<1>0. "device" \notin {New.at, Waiting.at, Task("lock", None).at, Task("closing", None).at}
  BY DEF New, Waiting, Task
<1>5. ASSUME NEW c \in Conn, Accept(c)
      PROVE  ConnEffect
  <2>1. Moves(c)
    BY <1>0, <1>5 DEF Accept, Moves
  <2>. QED  BY Zenon, <1>5, <2>1 DEF Accept
<1>6. ASSUME NEW c \in Conn, ConnReceives(c)
      PROVE  ConnEffect
  BY Zenon, <1>6 DEF ConnReceives, Receives
<1>7. ASSUME NEW c \in Conn, ConnPasses(c)
      PROVE  ConnEffect
  BY Zenon, <1>7 DEF ConnPasses, PassesOn
<1>8. ASSUME NEW c \in Conn, ConnAsksLock(c)
      PROVE  ConnEffect
  <2>1. Moves(c)
    BY Zenon, <1>0, <1>8 DEF ConnAsksLock, Moves
  <2>. QED  BY Zenon, <1>8, <2>1 DEF ConnAsksLock
<1>9. ASSUME NEW c \in Conn, ConnGetsLock(c)
      PROVE  ConnEffect
  <2>1. Moves(c)
    BY <1>0, <1>9 DEF ConnGetsLock, Moves
  <2>. QED  BY Zenon, <1>9, <2>1 DEF ConnGetsLock
<1>10. ASSUME NEW c \in Conn, ConnForwards(c)
       PROVE  ConnEffect
  BY Zenon, <1>10 DEF ConnForwards, Forwards
<1>11. ASSUME NEW c \in Conn, ConnReadEnds(c)
       PROVE  ConnEffect
  <2>1. Moves(c)
    BY Zenon, <1>0, <1>11 DEF ConnReadEnds, Moves
  <2>. QED  BY Zenon, <1>11, <2>1 DEF ConnReadEnds
<1>12. ASSUME NEW c \in Conn, ConnCloses(c)
       PROVE  ConnEffect
  <2>1. Moves(c)
    BY Zenon, <1>0, <1>12 DEF ConnCloses, Moves
  <2>. QED  BY Zenon, <1>12, <2>1 DEF ConnCloses
<1>. QED
  BY Zenon, <1>1, <1>2, <1>3, <1>4, <1>5, <1>6, <1>7, <1>8, <1>9, <1>10, <1>11, <1>12 DEF ConnStep

LEMMA ConnFacts ==
    ASSUME ConnTypeOK
    PROVE  /\ conn \in [Conn -> [at : {"new", "select", "lock", "closing", "ended", "device"}, holds : Nat]]
           /\ queue \in [Conn -> Queue(Nat)] /\ got \in [Conn -> Nat] /\ open \subseteq Conn
           /\ \A c \in Conn : conn[c].at = "device" => conn[c].holds = got[c]
           /\ pump.at = "send" => pump.to \in Conn /\ pump.holds \in Nat
           /\ pump.at # "send" => pump.to = NoConn
           /\ pump.to \in Conn => pump.at = "send"
<1>1. queue \in [Conn -> Queue(Nat)]
  BY DEF ConnTypeOK, Queue
<1>2. ASSUME NEW c \in Conn, conn[c].at = "device"
      PROVE  conn[c].holds = got[c]
  <2>1. conn[c] \in {New, Waiting, Ended, Task("lock", None), Task("closing", None),
                    Task("device", got[c])}
    BY DEF ConnTypeOK
  <2>. QED  BY <1>2, <2>1 DEF New, Waiting, Ended, Task
<1>3. /\ pump.at = "send" => pump.to \in Conn /\ pump.holds \in Nat
      /\ pump.at # "send" => pump.to = NoConn
  BY DEF ConnTypeOK, PumpIdle, PumpEnded, Pump
<1>. QED  BY <1>1, <1>2, <1>3, ConnectionAssumption DEF ConnTypeOK

LEMMA ConnTypes ==
    ASSUME Types, mode = "tcp", ConnEffect, UNCHANGED ioVars
    PROVE  Types'
<1>0. /\ DeviceTypes /\ ConnTypeOK /\ Item = Conn \X Nat /\ Item' = Item
      /\ mode' \in Mode /\ proxy' \in BOOLEAN
      /\ UNCHANGED <<main, tun, directq, replyq, read, accepted, replies, toDevice>>
      /\ tunq \in Queue(Packet) /\ netq \in Queue(Item) /\ pumped \in Seq(Nat)
      /\ forwarded \in [Conn -> Seq(Nat)]
  BY DEF Types, DeviceTypes, TransportTypes, Item, ConnEffect
<1>1. tunq' \in Queue(Packet) /\ pumped' \in Seq(Nat)
  <2>1. \/ tunq' = tunq /\ pumped' = pumped
        \/ tunq # <<>> /\ tunq' = Tail(tunq) /\ pumped' = Append(pumped, Head(tunq))
    BY DEF ConnEffect, Takes, Sends, PumpRests, Receives, PassesOn, Forwards, Moves
  <2>2. tunq # <<>> => Head(tunq) \in Nat /\ Tail(tunq) \in Queue(Packet)
    BY Zenon, <1>0, QueueTypes, PacketNat
  <2>3. tunq # <<>> => Append(pumped, Head(tunq)) \in Seq(Nat)
    BY <1>0, <2>2, AppendProperties
  <2>. QED  BY Zenon, <1>0, <2>1, <2>2, <2>3
<1>2. netq' \in Queue(Item)
  <2>1. \/ netq' = netq
        \/ \E c \in Conn : /\ conn[c].at = "device" /\ HasRoom(netq)
                           /\ netq' = Append(netq, <<c, conn[c].holds>>)
    BY Zenon DEF ConnEffect, Takes, Sends, PumpRests, Receives, PassesOn, Forwards, Moves
  <2>2. \A c \in Conn : <<c, conn[c].holds>> \in Item
    BY Zenon, <1>0, ConnFacts
  <2>3. \A c \in Conn : HasRoom(netq) => Append(netq, <<c, conn[c].holds>>) \in Queue(Item)
    BY Zenon, <1>0, <2>2, QueueTypes
  <2>. QED  BY Zenon, <1>0, <2>1, <2>3
<1>3. queue' \in [Conn -> Queue(Nat)]
  <2>1. queue \in [Conn -> Queue(Nat)] /\ <<>> \in Queue(Nat)
    BY <1>0, ConnFacts, TunTaskAssumption, EmptySeq DEF Queue
  <2>2. \A c \in Conn : queue[c] # <<>> => Tail(queue[c]) \in Queue(Nat)
    BY <2>1, QueueTypes
  <2>3. pump.at = "send" /\ HasRoom(queue[pump.to]) =>
            pump.to \in Conn /\ Append(queue[pump.to], pump.holds) \in Queue(Nat)
    BY Zenon, <1>0, <2>1, ConnFacts, QueueTypes
  <2>4. \/ queue' = queue
        \/ /\ pump.at = "send" /\ HasRoom(queue[pump.to])
           /\ queue' = [queue EXCEPT ![pump.to] = Append(queue[pump.to], pump.holds)]
        \/ \E c \in Conn : \/ queue[c] # <<>> /\ queue' = [queue EXCEPT ![c] = Tail(queue[c])]
                           \/ queue' = [queue EXCEPT ![c] = <<>>]
    BY <2>1 DEF ConnEffect, Takes, Sends, PumpRests, Receives, PassesOn, Forwards, Moves
  <2>. QED  BY Zenon, <2>1, <2>2, <2>3, <2>4
<1>4. forwarded' \in [Conn -> Seq(Nat)]
  <2>1. \/ forwarded' = forwarded
        \/ \E c \in Conn : /\ queue[c] # <<>>
                           /\ forwarded' = [forwarded EXCEPT ![c] = Append(forwarded[c], Head(queue[c]))]
    BY Zenon, <1>0 DEF ConnEffect, Takes, Sends, PumpRests, Receives, PassesOn, Forwards, Moves
  <2>2. \A c \in Conn : queue[c] # <<>> => Head(queue[c]) \in Nat
    BY Zenon, <1>0, ConnFacts, QueueTypes
  <2>3. \A c \in Conn : queue[c] # <<>> => Append(forwarded[c], Head(queue[c])) \in Seq(Nat)
    BY Zenon, <1>0, <2>2, AppendProperties
  <2>. QED  BY Zenon, <1>0, <2>1, <2>3
<1>5. pump' \in {PumpIdle, PumpEnded} \cup {Pump("send", p, c) : p \in 1 .. MaxRead, c \in Conn}
  <2>1. \/ pump' \in {pump, PumpIdle, PumpEnded}
        \/ tunq # <<>> /\ \E c \in open : pump' = Pump("send", Head(tunq), c)
    BY DEF ConnEffect, Takes, Sends, PumpRests, Receives, PassesOn, Forwards, Moves
  <2>2. tunq # <<>> => Head(tunq) \in 1 .. MaxRead
    BY Zenon, <1>0, QueueTypes DEF Packet
  <2>. QED  BY SMTT(30), <1>0, <2>1, <2>2 DEF ConnTypeOK
<1>6. /\ conn' \in [Conn -> [at : {"new", "select", "lock", "closing", "ended", "device"}, holds : Nat]]
      /\ got' \in [Conn -> Nat]
      /\ \A c \in Conn : conn'[c] \in {New, Waiting, Ended, Task("lock", None), Task("closing", None),
                                       Task("device", got'[c])}
  <2>. DEFINE Types6 == [at : {"new", "select", "lock", "closing", "ended", "device"}, holds : Nat]
              At(c) == {New, Waiting, Ended, Task("lock", None), Task("closing", None),
                        Task("device", got[c])}
  <2>1. /\ conn \in [Conn -> Types6] /\ got \in [Conn -> Nat]
        /\ \A c \in Conn : conn[c] \in At(c)
    BY <1>0 DEF ConnTypeOK
  <2>2. /\ {New, Waiting, Ended, Task("lock", None), Task("closing", None)} \subseteq Types6
        /\ \A n \in Nat : Task("device", n) \in Types6
    BY DEF New, Waiting, Ended, Task, None
  <2>3. \/ got' = got /\ conn' = conn
        \/ \E c \in Conn : \E t \in {Waiting, Ended, Task("lock", None), Task("closing", None)} :
              got' = got /\ conn' = [conn EXCEPT ![c] = t]
        \/ \E c \in Conn : /\ conn' = [conn EXCEPT ![c] = Task("device", got[c] + 1)]
                           /\ got' = [got EXCEPT ![c] = got[c] + 1]
    BY Zenon, <2>1 DEF ConnEffect, Takes, Sends, PumpRests, Receives, PassesOn, Forwards, Moves
  <2>. HIDE DEF Types6
  <2>4. ASSUME NEW c \in Conn, NEW t \in {Waiting, Ended, Task("lock", None), Task("closing", None)},
               got' = got, conn' = [conn EXCEPT ![c] = t]
        PROVE  /\ conn' \in [Conn -> Types6] /\ got' \in [Conn -> Nat]
               /\ \A d \in Conn : conn'[d] \in At(d)'
    BY Zenon, <2>1, <2>2, <2>4
  <2>5. ASSUME NEW c \in Conn, conn' = [conn EXCEPT ![c] = Task("device", got[c] + 1)],
               got' = [got EXCEPT ![c] = got[c] + 1]
        PROVE  /\ conn' \in [Conn -> Types6] /\ got' \in [Conn -> Nat]
               /\ \A d \in Conn : conn'[d] \in At(d)'
    BY <2>1, <2>2, <2>5
  <2>6. /\ conn' \in [Conn -> Types6] /\ got' \in [Conn -> Nat]
        /\ \A d \in Conn : conn'[d] \in At(d)'
    BY Zenon, <2>1, <2>3, <2>4, <2>5
  <2>. QED  BY Zenon, <2>6 DEF Types6
<1>7. ConnTypeOK'
  <2>1. listener' \in {"binding", "listening", "panicked"} /\ open' \subseteq Conn
    <3>1. listener \in {"binding", "listening", "panicked"} /\ open \subseteq Conn
      BY <1>0 DEF ConnTypeOK
    <3>2. listener' \in {listener, "listening", "panicked"} /\ open' \subseteq open \cup Conn
      BY DEF ConnEffect
    <3>. QED  BY Zenon, <3>1, <3>2
  <2>2. queue' \in [Conn -> Seq(Nat)] /\ \A c \in Conn : Len(queue'[c]) <= Capacity
    BY Zenon, <1>3 DEF Queue
  <2>. QED  BY <1>5, <1>6, <2>1, <2>2 DEF ConnTypeOK
<1>8. DeviceTypes'
  BY <1>0, <1>1, <1>2 DEF DeviceTypes
<1>9. IoTypeOK' /\ handled' \in Seq(Nat)
  BY Zenon DEF Types, TransportTypes, IoTypeOK, ioVars
<1>10. ASSUME NEW c \in Conn, conn'[c].at = "device"
       PROVE  got'[c] # 0
  <2>1. /\ got \in [Conn -> Nat] /\ (conn[c].at = "device" => got[c] # 0)
        /\ conn \in [Conn -> [at : {"new", "select", "lock", "closing", "ended", "device"}, holds : Nat]]
        /\ "device" \notin {Waiting.at, Ended.at, Task("lock", None).at, Task("closing", None).at}
    BY Zenon, ConnFacts DEF Types, TransportTypes, Waiting, Ended, Task
  <2>2. \/ got' = got /\ conn' = conn
        \/ \E d \in Conn : \E t \in {Waiting, Ended, Task("lock", None), Task("closing", None)} :
              got' = got /\ conn' = [conn EXCEPT ![d] = t]
        \/ \E d \in Conn : /\ conn' = [conn EXCEPT ![d] = Task("device", got[d] + 1)]
                           /\ got' = [got EXCEPT ![d] = got[d] + 1]
    BY Zenon, <2>1 DEF ConnEffect, Takes, Sends, PumpRests, Receives, PassesOn, Forwards, Moves
  <2>. QED  BY <1>10, <2>1, <2>2
<1>. QED  BY Zenon, <1>0, <1>1, <1>4, <1>7, <1>8, <1>9, <1>10 DEF Types, TransportTypes

-----------------------------------------------------------------------------
LEMMA SameTransport ==
    ASSUME TransportTypes, UNCHANGED <<ioVars, connVars>>
    PROVE  TransportTypes'
<1>1. UNCHANGED <<io, received, handled, beat>>
  BY DEF ioVars
<1>2. /\ listener' = listener /\ open' = open /\ conn' = conn /\ pump' = pump
      /\ queue' = queue /\ pumped' = pumped /\ got' = got /\ forwarded' = forwarded
  BY DEF connVars
<1>3. IoTypeOK'
  BY Zenon, <1>1 DEF TransportTypes, IoTypeOK
<1>4. ConnTypeOK'
  <2>1. /\ listener' \in {"binding", "listening", "panicked"} /\ open' \subseteq Conn
        /\ got' \in [Conn -> Nat] /\ queue' \in [Conn -> Seq(Nat)]
        /\ \A c \in Conn : Len(queue'[c]) <= Capacity
    BY <1>2 DEF TransportTypes, ConnTypeOK
  <2>2. conn' \in [Conn -> [at : {"new", "select", "lock", "closing", "ended", "device"}, holds : Nat]]
    BY <1>2 DEF TransportTypes, ConnTypeOK
  <2>3. \A c \in Conn : conn'[c] \in {New, Waiting, Ended, Task("lock", None), Task("closing", None),
                                      Task("device", got'[c])}
    BY <1>2 DEF TransportTypes, ConnTypeOK
  <2>4. pump' \in {PumpIdle, PumpEnded} \cup {Pump("send", p, c) : p \in 1 .. MaxRead, c \in Conn}
    BY <1>2 DEF TransportTypes, ConnTypeOK
  <2>. QED  BY <2>1, <2>2, <2>3, <2>4 DEF ConnTypeOK
<1>. QED  BY Zenon, <1>1, <1>2, <1>3, <1>4 DEF TransportTypes

\* What is queued, and what was, is a sequence of packets.
LEMMA DeviceSeqs ==
    ASSUME DeviceTypes
    PROVE  tunq \in Seq(Nat) /\ accepted \in Seq(Nat)
BY PacketNat DEF DeviceTypes

LEMMA TransportSeqs ==
    ASSUME TransportTypes
    PROVE  /\ handled \in Seq(Nat) /\ pumped \in Seq(Nat)
           /\ forwarded \in [Conn -> Seq(Nat)] /\ queue \in [Conn -> Seq(Nat)]
<1>1. queue \in [Conn -> Seq(Nat)]
  BY Zenon, ConnFacts DEF TransportTypes, Queue
<1>. QED  BY Zenon, <1>1 DEF TransportTypes

-----------------------------------------------------------------------------
\* The types are kept.

LEMMA InitTypes == Init => Types
<1>. SUFFICES ASSUME Init
              PROVE  Types
  BY Zenon
<1>0. /\ mode \in Mode /\ main = "running" /\ tun = Waiting /\ proxy = TRUE /\ io = Waiting
      /\ tunq = <<>> /\ netq = <<>> /\ directq = <<>> /\ replyq = <<>>
      /\ read = 0 /\ accepted = <<>> /\ replies = 0 /\ toDevice = <<>>
      /\ received = 0 /\ handled = <<>> /\ beat = 0
      /\ listener = "binding" /\ open = {} /\ pump = PumpIdle /\ pumped = <<>>
      /\ conn = [c \in Conn |-> New] /\ queue = [c \in Conn |-> <<>>]
      /\ got = [c \in Conn |-> 0] /\ forwarded = [c \in Conn |-> <<>>]
  BY DEF Init, TunInit, IoInit, ConnInit
<1>1. /\ MaxRead \in Nat /\ MaxReplies \in Nat /\ MaxReceived \in Nat /\ Capacity \in Nat
      /\ \A S : <<>> \in Seq(S) /\ <<>> \in Queue(S)
      /\ Len(<<>>) = 0
  BY TunTaskAssumption, IoTaskAssumption DEF Queue
<1>2. New.at = "new" /\ New \in [at : {"new", "select", "lock", "closing", "ended", "device"}, holds : Nat]
  BY Zenon DEF New, Task, None
<1>3. DeviceTypes
  BY <1>0, <1>1 DEF DeviceTypes
<1>4. IoTypeOK
  BY <1>0, <1>1 DEF IoTypeOK
<1>5. ConnTypeOK
  BY <1>0, <1>1, <1>2 DEF ConnTypeOK
<1>6. TransportTypes
  BY Zenon, <1>0, <1>1, <1>2, <1>4, <1>5 DEF TransportTypes
<1>. QED  BY <1>0, <1>3, <1>6 DEF Types

\* What main returns has its own type only.
LEMMA RestTypes ==
    ASSUME Types, main' \in {main, "Ok", "Err"}, UNCHANGED <<tunVars, ioVars, connVars>>
    PROVE  Types'
<1>0. mode \in Mode /\ proxy \in BOOLEAN /\ DeviceTypes /\ TransportTypes
  BY Zenon DEF Types
<1>1. UNCHANGED <<mode, proxy>>
  BY DEF tunVars
<1>2. UNCHANGED <<tun, tunq, netq, directq, replyq, read, accepted, replies, toDevice>>
  BY Zenon DEF tunVars
<1>3. DeviceTypes'
  <2>1. mode' = mode /\ Item' = Item
    BY Zenon, <1>1 DEF Item
  <2>2. main' \in {"running", "Ok", "Err"}
    BY <1>0 DEF DeviceTypes
  <2>3. /\ tun' \in {Waiting, Ended} \cup {Task(at, p) : at \in {"tunnel", "direct"}, p \in 1 .. MaxRead}
        /\ tunq' \in Queue(Packet) /\ directq' \in Queue(Nat) /\ replyq' \in Queue(Nat)
        /\ netq' \in Queue(Item) /\ toDevice' \in Seq(Item)
        /\ read' \in 0 .. MaxRead /\ replies' \in 0 .. MaxReplies /\ accepted' \in Seq(Nat)
    BY <1>0, <1>2 DEF DeviceTypes
  <2>. QED  BY <2>1, <2>2, <2>3 DEF DeviceTypes, Queue
<1>4. TransportTypes'
  BY Zenon, <1>0, SameTransport
<1>. QED  BY Zenon, <1>0, <1>1, <1>3, <1>4 DEF Types

LEMMA NextTypes == Types /\ [Next]_vars => Types'
<1>. SUFFICES ASSUME Types, [Next]_vars
              PROVE  Types'
  OBVIOUS
<1>0. mode \in Mode /\ proxy \in BOOLEAN /\ DeviceTypes /\ TransportTypes
  BY DEF Types
<1>1. CASE TunStep(SendersGone, ReceiverGone) /\ UNCHANGED <<ioVars, connVars>>
  <2>1. TunEffect /\ (proxy' = proxy \/ proxy' = FALSE) /\ mode' = mode
    BY Zenon, <1>1, TunHasEffect DEF TunEffect
  <2>2. DeviceTypes'
    BY Zenon, <1>0, <2>1, TunTypes
  <2>3. TransportTypes'
    BY <1>0, <1>1, SameTransport
  <2>. QED  BY Zenon, <1>0, <2>1, <2>2, <2>3 DEF Types
<1>2. CASE mode # "tcp" /\ IoStep /\ UNCHANGED connVars
  BY <1>2, IoHasEffect, IoTypes
<1>3. CASE mode = "tcp" /\ ConnStep /\ UNCHANGED ioVars
  BY Zenon, <1>3, ConnHasEffect, ConnTypes
<1>4. CASE Return
  BY <1>4, RestTypes DEF Return
<1>5. CASE UNCHANGED vars
  BY <1>5, RestTypes DEF vars
<1>. QED  BY Zenon, <1>1, <1>2, <1>3, <1>4, <1>5 DEF Next

\* The tasks and the channels between them always have their types, and no
\* channel ever holds more than its capacity.
THEOREM TypesHold == Spec => []TypeOK
<1>. QED  BY InitTypes, NextTypes, TypesSuffice, PTL DEF Spec

-----------------------------------------------------------------------------

Before(S, T) == \A x \in S, y \in T : x < y

\* The packets for the tunnel were read one after the other; those the pump
\* has taken come before those that wait, and before the one that is held.
TakenInv ==
    /\ IsIncreasing(pumped) /\ IsIncreasing(tunq) /\ Before(Range(pumped), Range(tunq))
    /\ \A x \in Range(pumped) \cup Range(tunq) : x <= read
    /\ tun.at = "tunnel" =>
          tun.holds <= read /\ Before(Range(pumped) \cup Range(tunq), {tun.holds})

Held(c) == IF pump.to = c THEN {pump.holds} ELSE {}

Given(c) == Range(forwarded[c]) \cup Range(queue[c]) \cup Held(c)

\* The packets in f, in q and in H come in this order.
Line(f, q, H) ==
    /\ IsIncreasing(f) /\ IsIncreasing(q)
    /\ Before(Range(f), Range(q)) /\ Before(Range(f) \cup Range(q), H)

\* Each packet was given to at most one connection, and to each in order.
GivenInv ==
    \A c \in Conn :
        /\ Line(forwarded[c], queue[c], Held(c))
        /\ Given(c) \subseteq Range(pumped)
        /\ \A d \in Conn \ {c} : Given(c) \cap Given(d) = {}

Inv ==
    /\ Types
    /\ NothingLost
    /\ ClientOrderKept
    /\ mode = "tcp" =>
          /\ tun # Ended => pumped \o tunq \o Holding(tun, "tunnel") = accepted
          /\ TakenInv /\ GivenInv

-----------------------------------------------------------------------------
\* Queues.

\* A packet that goes from the head of one queue to the end of another keeps
\* its place in the whole.
LEMMA Shift ==
    ASSUME NEW S, NEW s \in Seq(S), NEW q \in Seq(S), q # <<>>
    PROVE  /\ Head(q) \in S /\ Tail(q) \in Seq(S) /\ Append(s, Head(q)) \in Seq(S)
           /\ Len(Tail(q)) = Len(q) - 1
           /\ Append(s, Head(q)) \o Tail(q) = s \o q
<1>1. /\ Head(q) \in S /\ Tail(q) \in Seq(S) /\ Len(Tail(q)) = Len(q) - 1
      /\ \A i \in 1 .. Len(q) - 1 : Tail(q)[i] = q[i + 1]
      /\ Len(q) \in Nat \ {0} /\ Head(q) = q[1]
  BY HeadTailProperties, EmptySeq
<1>2. /\ Append(s, Head(q)) \in Seq(S) /\ Len(Append(s, Head(q))) = Len(s) + 1 /\ Len(s) \in Nat
      /\ \A i \in 1 .. Len(s) : Append(s, Head(q))[i] = s[i]
      /\ Append(s, Head(q))[Len(s) + 1] = q[1]
  BY <1>1, AppendProperties, LenProperties
<1>. DEFINE a == Append(s, Head(q))
            t == Tail(q)
<1>. HIDE DEF a, t
<1>3. /\ a \o t \in Seq(S) /\ Len(a \o t) = Len(s) + Len(q)
      /\ \A i \in 1 .. Len(s) + Len(q) :
            (a \o t)[i] = IF i <= Len(s) + 1 THEN a[i] ELSE t[i - (Len(s) + 1)]
  BY <1>1, <1>2, ConcatProperties DEF a, t
<1>4. /\ s \o q \in Seq(S) /\ Len(s \o q) = Len(s) + Len(q)
      /\ \A i \in 1 .. Len(s) + Len(q) : (s \o q)[i] = IF i <= Len(s) THEN s[i] ELSE q[i - Len(s)]
  BY ConcatProperties
<1>5. ASSUME NEW i \in 1 .. Len(s) + Len(q)
      PROVE  (a \o t)[i] = (s \o q)[i]
  <2>1. CASE i <= Len(s)
    BY <1>2, <1>3, <1>4, <2>1 DEF a
  <2>2. CASE i = Len(s) + 1
    BY <1>1, <1>2, <1>3, <1>4, <2>2 DEF a
  <2>3. CASE i > Len(s) + 1
    <3>1. i - (Len(s) + 1) \in 1 .. Len(q) - 1 /\ (i - (Len(s) + 1)) + 1 = i - Len(s)
      BY <1>1, <1>2, <2>3
    <3>2. t[i - (Len(s) + 1)] = q[i - Len(s)]
      BY Zenon, <1>1, <3>1 DEF t
    <3>3. (a \o t)[i] = t[i - (Len(s) + 1)] /\ (s \o q)[i] = q[i - Len(s)]
      <4>1. ~(i <= Len(s) + 1) /\ ~(i <= Len(s))
        BY <1>1, <1>2, <2>3
      <4>. QED  BY Zenon, <1>3, <1>4, <4>1
    <3>. QED  BY Zenon, <3>2, <3>3
  <2>4. i <= Len(s) \/ i = Len(s) + 1 \/ i > Len(s) + 1
    BY <1>1, <1>2
  <2>. QED  BY Zenon, <2>1, <2>2, <2>3, <2>4
<1>6. a \o t = s \o q
  BY Zenon, <1>3, <1>4, <1>5, SeqEqual
<1>. QED  BY Zenon, <1>1, <1>2, <1>6 DEF a, t

\* A packet that is put into a queue comes last.
LEMMA Push ==
    ASSUME NEW S, NEW s \in Seq(S), NEW q \in Seq(S), NEW x \in S
    PROVE  s \o Append(q, x) = Append(s \o q, x)
<1>1. Append(q, x) = q \o <<x>> /\ s \o q \in Seq(S) /\ <<x>> \in Seq(S)
  BY AppendIsConcat, ConcatProperties
<1>2. s \o (q \o <<x>>) = (s \o q) \o <<x>>
  BY <1>1, ConcatAssociative
<1>3. Append(s \o q, x) = (s \o q) \o <<x>>
  BY Zenon, <1>1, AppendIsConcat
<1>. QED  BY Zenon, <1>1, <1>2, <1>3

LEMMA PushHeld ==
    ASSUME NEW S, NEW s \in Seq(S), NEW q \in Seq(S), NEW x \in S
    PROVE  (s \o Append(q, x)) \o <<>> = (s \o q) \o <<x>>
<1>1. s \o q \in Seq(S) /\ Append(s \o q, x) \in Seq(S) /\ Append(s \o q, x) = (s \o q) \o <<x>>
  BY AppendProperties, AppendIsConcat, ConcatProperties
<1>2. Append(s \o q, x) \o <<>> = Append(s \o q, x)
  BY Zenon, <1>1, ConcatEmptySeq
<1>. QED  BY <1>1, <1>2, Push

\* The packets of a queue, as a set.
LEMMA RangeOf ==
    ASSUME NEW S, NEW q \in Seq(S), NEW x \in S
    PROVE  /\ Range(Append(q, x)) = Range(q) \cup {x}
           /\ Range(q) \subseteq S
           /\ q # <<>> => Head(q) \in Range(q) /\ Range(Tail(q)) \subseteq Range(q)
<1>1. /\ Append(q, x) \in Seq(S) /\ Len(Append(q, x)) = Len(q) + 1 /\ Len(q) \in Nat
      /\ \A i \in 1 .. Len(q) : Append(q, x)[i] = q[i]
      /\ Append(q, x)[Len(q) + 1] = x
  BY AppendProperties, LenProperties
<1>2. DOMAIN Append(q, x) = 1 .. Len(q) + 1 /\ DOMAIN q = 1 .. Len(q)
  BY Zenon, <1>1, LenProperties
<1>. DEFINE a == Append(q, x)
<1>. HIDE DEF a
<1>3. Range(a) = Range(q) \cup {x}
  <2>1. ASSUME NEW y \in Range(a)
        PROVE  y \in Range(q) \cup {x}
    <3>1. PICK i \in 1 .. Len(q) + 1 : y = a[i]
      BY Zenon, <1>2 DEF Range, a
    <3>2. i \in 1 .. Len(q) \/ i = Len(q) + 1
      BY <1>1
    <3>. QED  BY Zenon, <1>1, <1>2, <3>1, <3>2 DEF Range, a
  <2>2. ASSUME NEW y \in Range(q)
        PROVE  y \in Range(a)
    <3>1. PICK i \in 1 .. Len(q) : y = q[i]
      BY Zenon, <1>2 DEF Range
    <3>2. i \in 1 .. Len(q) + 1
      BY <1>1
    <3>. QED  BY Zenon, <1>1, <1>2, <3>1, <3>2 DEF Range, a
  <2>3. x \in Range(a)
    <3>1. Len(q) + 1 \in 1 .. Len(q) + 1
      BY <1>1
    <3>. QED  BY Zenon, <1>1, <1>2, <3>1 DEF Range, a
  <2>. QED  BY Zenon, <2>1, <2>2, <2>3
<1>4. Range(q) \subseteq S
  BY Zenon, <1>2, ElementOfSeq DEF Range
<1>5. ASSUME q # <<>>
      PROVE  Head(q) \in Range(q) /\ Range(Tail(q)) \subseteq Range(q)
  <2>1. /\ Tail(q) \in Seq(S) /\ Len(Tail(q)) = Len(q) - 1 /\ Len(q) \in Nat \ {0}
        /\ \A i \in 1 .. Len(q) - 1 : Tail(q)[i] = q[i + 1]
        /\ Head(q) = q[1]
    BY <1>5, HeadTailProperties, EmptySeq
  <2>2. DOMAIN Tail(q) = 1 .. Len(q) - 1
    BY Zenon, <2>1, LenProperties
  <2>3. \A i \in 1 .. Len(q) - 1 : i + 1 \in 1 .. Len(q)
    BY <2>1
  <2>4. 1 \in 1 .. Len(q)
    BY <2>1
  <2>. QED  BY Zenon, <1>2, <2>1, <2>2, <2>3, <2>4 DEF Range
<1>. QED  BY Zenon, <1>3, <1>4, <1>5 DEF a

\* Order is kept at both ends of a queue.
LEMMA Increasing ==
    ASSUME NEW q \in Seq(Nat), IsIncreasing(q), NEW x \in Nat
    PROVE  /\ Before(Range(q), {x}) => IsIncreasing(Append(q, x))
           /\ q # <<>> => IsIncreasing(Tail(q)) /\ Before({Head(q)}, Range(Tail(q)))
<1>1. Len(q) \in Nat /\ DOMAIN q = 1 .. Len(q) /\ \A i \in 1 .. Len(q) : q[i] \in Nat
  BY Zenon, LenProperties, ElementOfSeq
<1>2. ASSUME Before(Range(q), {x})
      PROVE  IsIncreasing(Append(q, x))
  <2>1. /\ Append(q, x) \in Seq(Nat) /\ Len(Append(q, x)) = Len(q) + 1
        /\ \A i \in 1 .. Len(q) : Append(q, x)[i] = q[i]
        /\ Append(q, x)[Len(q) + 1] = x
    BY AppendProperties
  <2>2. DOMAIN Append(q, x) = 1 .. Len(q) + 1
    BY Zenon, <2>1, LenProperties
  <2>. SUFFICES ASSUME NEW i \in 1 .. Len(q) + 1, NEW j \in 1 .. Len(q) + 1, i < j
                PROVE  Append(q, x)[i] < Append(q, x)[j]
    BY Zenon, <2>2 DEF IsIncreasing
  <2>3. i \in 1 .. Len(q) /\ (j \in 1 .. Len(q) \/ j = Len(q) + 1)
    BY <1>1
  <2>4. q[i] \in Range(q)
    BY Zenon, <1>1, <2>3 DEF Range
  <2>5. q[i] < x
    BY <1>2, <2>4 DEF Before
  <2>6. j \in 1 .. Len(q) => q[i] < q[j]
    BY Zenon, <1>1, <2>3 DEF IsIncreasing
  <2>. QED  BY Zenon, <2>1, <2>3, <2>5, <2>6
<1>3. ASSUME q # <<>>
      PROVE  IsIncreasing(Tail(q)) /\ Before({Head(q)}, Range(Tail(q)))
  <2>1. /\ Tail(q) \in Seq(Nat) /\ Len(Tail(q)) = Len(q) - 1 /\ Len(q) \in Nat \ {0}
        /\ \A i \in 1 .. Len(q) - 1 : Tail(q)[i] = q[i + 1]
        /\ Head(q) = q[1]
    BY <1>3, HeadTailProperties, EmptySeq
  <2>2. DOMAIN Tail(q) = 1 .. Len(q) - 1
    BY Zenon, <2>1, LenProperties
  <2>3. \A i \in 1 .. Len(q) - 1 : i + 1 \in 1 .. Len(q) /\ 1 \in 1 .. Len(q) /\ 1 < i + 1
    BY <2>1
  <2>4. ASSUME NEW i \in 1 .. Len(q) - 1, NEW j \in 1 .. Len(q) - 1, i < j
        PROVE  Tail(q)[i] < Tail(q)[j]
    <3>1. i + 1 < j + 1
      BY <2>4
    <3>. QED  BY Zenon, <1>1, <2>1, <2>3, <3>1 DEF IsIncreasing
  <2>5. ASSUME NEW i \in 1 .. Len(q) - 1
        PROVE  Head(q) < Tail(q)[i]
    BY Zenon, <1>1, <2>1, <2>3 DEF IsIncreasing
  <2>. QED  BY Zenon, <2>2, <2>4, <2>5 DEF IsIncreasing, Before, Range
<1>. QED  BY <1>2, <1>3

LEMMA IncreasingConcat ==
    ASSUME NEW s \in Seq(Nat), NEW t \in Seq(Nat), IsIncreasing(s), IsIncreasing(t),
           Before(Range(s), Range(t))
    PROVE  IsIncreasing(s \o t)
<1>1. /\ Len(s) \in Nat /\ DOMAIN s = 1 .. Len(s) /\ Len(t) \in Nat /\ DOMAIN t = 1 .. Len(t)
      /\ DOMAIN (s \o t) = 1 .. Len(s) + Len(t)
      /\ \A i \in 1 .. Len(s) + Len(t) : (s \o t)[i] = IF i <= Len(s) THEN s[i] ELSE t[i - Len(s)]
  BY LenProperties, ConcatProperties
<1>. SUFFICES ASSUME NEW i \in 1 .. Len(s) + Len(t), NEW j \in 1 .. Len(s) + Len(t), i < j
              PROVE  (s \o t)[i] < (s \o t)[j]
  BY Zenon, <1>1 DEF IsIncreasing
<1>2. CASE j <= Len(s)
  <2>1. i \in 1 .. Len(s) /\ j \in 1 .. Len(s)
    BY <1>1, <1>2
  <2>2. s[i] < s[j]
    BY Zenon, <1>1, <2>1 DEF IsIncreasing
  <2>3. i <= Len(s)
    BY <2>1
  <2>4. (s \o t)[i] = s[i] /\ (s \o t)[j] = s[j]
    BY Zenon, <1>1, <1>2, <2>3
  <2>. QED  BY Zenon, <2>2, <2>4
<1>3. CASE i > Len(s)
  <2>1. i - Len(s) \in 1 .. Len(t) /\ j - Len(s) \in 1 .. Len(t) /\ i - Len(s) < j - Len(s)
    BY <1>1, <1>3
  <2>2. t[i - Len(s)] < t[j - Len(s)]
    BY Zenon, <1>1, <2>1 DEF IsIncreasing
  <2>3. ~(i <= Len(s)) /\ ~(j <= Len(s))
    BY <1>1, <1>3
  <2>. QED  BY Zenon, <1>1, <2>2, <2>3
<1>4. CASE i <= Len(s) /\ j > Len(s)
  <2>1. i \in 1 .. Len(s) /\ j - Len(s) \in 1 .. Len(t) /\ ~(j <= Len(s))
    BY <1>1, <1>4
  <2>2. s[i] \in Range(s) /\ t[j - Len(s)] \in Range(t)
    BY Zenon, <1>1, <2>1 DEF Range
  <2>3. s[i] < t[j - Len(s)]
    BY Zenon, <2>2 DEF Before
  <2>4. (s \o t)[i] = s[i] /\ (s \o t)[j] = t[j - Len(s)]
    BY <1>1, <1>4, <2>1
  <2>. QED  BY Zenon, <2>3, <2>4
<1>. QED  BY <1>1, <1>2, <1>3, <1>4

-----------------------------------------------------------------------------
\* Nothing is lost.

\* While the TUN task runs it only moves packets along.
LEMMA TunKeeps ==
    ASSUME DeviceTypes, TunEffect, tun' # Ended, NEW h \in Seq(Nat)
    PROVE  /\ tun # Ended
           /\ toDevice' \o netq' = toDevice \o netq
           /\ (h \o tunq) \o Holding(tun, "tunnel") = accepted =>
                  (h \o tunq') \o Holding(tun', "tunnel") = accepted'
<1>0. /\ tun.at # "ended" <=> tun # Ended
      /\ Waiting # Ended /\ Waiting.at = "select" /\ tunq \in Seq(Nat) /\ accepted \in Seq(Nat)
      /\ netq \in Seq(Item) /\ toDevice \in Seq(Item)
      /\ \A p : Task("tunnel", p).at = "tunnel" /\ Task("tunnel", p).holds = p
      /\ \A p : Task("direct", p).at = "direct"
  BY TunFacts, PacketNat DEF DeviceTypes, Waiting, Ended, Task, Queue
<1>1. (h \o tunq) \o <<>> = h \o tunq
  BY <1>0, ConcatProperties, ConcatEmptySeq
<1>2. CASE Writes
  <2>1. toDevice' \o netq' = toDevice \o netq
    <3>1. netq # <<>> /\ netq' = Tail(netq) /\ toDevice' = Append(toDevice, Head(netq))
      BY <1>2 DEF Writes
    <3>2. Append(toDevice, Head(netq)) \o Tail(netq) = toDevice \o netq
      <4>1. toDevice \in Seq(Item) /\ netq \in Seq(Item) /\ netq # <<>>
        BY <1>0, <3>1
      <4>. QED  BY Zenon, <4>1, Shift
    <3>. QED  BY Zenon, <3>1, <3>2
  <2>. QED  BY Zenon, <1>0, <1>2, <2>1 DEF Writes
<1>3. CASE Reads
  <2>1. tun = Waiting /\ UNCHANGED <<tunq, netq, toDevice>> /\ Holding(tun, "tunnel") = <<>>
    BY Zenon, <1>0, <1>3 DEF Reads, Holding
  <2>2. read' \in Nat
    BY <1>3, TunFacts DEF Reads
  <2>3. CASE tun' = Task("tunnel", read') /\ accepted' = Append(accepted, read')
    <3>1. Holding(tun', "tunnel") = <<read'>>
      BY Zenon, <1>0, <2>3 DEF Holding
    <3>2. accepted' = accepted \o <<read'>>
      BY <1>0, <2>2, <2>3, AppendIsConcat
    <3>. QED  BY Zenon, <1>0, <1>1, <2>1, <3>1, <3>2
  <2>4. CASE tun' \in {Task("direct", read'), Waiting} /\ accepted' = accepted
    <3>1. Holding(tun', "tunnel") = <<>>
      BY Zenon, <1>0, <2>4 DEF Holding
    <3>. QED  BY Zenon, <1>0, <2>1, <2>4, <3>1
  <2>. QED  BY Zenon, <1>3, <2>3, <2>4 DEF Reads
<1>4. CASE Passes
  <2>1. /\ tun.at = "tunnel" /\ tun' = Waiting /\ tunq' = Append(tunq, tun.holds)
        /\ UNCHANGED <<netq, toDevice, accepted>> /\ tun.holds \in Nat
    BY Zenon, <1>4, TunFacts DEF Passes
  <2>2. Holding(tun, "tunnel") = <<tun.holds>> /\ Holding(tun', "tunnel") = <<>>
    BY <1>0, <2>1 DEF Holding
  <2>3. (h \o tunq') \o <<>> = (h \o tunq) \o <<tun.holds>>
    <3>1. (h \o Append(tunq, tun.holds)) \o <<>> = (h \o tunq) \o <<tun.holds>>
      <4>. DEFINE p == tun.holds
      <4>1. tunq \in Seq(Nat) /\ p \in Nat
        BY Zenon, <1>0, <2>1
      <4>. HIDE DEF p
      <4>2. (h \o Append(tunq, p)) \o <<>> = (h \o tunq) \o <<p>>
        BY <4>1, PushHeld
      <4>. QED  BY Zenon, <4>2 DEF p
    <3>. QED  BY Zenon, <2>1, <3>1
  <2>. QED  BY Zenon, <1>0, <2>1, <2>2, <2>3
<1>5. CASE Stops
  BY Zenon, <1>5 DEF Stops
<1>6. CASE Aside
  <2>1. UNCHANGED <<tunq, netq, accepted, toDevice>> /\ (tun' = tun \/ tun' = Waiting)
    BY Zenon, <1>6 DEF Aside
  <2>2. Holding(tun', "tunnel") = Holding(tun, "tunnel")
    BY Zenon, <1>0, <1>6 DEF Aside, Holding
  <2>3. tun # Ended
    BY Zenon, <1>0, <1>6 DEF Aside
  <2>. QED  BY Zenon, <2>1, <2>2, <2>3
<1>. QED  BY Zenon, <1>2, <1>3, <1>4, <1>5, <1>6 DEF TunEffect

LEMMA Counting ==
    ASSUME NEW n \in Nat, NEW s \in Seq(Nat), s = [i \in 1 .. n |-> i]
    PROVE  s \o <<n + 1>> = [i \in 1 .. n + 1 |-> i]
<1>1. Len(s) = n /\ DOMAIN s = 1 .. n
  BY LenProperties
<1>2. /\ s \o <<n + 1>> \in Seq(Nat) /\ Len(s \o <<n + 1>>) = n + 1
      /\ \A i \in 1 .. n + 1 : (s \o <<n + 1>>)[i] = IF i <= n THEN s[i] ELSE <<n + 1>>[i - n]
  BY <1>1, ConcatProperties
<1>3. DOMAIN (s \o <<n + 1>>) = 1 .. n + 1 /\ s \o <<n + 1>> \in [1 .. n + 1 -> Nat]
  BY Zenon, <1>2, LenProperties
<1>4. ASSUME NEW i \in 1 .. n + 1
      PROVE  (s \o <<n + 1>>)[i] = i
  <2>1. CASE i <= n
    BY <1>1, <1>2, <2>1
  <2>2. CASE i = n + 1
    <3>1. ~(i <= n) /\ i - n = 1
      BY <2>2
    <3>. QED  BY <1>2, <2>2, <3>1
  <2>. QED  BY <2>1, <2>2
<1>. QED  BY Zenon, <1>3, <1>4

LEMMA NothingLostTun ==
    ASSUME DeviceTypes, TransportTypes, mode # "tcp", NothingLost, TunEffect, UNCHANGED ioVars
    PROVE  NothingLost'
<1>. SUFFICES ASSUME Ended \notin {tun', io'}
              PROVE  /\ handled' \o tunq' \o Holding(tun', "tunnel") = accepted'
                     /\ toDevice' \o netq' \o Holding(io', "device") = [i \in 1 .. received' |-> i]
  BY Zenon DEF NothingLost, Holding
<1>1. UNCHANGED <<io, received, handled>> /\ handled \in Seq(Nat)
  BY DEF ioVars, TransportTypes
<1>2. /\ tun # Ended /\ toDevice' \o netq' = toDevice \o netq
      /\ (handled \o tunq) \o Holding(tun, "tunnel") = accepted =>
             (handled \o tunq') \o Holding(tun', "tunnel") = accepted'
  BY Zenon, <1>1, TunKeeps
<1>. QED  BY Zenon, <1>1, <1>2 DEF NothingLost

LEMMA NothingLostIo ==
    ASSUME DeviceTypes, TransportTypes, mode # "tcp", NothingLost, IoEffect
    PROVE  NothingLost'
<1>. SUFFICES ASSUME Ended \notin {tun', io'}
              PROVE  /\ (handled' \o tunq') \o Holding(tun', "tunnel") = accepted'
                     /\ (toDevice' \o netq') \o Holding(io', "device") = [i \in 1 .. received' |-> i]
  BY Zenon DEF NothingLost, Holding
<1>0. UNCHANGED <<tun, accepted, toDevice>> /\ tun # Ended
  BY Zenon DEF IoEffect
<1>1. /\ handled \in Seq(Nat) /\ tunq \in Seq(Nat) /\ netq \in Seq(Nat) /\ toDevice \in Seq(Nat)
      /\ received \in Nat
      /\ io.at = "ended" <=> io = Ended
      /\ Waiting.at = "select" /\ (io.at = "device" => io.holds \in Nat)
      /\ \A p : Task("device", p).at = "device" /\ Task("device", p).holds = p
  BY IoFacts, PacketNat DEF DeviceTypes, TransportTypes, Item, Queue, Waiting, Task
<1>2. io # Ended =>
          /\ (handled \o tunq) \o Holding(tun, "tunnel") = accepted
          /\ (toDevice \o netq) \o Holding(io, "device") = [i \in 1 .. received |-> i]
  BY <1>0 DEF NothingLost
<1>3. toDevice \o netq \in Seq(Nat) /\ (toDevice \o netq) \o <<>> = toDevice \o netq
  BY <1>1, ConcatProperties, ConcatEmptySeq
<1>4. CASE IoReceives
  <2>1. /\ io # Ended /\ Holding(io, "device") = <<>> /\ Holding(io', "device") = <<received + 1>>
        /\ received' = received + 1 /\ UNCHANGED <<tunq, netq, handled>>
    BY <1>1, <1>4 DEF IoReceives, Holding
  <2>2. (toDevice \o netq) \o <<received + 1>> = [i \in 1 .. received + 1 |-> i]
    BY Zenon, <1>1, <1>2, <1>3, <2>1, Counting
  <2>. QED  BY Zenon, <1>0, <1>2, <2>1, <2>2
<1>5. CASE IoPasses
  <2>1. /\ io # Ended /\ Holding(io, "device") = <<io.holds>> /\ Holding(io', "device") = <<>>
        /\ netq' = Append(netq, io.holds) /\ io.holds \in Nat /\ UNCHANGED <<tunq, received, handled>>
    BY <1>1, <1>5 DEF IoPasses, Holding
  <2>2. (toDevice \o netq') \o <<>> = (toDevice \o netq) \o <<io.holds>>
    <3>1. (toDevice \o Append(netq, io.holds)) \o <<>> = (toDevice \o netq) \o <<io.holds>>
      <4>. DEFINE p == io.holds
      <4>1. toDevice \in Seq(Nat) /\ netq \in Seq(Nat) /\ p \in Nat
        BY Zenon, <1>1, <2>1
      <4>. HIDE DEF p
      <4>2. (toDevice \o Append(netq, p)) \o <<>> = (toDevice \o netq) \o <<p>>
        BY <4>1, PushHeld
      <4>. QED  BY Zenon, <4>2 DEF p
    <3>. QED  BY Zenon, <2>1, <3>1
  <2>. QED  BY Zenon, <1>0, <1>2, <2>1, <2>2
<1>6. CASE IoSends
  <2>1. /\ io # Ended /\ io' = io /\ tunq # <<>> /\ tunq' = Tail(tunq)
        /\ handled' = Append(handled, Head(tunq)) /\ UNCHANGED <<netq, received>>
    BY Zenon, <1>1, <1>6 DEF IoSends
  <2>2. handled' \o tunq' = handled \o tunq
    <3>1. Append(handled, Head(tunq)) \o Tail(tunq) = handled \o tunq
      <4>1. handled \in Seq(Nat) /\ tunq \in Seq(Nat) /\ tunq # <<>>
        BY <1>1, <2>1
      <4>. QED  BY Zenon, <4>1, Shift
    <3>. QED  BY Zenon, <2>1, <3>1
  <2>. QED  BY Zenon, <1>0, <1>2, <2>1, <2>2
<1>7. CASE IoStops
  BY <1>0, <1>7 DEF IoStops
<1>8. CASE IoRests
  BY Zenon, <1>0, <1>2, <1>8 DEF IoRests
<1>. QED  BY Zenon, <1>4, <1>5, <1>6, <1>7, <1>8 DEF IoEffect

-----------------------------------------------------------------------------
\* The order of the packets of each client.

InOrder(s, c, n) ==
    /\ {x[2] : x \in {y \in Range(s) : y[1] = c}} = 1 .. n
    /\ \A i, j \in DOMAIN s : i < j /\ s[i][1] = c /\ s[j][1] = c => s[i][2] < s[j][2]

\* The next packet of a client comes after all it has passed on, and is nothing
\* to the others.
LEMMA NextInOrder ==
    ASSUME NEW s \in Seq(Conn \X Nat), NEW c \in Conn, NEW n \in Nat, NEW d \in Conn, NEW k \in Nat,
           InOrder(s, c, n), d = c => k = n + 1
    PROVE  InOrder(Append(s, <<d, k>>), c, IF d = c THEN n + 1 ELSE n)
<1>. DEFINE a == Append(s, <<d, k>>)
            m == IF d = c THEN n + 1 ELSE n
            Of(q) == {x[2] : x \in {y \in Range(q) : y[1] = c}}
<1>1. /\ Len(s) \in Nat /\ DOMAIN s = 1 .. Len(s) /\ DOMAIN a = 1 .. Len(s) + 1
      /\ \A i \in 1 .. Len(s) : a[i] = s[i]
      /\ a[Len(s) + 1] = <<d, k>>
  <2>1. <<d, k>> \in Conn \X Nat
    BY Zenon
  <2>. QED  BY <2>1, AppendProperties, LenProperties
<1>2. Range(a) = Range(s) \cup {<<d, k>>}
  <2>1. <<d, k>> \in Conn \X Nat
    BY Zenon
  <2>. QED  BY <2>1, RangeOf
<1>. HIDE DEF a
<1>3. Of(a) = 1 .. m
  <2>1. Of(s) = 1 .. n
    BY DEF InOrder
  <2>2. CASE d = c
    <3>1. Of(a) = Of(s) \cup {k}
      <4>1. {y \in Range(a) : y[1] = c} = {y \in Range(s) : y[1] = c} \cup {<<d, k>>}
        BY <1>2, <2>2
      <4>2. ASSUME NEW T, NEW U, T = U \cup {<<d, k>>}
            PROVE  {x[2] : x \in T} = {x[2] : x \in U} \cup {k}
        <5>1. <<d, k>>[2] = k
          BY Zenon
        <5>. QED  BY Zenon, <4>2, <5>1
      <4>. QED  BY Zenon, <4>1, <4>2
    <3>2. (1 .. n) \cup {n + 1} = 1 .. n + 1
      OBVIOUS
    <3>. QED  BY Zenon, <2>1, <2>2, <3>1, <3>2
  <2>3. CASE d # c
    <3>1. Of(a) = Of(s)
      BY <1>2, <2>3
    <3>. QED  BY Zenon, <2>1, <2>3, <3>1
  <2>. QED  BY Zenon, <2>2, <2>3
<1>4. ASSUME NEW i \in DOMAIN a, NEW j \in DOMAIN a, i < j, a[i][1] = c, a[j][1] = c
      PROVE  a[i][2] < a[j][2]
  <2>1. i \in 1 .. Len(s) /\ (j \in 1 .. Len(s) \/ j = Len(s) + 1)
    BY <1>1, <1>4
  <2>2. CASE j \in 1 .. Len(s)
    <3>1. a[i] = s[i] /\ a[j] = s[j]
      BY Zenon, <1>1, <2>1, <2>2
    <3>. QED  BY Zenon, <1>1, <1>4, <2>1, <2>2, <3>1 DEF InOrder
  <2>3. CASE j = Len(s) + 1
    <3>1. a[i] = s[i] /\ a[j] = <<d, k>>
      BY Zenon, <1>1, <2>1, <2>3
    <3>2. d = c /\ k = n + 1 /\ s[i][1] = c
      BY <1>4, <3>1
    <3>3. s[i] \in Range(s)
      BY <1>1, <2>1 DEF Range
    <3>4. s[i][2] \in 1 .. n
      BY Zenon, <3>2, <3>3 DEF InOrder
    <3>. QED  BY <3>1, <3>2, <3>4
  <2>. QED  BY Zenon, <2>1, <2>2, <2>3
<1>5. InOrder(a, c, m)
  BY <1>3, <1>4 DEF InOrder
<1>. QED  BY Zenon, <1>5 DEF a

LEMMA ClientOrderTun ==
    ASSUME DeviceTypes, ClientOrderKept, TunEffect, UNCHANGED connVars
    PROVE  ClientOrderKept'
<1>1. tun' # Ended => tun # Ended /\ toDevice' \o netq' = toDevice \o netq
  <2>1. <<>> \in Seq(Nat)
    OBVIOUS
  <2>. QED  BY Zenon, <2>1, TunKeeps
<1>2. \A c \in Conn : Passed(c)' = Passed(c)
  BY DEF connVars, Passed
<1>3. mode' = mode
  BY DEF TunEffect
<1>. QED  BY Zenon, <1>1, <1>2, <1>3 DEF ClientOrderKept

LEMMA ClientOrderConn ==
    ASSUME DeviceTypes, TransportTypes, mode = "tcp", ClientOrderKept, ConnEffect
    PROVE  ClientOrderKept'
<1>. SUFFICES ASSUME tun # Ended, NEW c \in Conn
              PROVE  InOrder(toDevice \o netq', c, Passed(c)')
  BY Zenon DEF ClientOrderKept, ConnEffect, InOrder
<1>1. InOrder(toDevice \o netq, c, Passed(c))
  BY Zenon DEF ClientOrderKept, InOrder
<1>2. /\ got \in [Conn -> Nat] /\ got[c] \in Nat
      /\ conn \in [Conn -> [at : {"new", "select", "lock", "closing", "ended", "device"}, holds : Nat]]
      /\ \A d \in Conn : conn[d].at = "device" => conn[d].holds = got[d]
      /\ "device" \notin {Waiting.at, Ended.at, Task("lock", None).at, Task("closing", None).at}
      /\ \A p : Task("device", p).at = "device"
  BY Zenon, ConnFacts DEF TransportTypes, Waiting, Ended, Task
<1>3. CASE Takes \/ Sends \/ PumpRests
  <2>1. UNCHANGED <<netq, conn, got>>
    BY <1>3 DEF Takes, Sends, PumpRests
  <2>. QED  BY Zenon, <1>1, <2>1 DEF Passed
<1>4. ASSUME NEW d \in Conn, Receives(d)
      PROVE  InOrder(toDevice \o netq', c, Passed(c)')
  <2>1. netq' = netq /\ conn[d].at # "device" /\ got' = [got EXCEPT ![d] = got[d] + 1]
        /\ conn' = [conn EXCEPT ![d] = Task("device", got[d] + 1)]
    BY <1>2, <1>4 DEF Receives
  <2>2. Passed(c)' = Passed(c)
    <3>1. CASE c = d
      <4>1. conn'[c].at = "device" /\ got'[c] = got[c] + 1 /\ conn[c].at # "device"
        BY Zenon, <1>2, <2>1, <3>1
      <4>. QED  BY <1>2, <4>1 DEF Passed
    <3>2. CASE c # d
      BY Zenon, <1>2, <2>1, <3>2 DEF Passed
    <3>. QED  BY Zenon, <3>1, <3>2
  <2>. QED  BY Zenon, <1>1, <2>1, <2>2
<1>5. ASSUME NEW d \in Conn, PassesOn(d)
      PROVE  InOrder(toDevice \o netq', c, Passed(c)')
  <2>1. /\ netq' = Append(netq, <<d, got[d]>>) /\ got' = got /\ conn[d].at = "device"
        /\ conn' = [conn EXCEPT ![d] = Waiting]
    BY <1>2, <1>5 DEF PassesOn
  <2>2. conn[c].at = "device" => got[c] # 0
    BY Zenon DEF TransportTypes
  <2>3. Passed(c) \in Nat /\ Passed(c)' = (IF d = c THEN Passed(c) + 1 ELSE Passed(c))
    BY <1>2, <2>1, <2>2 DEF Passed
  <2>4. d = c => got[d] = Passed(c) + 1
    BY <1>2, <2>1 DEF Passed
  <2>5. /\ toDevice \o netq \in Seq(Conn \X Nat)
        /\ toDevice \o netq' = Append(toDevice \o netq, <<d, got[d]>>)
    <3>1. toDevice \in Seq(Conn \X Nat) /\ netq \in Seq(Conn \X Nat) /\ <<d, got[d]>> \in Conn \X Nat
      BY <1>2 DEF DeviceTypes, Item, Queue
    <3>2. toDevice \o Append(netq, <<d, got[d]>>) = Append(toDevice \o netq, <<d, got[d]>>)
      <4>. DEFINE S == Conn \X Nat
                  x == <<d, got[d]>>
      <4>1. toDevice \in Seq(S) /\ netq \in Seq(S) /\ x \in S
        BY Zenon, <3>1
      <4>. HIDE DEF S, x
      <4>2. toDevice \o Append(netq, x) = Append(toDevice \o netq, x)
        BY <4>1, Push
      <4>. QED  BY Zenon, <4>2 DEF x
    <3>. QED  BY Zenon, <2>1, <3>1, <3>2, ConcatProperties
  <2>6. got[d] \in Nat
    BY Zenon, <1>2
  <2>. QED  BY Zenon, <1>1, <2>3, <2>4, <2>5, <2>6, NextInOrder
<1>6. ASSUME NEW d \in Conn, Forwards(d) \/ Moves(d)
      PROVE  InOrder(toDevice \o netq', c, Passed(c)')
  <2>1. netq' = netq /\ got' = got /\ conn[d].at # "device"
    BY Zenon, <1>2, <1>6 DEF Forwards, Moves
  <2>2. \E t \in {Waiting, Ended, Task("lock", None), Task("closing", None)} :
            conn' = [conn EXCEPT ![d] = t]
    BY Zenon, <1>6 DEF Forwards, Moves
  <2>3. conn'[c].at = "device" <=> conn[c].at = "device"
    BY <1>2, <2>1, <2>2
  <2>. QED  BY Zenon, <1>1, <2>1, <2>3 DEF Passed
<1>. QED  BY Zenon, <1>3, <1>4, <1>5, <1>6 DEF ConnEffect

-----------------------------------------------------------------------------
\* The order of the packets of the TUN device.

LEMMA TakenTun ==
    ASSUME DeviceTypes, TransportTypes, TakenInv, TunEffect, UNCHANGED connVars
    PROVE  TakenInv'
<1>0. /\ pumped' = pumped /\ pumped \in Seq(Nat) /\ tunq \in Seq(Nat) /\ read \in Nat
      /\ Waiting.at = "select" /\ Ended.at = "ended"
      /\ \A p : /\ Task("tunnel", p).holds = p /\ Task("direct", p).at = "direct"
                /\ Task("tunnel", p).at = "tunnel"
  <2>1. pumped' = pumped
    BY DEF connVars
  <2>. QED  BY Zenon, <2>1, TunFacts, DeviceSeqs, TransportSeqs DEF Waiting, Ended, Task
<1>1. Range(pumped) \subseteq Nat /\ Range(tunq) \subseteq Nat
  BY Zenon, <1>0, RangeOf
<1>2. CASE Writes \/ Stops \/ Aside
  <2>1. UNCHANGED <<tunq, read>> /\ (tun'.at = "tunnel" => tun' = tun)
    BY Zenon, <1>0, <1>2 DEF Writes, Stops, Aside
  <2>. QED  BY Zenon, <1>0, <2>1 DEF TakenInv
<1>3. CASE Reads
  <2>1. tunq' = tunq /\ read' = read + 1 /\ (tun'.at = "tunnel" => tun'.holds = read')
    BY Zenon, <1>0, <1>3 DEF Reads
  <2>2. \A x \in Range(pumped) \cup Range(tunq) : x <= read' /\ x < read'
    BY <1>0, <1>1, <2>1 DEF TakenInv
  <2>3. read' <= read'
    BY <1>0, <2>1
  <2>. QED  BY Zenon, <1>0, <2>1, <2>2, <2>3 DEF TakenInv, Before
<1>4. CASE Passes
  <2>1. /\ tun.at = "tunnel" /\ tun'.at # "tunnel" /\ tunq' = Append(tunq, tun.holds)
        /\ read' = read /\ tun.holds \in Nat
    BY Zenon, <1>0, <1>4, TunFacts DEF Passes
  <2>2. tun.holds <= read /\ Before(Range(pumped) \cup Range(tunq), {tun.holds})
    BY Zenon, <2>1 DEF TakenInv
  <2>3. Range(tunq') = Range(tunq) \cup {tun.holds}
    <3>1. tunq \in Seq(Nat) /\ tun.holds \in Nat
      BY Zenon, <1>0, <2>1
    <3>2. Range(Append(tunq, tun.holds)) = Range(tunq) \cup {tun.holds}
      BY <3>1, RangeOf
    <3>. QED  BY Zenon, <2>1, <3>2
  <2>4. IsIncreasing(tunq')
    <3>1. Before(Range(tunq), {tun.holds}) /\ IsIncreasing(tunq)
      BY <2>2 DEF Before, TakenInv
    <3>. QED  BY Zenon, <1>0, <2>1, <3>1, Increasing
  <2>5. Before(Range(pumped), Range(tunq'))
    BY Zenon, <2>2, <2>3 DEF Before, TakenInv
  <2>. QED  BY Zenon, <1>0, <2>1, <2>2, <2>3, <2>4, <2>5 DEF TakenInv
<1>. QED  BY Zenon, <1>2, <1>3, <1>4 DEF TunEffect

LEMMA TakenConn ==
    ASSUME DeviceTypes, TransportTypes, TakenInv, ConnEffect
    PROVE  TakenInv'
<1>0. UNCHANGED <<tun, read>> /\ pumped \in Seq(Nat) /\ tunq \in Seq(Nat)
  BY Zenon, DeviceSeqs, TransportSeqs DEF ConnEffect
<1>1. CASE tunq' = tunq /\ pumped' = pumped
  BY Zenon, <1>0, <1>1 DEF TakenInv
<1>2. CASE tunq # <<>> /\ tunq' = Tail(tunq) /\ pumped' = Append(pumped, Head(tunq))
  <2>1. Head(tunq) \in Nat /\ Head(tunq) \in Range(tunq) /\ Range(tunq') \subseteq Range(tunq)
    BY Zenon, <1>0, <1>2, RangeOf, HeadTailProperties
  <2>2. Range(pumped') = Range(pumped) \cup {Head(tunq)}
    BY Zenon, <1>0, <1>2, <2>1, RangeOf
  <2>3. IsIncreasing(tunq') /\ Before({Head(tunq)}, Range(tunq'))
    <3>1. IsIncreasing(tunq)
      BY DEF TakenInv
    <3>. QED  BY Zenon, <1>0, <1>2, <2>1, <3>1, Increasing
  <2>4. IsIncreasing(pumped')
    <3>1. IsIncreasing(pumped) /\ Before(Range(pumped), {Head(tunq)})
      BY Zenon, <2>1 DEF TakenInv, Before
    <3>. QED  BY Zenon, <1>0, <1>2, <2>1, <3>1, Increasing
  <2>5. Before(Range(pumped'), Range(tunq'))
    BY Zenon, <2>1, <2>2, <2>3 DEF TakenInv, Before
  <2>6. Range(pumped') \cup Range(tunq') \subseteq Range(pumped) \cup Range(tunq)
    BY Zenon, <2>1, <2>2
  <2>. QED  BY Zenon, <1>0, <2>3, <2>4, <2>5, <2>6 DEF TakenInv, Before
<1>. QED  BY Zenon, <1>1, <1>2 DEF ConnEffect, Takes, Sends, PumpRests, Receives, PassesOn, Forwards, Moves

\* What the moves of a packet do to the line of its client.
LEMMA LineGrows ==
    ASSUME NEW f \in Seq(Nat), NEW q \in Seq(Nat), NEW x \in Nat, Line(f, q, {x})
    PROVE  Line(f, Append(q, x), {}) /\ Range(Append(q, x)) = Range(q) \cup {x}
<1>0. /\ IsIncreasing(f) /\ IsIncreasing(q)
      /\ Before(Range(f), Range(q)) /\ Before(Range(f) \cup Range(q), {x})
  BY DEF Line
<1>1. Range(Append(q, x)) = Range(q) \cup {x}
  BY Zenon, RangeOf
<1>2. IsIncreasing(Append(q, x))
  <2>1. Before(Range(q), {x})
    BY Zenon, <1>0 DEF Before
  <2>. QED  BY Zenon, <1>0, <2>1, Increasing
<1>3. Before(Range(f), Range(Append(q, x)))
  BY Zenon, <1>0, <1>1 DEF Before
<1>. QED  BY Zenon, <1>0, <1>1, <1>2, <1>3 DEF Line, Before

LEMMA Lines ==
    ASSUME NEW f \in Seq(Nat), NEW q \in Seq(Nat), NEW H \in SUBSET Nat, Line(f, q, H)
    PROVE  /\ Line(f, q, {}) /\ Line(f, <<>>, H) /\ Range(<<>>) = {}
           /\ q # <<>> => /\ Line(f, Tail(q), H)
                          /\ Line(Append(f, Head(q)), Tail(q), H)
                          /\ Range(Tail(q)) \subseteq Range(q)
                          /\ Range(Append(f, Head(q))) \subseteq Range(f) \cup Range(q)
<1>0. /\ IsIncreasing(f) /\ IsIncreasing(q)
      /\ Before(Range(f), Range(q)) /\ Before(Range(f) \cup Range(q), H)
  BY Zenon DEF Line
<1>1. Range(<<>>) = {} /\ IsIncreasing(<<>>)
  BY DEF Range, IsIncreasing
<1>2. Line(f, q, {}) /\ Line(f, <<>>, H)
  BY Zenon, <1>0, <1>1 DEF Line, Before
<1>4. ASSUME q # <<>>
      PROVE  /\ Line(f, Tail(q), H)
             /\ Line(Append(f, Head(q)), Tail(q), H)
             /\ Range(Tail(q)) \subseteq Range(q)
             /\ Range(Append(f, Head(q))) \subseteq Range(f) \cup Range(q)
  <2>1. Head(q) \in Nat /\ Head(q) \in Range(q) /\ Range(Tail(q)) \subseteq Range(q)
    BY Zenon, <1>4, RangeOf, HeadTailProperties
  <2>2. Range(Append(f, Head(q))) = Range(f) \cup {Head(q)}
    BY <2>1, RangeOf
  <2>3. IsIncreasing(Tail(q)) /\ Before({Head(q)}, Range(Tail(q)))
    BY Zenon, <1>0, <1>4, <2>1, Increasing
  <2>4. IsIncreasing(Append(f, Head(q)))
    <3>1. Before(Range(f), {Head(q)})
      BY Zenon, <1>0, <2>1 DEF Before
    <3>. QED  BY Zenon, <1>0, <2>1, <3>1, Increasing
  <2>5. Line(f, Tail(q), H)
    BY Zenon, <1>0, <2>1, <2>3 DEF Line, Before
  <2>6. Line(Append(f, Head(q)), Tail(q), H)
    BY Zenon, <1>0, <2>1, <2>2, <2>3, <2>4 DEF Line, Before
  <2>. QED  BY Zenon, <2>1, <2>2, <2>5, <2>6
<1>. QED  BY Zenon, <1>1, <1>2, <1>4

LEMMA GivenShrinks ==
    ASSUME GivenInv, pumped' = pumped,
           \A c \in Conn : Line(forwarded'[c], queue'[c], Held(c)') /\ Given(c)' \subseteq Given(c)
    PROVE  GivenInv'
BY Zenon DEF GivenInv

LEMMA GivenSame ==
    ASSUME GivenInv, UNCHANGED <<forwarded, queue, pumped>>,
           pump'.to = pump.to, pump'.holds = pump.holds
    PROVE  GivenInv'
<1>1. \A c \in Conn : Held(c)' = Held(c)
  BY Zenon DEF Held
<1>2. \A c \in Conn : Given(c)' = Given(c)
  BY Zenon, <1>1 DEF Given
<1>. QED  BY <1>1, <1>2 DEF GivenInv

LEMMA GivenConn ==
    ASSUME DeviceTypes, TransportTypes, TakenInv, GivenInv, ConnEffect
    PROVE  GivenInv'
<1>0. /\ forwarded \in [Conn -> Seq(Nat)] /\ queue \in [Conn -> Seq(Nat)]
      /\ pumped \in Seq(Nat) /\ tunq \in Seq(Nat) /\ NoConn \notin Conn
      /\ PumpIdle.to = NoConn /\ PumpEnded.to = NoConn
      /\ \A p, c : Pump("send", p, c).to = c /\ Pump("send", p, c).holds = p
  BY Zenon, DeviceSeqs, TransportSeqs, ConnectionAssumption DEF PumpIdle, PumpEnded, Pump
<1>1. /\ \A c \in Conn : Held(c) \in SUBSET Nat
      /\ pump.at = "send" => pump.to \in Conn
  BY Zenon, ConnFacts DEF TransportTypes, Held
<1>2. \A c \in Conn : Line(forwarded[c], queue[c], Held(c))
  BY DEF GivenInv
<1>3. CASE UNCHANGED <<forwarded, queue, pump, pumped>>
  BY Zenon, <1>3, GivenSame
<1>4. CASE Takes
  <2>1. /\ tunq # <<>> /\ pumped' = Append(pumped, Head(tunq)) /\ UNCHANGED <<queue, forwarded>>
        /\ \A c \in Conn : Held(c) = {}
    BY Zenon, <1>0, <1>4 DEF Takes, Held
  <2>2. Head(tunq) \in Nat /\ Head(tunq) \in Range(tunq)
    <3>1. tunq \in Seq(Nat) /\ tunq # <<>> /\ 0 \in Nat
      BY Zenon, <1>0, <2>1
    <3>. QED  BY Zenon, <3>1, RangeOf, HeadTailProperties
  <2>3. Range(pumped') = Range(pumped) \cup {Head(tunq)}
    <3>1. Range(Append(pumped, Head(tunq))) = Range(pumped) \cup {Head(tunq)}
      BY Zenon, <1>0, <2>2, RangeOf
    <3>. QED  BY Zenon, <2>1, <3>1
  <2>4. \A x \in Range(pumped) : x < Head(tunq) /\ x # Head(tunq)
    <3>1. Range(pumped) \subseteq Nat
      BY Zenon, <1>0, RangeOf
    <3>. QED  BY <2>2, <3>1 DEF TakenInv, Before
  <2>5. /\ \A c \in Conn : Held(c)' \subseteq {Head(tunq)}
        /\ \A c, d \in Conn : c # d => Held(c)' = {} \/ Held(d)' = {}
    BY Zenon, <1>0, <1>4 DEF Takes, Held
  <2>6. \A c \in Conn : Range(forwarded[c]) \cup Range(queue[c]) \subseteq Range(pumped)
    BY Zenon DEF GivenInv, Given
  <2>7. ASSUME NEW c \in Conn
        PROVE  Line(forwarded'[c], queue'[c], Held(c)')
    BY Zenon, <1>2, <2>1, <2>4, <2>5, <2>6 DEF Line, Before
  <2>8. ASSUME NEW c \in Conn
        PROVE  Given(c)' \subseteq Range(pumped')
    BY Zenon, <2>1, <2>3, <2>5, <2>6 DEF Given
  <2>9. ASSUME NEW c \in Conn, NEW d \in Conn \ {c}
        PROVE  Given(c)' \cap Given(d)' = {}
    <3>1. Given(c) \cap Given(d) = {}
      BY Zenon DEF GivenInv
    <3>2. Head(tunq) \notin Given(c) \cup Given(d)
      BY Zenon, <2>4 DEF GivenInv
    <3>3. Given(c)' \subseteq Given(c) \cup Held(c)' /\ Given(d)' \subseteq Given(d) \cup Held(d)'
      BY Zenon, <2>1 DEF Given
    <3>4. Held(c)' \cup Held(d)' \subseteq {Head(tunq)} /\ (Held(c)' = {} \/ Held(d)' = {})
      BY Zenon, <2>5
    <3>. QED  BY Zenon, <3>1, <3>2, <3>3, <3>4
  <2>. QED  BY Zenon, <2>7, <2>8, <2>9 DEF GivenInv
<1>5. CASE Sends
  <2>1. /\ pump.to \in Conn /\ UNCHANGED <<forwarded, pumped>> /\ \A c \in Conn : Held(c)' = {}
        /\ queue' = queue \/ queue' = [queue EXCEPT ![pump.to] = Append(queue[pump.to], pump.holds)]
        /\ Held(pump.to) = {pump.holds}
    <3>1. /\ pump.to \in Conn /\ UNCHANGED <<forwarded, pumped>> /\ pump'.to \notin Conn
          /\ queue' = queue \/ queue' = [queue EXCEPT ![pump.to] = Append(queue[pump.to], pump.holds)]
      BY Zenon, <1>0, <1>1, <1>5 DEF Sends
    <3>2. (\A c \in Conn : Held(c)' = {}) /\ Held(pump.to) = {pump.holds}
      BY Zenon, <3>1 DEF Held
    <3>. QED  BY Zenon, <3>1, <3>2
  <2>2. ASSUME NEW c \in Conn
        PROVE  Line(forwarded'[c], queue'[c], Held(c)') /\ Given(c)' \subseteq Given(c)
    <3>1. queue'[c] = queue[c] \/ (c = pump.to /\ queue'[c] = Append(queue[c], pump.holds))
      BY Zenon, <1>0, <2>1
    <3>2. CASE queue'[c] = queue[c]
      <4>1. Line(forwarded[c], queue[c], {})
        BY <1>2 DEF Line, Before
      <4>. QED  BY Zenon, <2>1, <3>2, <4>1 DEF Given
    <3>3. CASE c = pump.to /\ queue'[c] = Append(queue[c], pump.holds)
      <4>1. Held(c) = {pump.holds}
        BY Zenon, <2>1, <3>3
      <4>2. /\ Line(forwarded[c], Append(queue[c], pump.holds), {})
            /\ Range(Append(queue[c], pump.holds)) = Range(queue[c]) \cup {pump.holds}
        <5>1. /\ forwarded[c] \in Seq(Nat) /\ queue[c] \in Seq(Nat)
              /\ pump.holds \in Nat /\ Line(forwarded[c], queue[c], {pump.holds})
          <6>1. /\ forwarded[c] \in Seq(Nat) /\ queue[c] \in Seq(Nat)
                /\ Held(c) \in SUBSET Nat /\ Line(forwarded[c], queue[c], Held(c))
            BY Zenon, <1>0, <1>1, <1>2
          <6>. QED  BY Zenon, <4>1, <6>1
        <5>. QED  BY <5>1, LineGrows
      <4>. QED  BY Zenon, <2>1, <3>3, <4>1, <4>2 DEF Given
    <3>. QED  BY Zenon, <3>1, <3>2, <3>3
  <2>. QED  BY Zenon, <2>1, <2>2, GivenShrinks
<1>6. ASSUME NEW d \in Conn, Forwards(d)
      PROVE  GivenInv'
  <2>1. /\ UNCHANGED <<pump, pumped>> /\ queue[d] # <<>>
        /\ queue' = [queue EXCEPT ![d] = Tail(queue[d])]
        /\ \/ forwarded' = forwarded
           \/ forwarded' = [forwarded EXCEPT ![d] = Append(forwarded[d], Head(queue[d]))]
    BY Zenon, <1>0, <1>6 DEF Forwards
  <2>2. \A c \in Conn : Held(c)' = Held(c)
    BY Zenon, <2>1 DEF Held
  <2>3. ASSUME NEW c \in Conn
        PROVE  Line(forwarded'[c], queue'[c], Held(c)') /\ Given(c)' \subseteq Given(c)
    <3>1. CASE c # d
      <4>1. queue'[c] = queue[c] /\ forwarded'[c] = forwarded[c]
        BY Zenon, <1>0, <2>1, <3>1
      <4>. QED  BY Zenon, <1>2, <2>2, <4>1 DEF Given
    <3>2. CASE c = d
      <4>1. /\ queue'[c] = Tail(queue[c])
            /\ forwarded'[c] = forwarded[c] \/ forwarded'[c] = Append(forwarded[c], Head(queue[c]))
        BY Zenon, <1>0, <2>1, <3>2
      <4>2. /\ Line(forwarded[c], Tail(queue[c]), Held(c))
            /\ Line(Append(forwarded[c], Head(queue[c])), Tail(queue[c]), Held(c))
            /\ Range(Tail(queue[c])) \subseteq Range(queue[c])
            /\ Range(Append(forwarded[c], Head(queue[c]))) \subseteq Range(forwarded[c]) \cup Range(queue[c])
        <5>1. /\ forwarded[c] \in Seq(Nat) /\ queue[c] \in Seq(Nat) /\ queue[c] # <<>>
              /\ Held(c) \in SUBSET Nat /\ Line(forwarded[c], queue[c], Held(c))
          BY Zenon, <1>0, <1>1, <1>2, <2>1, <3>2
        <5>. QED  BY Zenon, <5>1, Lines
      <4>. QED  BY Zenon, <2>2, <4>1, <4>2 DEF Given
    <3>. QED  BY Zenon, <3>1, <3>2
  <2>. QED  BY Zenon, <2>1, <2>3, GivenShrinks
<1>7. ASSUME NEW d \in Conn, Moves(d)
      PROVE  GivenInv'
  <2>1. /\ UNCHANGED <<forwarded, pump, pumped>>
        /\ queue' = queue \/ queue' = [queue EXCEPT ![d] = <<>>]
    BY <1>7 DEF Moves
  <2>2. \A c \in Conn : Held(c)' = Held(c)
    BY Zenon, <2>1 DEF Held
  <2>3. ASSUME NEW c \in Conn
        PROVE  Line(forwarded'[c], queue'[c], Held(c)') /\ Given(c)' \subseteq Given(c)
    <3>1. queue'[c] = queue[c] \/ queue'[c] = <<>>
      BY Zenon, <1>0, <2>1
    <3>2. Line(forwarded[c], <<>>, Held(c)) /\ Range(<<>>) = {}
      <4>1. /\ forwarded[c] \in Seq(Nat) /\ queue[c] \in Seq(Nat)
            /\ Held(c) \in SUBSET Nat /\ Line(forwarded[c], queue[c], Held(c))
        BY Zenon, <1>0, <1>1, <1>2
      <4>. QED  BY Zenon, <4>1, Lines
    <3>. QED  BY Zenon, <1>2, <2>1, <2>2, <3>1, <3>2 DEF Given
  <2>. QED  BY Zenon, <2>1, <2>3, GivenShrinks
<1>8. CASE PumpRests
  <2>1. UNCHANGED <<forwarded, queue, pumped>> /\ pump'.to = pump.to /\ pump'.holds = pump.holds
    BY <1>8 DEF PumpRests, PumpIdle, PumpEnded, Pump
  <2>. QED  BY Zenon, <2>1, GivenSame
<1>. QED
  BY Zenon, <1>3, <1>4, <1>5, <1>6, <1>7, <1>8 DEF ConnEffect, Receives, PassesOn

\* What the packets on their way to the pump are.
TakenKept ==
    /\ tun # Ended => pumped \o tunq \o Holding(tun, "tunnel") = accepted
    /\ TakenInv /\ GivenInv

LEMMA KeptTun ==
    ASSUME DeviceTypes, TransportTypes, TakenKept, TunEffect, UNCHANGED connVars
    PROVE  TakenKept'
<1>1. TakenInv' /\ GivenInv'
  BY Zenon, TakenTun, GivenSame DEF TakenKept, connVars
<1>2. ASSUME tun' # Ended
      PROVE  pumped' \o tunq' \o Holding(tun', "tunnel") = accepted'
  <2>1. pumped \in Seq(Nat) /\ pumped' = pumped
    BY Zenon DEF TransportTypes, connVars
  <2>2. tun # Ended
    BY Zenon, <1>2, <2>1, TunKeeps
  <2>3. (pumped \o tunq) \o Holding(tun, "tunnel") = accepted
    BY Zenon, <2>2 DEF TakenKept
  <2>4. (pumped \o tunq') \o Holding(tun', "tunnel") = accepted'
    BY Zenon, <1>2, <2>1, <2>3, TunKeeps
  <2>. QED  BY Zenon, <2>1, <2>4
<1>. QED  BY Zenon, <1>1, <1>2 DEF TakenKept

LEMMA KeptConn ==
    ASSUME DeviceTypes, TransportTypes, TakenKept, ConnEffect
    PROVE  TakenKept'
<1>1. TakenInv' /\ GivenInv'
  BY Zenon, TakenConn, GivenConn DEF TakenKept
<1>2. tun' = tun /\ accepted' = accepted
  BY Zenon DEF ConnEffect
<1>3. pumped' \o tunq' = pumped \o tunq
  <2>1. CASE UNCHANGED <<pumped, tunq>>
    BY Zenon, <2>1
  <2>2. CASE Takes
    <3>1. pumped \in Seq(Nat) /\ tunq \in Seq(Nat) /\ tunq # <<>>
      BY Zenon, <2>2, DeviceSeqs, TransportSeqs DEF Takes
    <3>2. Append(pumped, Head(tunq)) \o Tail(tunq) = pumped \o tunq
      BY Zenon, <3>1, Shift
    <3>. QED  BY Zenon, <2>2, <3>2 DEF Takes
  <2>. QED
    BY Zenon, <2>1, <2>2 DEF ConnEffect, Sends, PumpRests, Receives, PassesOn, Forwards, Moves
<1>4. ASSUME tun' # Ended
      PROVE  pumped' \o tunq' \o Holding(tun', "tunnel") = accepted'
  <2>1. pumped \o tunq \o Holding(tun, "tunnel") = accepted
    BY <1>2, <1>4 DEF TakenKept
  <2>. QED  BY <1>2, <1>3, <2>1
<1>. QED  BY Zenon, <1>1, <1>4 DEF TakenKept

-----------------------------------------------------------------------------
\* The inductive invariant.

LEMMA InvParts ==
    Inv <=> /\ Types /\ NothingLost /\ ClientOrderKept
            /\ mode = "tcp" => TakenKept
BY DEF Inv, TakenKept

LEMMA InitInv == Init => Inv
<1>. SUFFICES ASSUME Init
              PROVE  Inv
  BY Zenon
<1>0. /\ tun = Waiting /\ io = Waiting /\ tunq = <<>> /\ netq = <<>>
      /\ read = 0 /\ accepted = <<>> /\ toDevice = <<>> /\ received = 0 /\ handled = <<>>
      /\ pump = PumpIdle /\ pumped = <<>>
      /\ conn = [c \in Conn |-> New] /\ queue = [c \in Conn |-> <<>>]
      /\ got = [c \in Conn |-> 0] /\ forwarded = [c \in Conn |-> <<>>]
  BY Zenon DEF Init, TunInit, IoInit, ConnInit
<1>1. /\ Range(<<>>) = {} /\ IsIncreasing(<<>>) /\ <<>> \o <<>> = <<>>
      /\ New.at = "new"
  BY DEF Range, IsIncreasing, New, Task
<1>3. Types
  BY Zenon, InitTypes
<1>4. Holding(tun, "tunnel") = <<>> /\ Holding(io, "device") = <<>> /\ tun.at # "tunnel"
  BY Zenon, <1>0 DEF Holding, Waiting, Task
<1>5. NothingLost
  <2>1. <<>> = [i \in 1 .. 0 |-> i]
    OBVIOUS
  <2>. QED  BY Zenon, <1>0, <1>1, <1>4, <2>1 DEF NothingLost
<1>6. ClientOrderKept
  <2>1. \A c \in Conn : Passed(c) = 0
    BY Zenon, <1>0, <1>1 DEF Passed
  <2>2. \A c \in Conn : InOrder(<<>>, c, 0)
    BY <1>1 DEF InOrder
  <2>3. toDevice \o netq = <<>>
    BY Zenon, <1>0, <1>1
  <2>. QED  BY Zenon, <2>1, <2>2, <2>3 DEF ClientOrderKept, InOrder
<1>7. TakenInv
  BY Zenon, <1>0, <1>1, <1>4 DEF TakenInv, Before
<1>8. GivenInv
  <2>1. \A c \in Conn : Held(c) = {}
    BY Zenon, <1>0, ConnectionAssumption DEF Held, PumpIdle, Pump
  <2>. QED  BY Zenon, <1>0, <1>1, <2>1 DEF GivenInv, Given, Line, Before
<1>9. pumped \o tunq \o Holding(tun, "tunnel") = accepted
  BY Zenon, <1>0, <1>1, <1>4
<1>. QED  BY Zenon, <1>3, <1>5, <1>6, <1>7, <1>8, <1>9 DEF Inv

LEMMA RestInv ==
    ASSUME Inv, UNCHANGED <<tunVars, ioVars, connVars>>, Types'
    PROVE  Inv'
<1>1. mode' = mode
  BY Zenon DEF tunVars
<1>2. UNCHANGED <<tun, tunq, netq, directq, replyq, read, accepted, replies, toDevice>>
  BY Zenon DEF tunVars
<1>3. UNCHANGED <<io, received, handled, beat>>
  BY Zenon DEF ioVars
<1>4. UNCHANGED <<listener, open, conn, pump, queue, pumped, got, forwarded>>
  BY Zenon DEF connVars
<1>5. NothingLost'
  BY Zenon, <1>1, <1>2, <1>3 DEF Inv, NothingLost
<1>6. ClientOrderKept'
  <2>1. \A c \in Conn : Passed(c)' = Passed(c)
    BY Zenon, <1>4 DEF Passed
  <2>2. tun' = tun /\ toDevice' \o netq' = toDevice \o netq
    BY Zenon, <1>2
  <2>. QED  BY Zenon, <1>1, <2>1, <2>2 DEF Inv, ClientOrderKept
<1>7. TakenKept => TakenKept'
  <2>1. TakenInv => TakenInv'
    BY Zenon, <1>2, <1>4 DEF TakenInv
  <2>2. GivenInv => GivenInv'
    BY Zenon, <1>4, GivenSame
  <2>. QED  BY Zenon, <1>2, <1>4, <2>1, <2>2 DEF TakenKept
<1>. QED  BY Zenon, InvParts, <1>1, <1>5, <1>6, <1>7 DEF Inv, TakenKept

LEMMA NextInv == Inv /\ [Next]_vars => Inv'
<1>. SUFFICES ASSUME Inv, [Next]_vars
              PROVE  Inv'
  OBVIOUS
<1>0. /\ Types /\ NothingLost /\ ClientOrderKept /\ (mode = "tcp" => TakenKept)
      /\ DeviceTypes /\ TransportTypes
  BY Zenon, InvParts DEF Types
<1>6. Types'
  BY Zenon, <1>0, NextTypes
<1>1. CASE TunStep(SendersGone, ReceiverGone) /\ UNCHANGED <<ioVars, connVars>>
  <2>1. TunEffect /\ mode' = mode
    BY Zenon, <1>1, TunHasEffect DEF TunEffect
  <2>2. NothingLost'
    <3>1. CASE mode = "tcp"
      BY Zenon, <2>1, <3>1 DEF NothingLost
    <3>2. CASE mode # "tcp"
      BY Zenon, <1>0, <1>1, <2>1, <3>2, NothingLostTun
    <3>. QED  BY Zenon, <3>1, <3>2
  <2>3. ClientOrderKept'
    BY Zenon, <1>0, <1>1, <2>1, ClientOrderTun
  <2>4. mode' = "tcp" => TakenKept'
    BY Zenon, <1>0, <1>1, <2>1, KeptTun
  <2>. QED  BY Zenon, <1>6, <2>2, <2>3, <2>4 DEF Inv, TakenKept
<1>2. CASE mode # "tcp" /\ IoStep /\ UNCHANGED connVars
  <2>1. IoEffect /\ mode' = mode
    BY Zenon, <1>2, IoHasEffect DEF IoEffect
  <2>2. NothingLost'
    BY Zenon, <1>0, <1>2, <2>1, NothingLostIo
  <2>3. ClientOrderKept' /\ mode' # "tcp"
    BY Zenon, <1>2, <2>1 DEF ClientOrderKept
  <2>. QED  BY Zenon, <1>6, <2>2, <2>3 DEF Inv
<1>3. CASE mode = "tcp" /\ ConnStep /\ UNCHANGED ioVars
  <2>1. ConnEffect /\ mode' = mode
    BY Zenon, <1>3, ConnHasEffect DEF ConnEffect
  <2>2. NothingLost'
    BY Zenon, <1>3, <2>1 DEF NothingLost
  <2>3. ClientOrderKept' /\ TakenKept'
    BY Zenon, <1>0, <1>3, <2>1, ClientOrderConn, KeptConn
  <2>. QED  BY Zenon, <1>6, <2>2, <2>3 DEF Inv, TakenKept
<1>4. CASE Return
  BY Zenon, <1>6, <1>4, RestInv DEF Return
<1>5. CASE UNCHANGED vars
  BY Zenon, <1>6, <1>5, RestInv DEF vars
<1>. QED  BY Zenon, <1>1, <1>2, <1>3, <1>4, <1>5 DEF Next

LEMMA InvGivesOrder == Inv => DeviceOrderKept
<1>. SUFFICES ASSUME Inv, mode = "tcp"
              PROVE  /\ tun # Ended => pumped \o tunq \o Holding(tun, "tunnel") = accepted
                     /\ \A c \in Conn :
                           /\ IsIncreasing(forwarded[c] \o queue[c] \o
                                 (IF pump.to = c THEN <<pump.holds>> ELSE <<>>))
                           /\ \A d \in Conn \ {c} : Range(forwarded[c]) \cap Range(forwarded[d]) = {}
  BY Zenon DEF DeviceOrderKept
<1>0. TakenKept /\ GivenInv /\ TransportTypes
  BY Zenon, InvParts DEF TakenKept, Types
<1>1. ASSUME NEW c \in Conn
      PROVE  IsIncreasing(forwarded[c] \o queue[c] \o
                 (IF pump.to = c THEN <<pump.holds>> ELSE <<>>))
  <2> DEFINE h == IF pump.to = c THEN <<pump.holds>> ELSE <<>>
             s == forwarded[c] \o queue[c]
  <2>1. forwarded[c] \in Seq(Nat) /\ queue[c] \in Seq(Nat)
    BY Zenon, <1>0, TransportSeqs
  <2>2. /\ IsIncreasing(forwarded[c]) /\ IsIncreasing(queue[c])
        /\ Before(Range(forwarded[c]), Range(queue[c]))
        /\ Before(Range(forwarded[c]) \cup Range(queue[c]), Held(c))
    BY <1>0 DEF GivenInv, Line
  <2>3. s \in Seq(Nat) /\ IsIncreasing(s)
    <3>1. IsIncreasing(forwarded[c] \o queue[c])
      BY Zenon, <2>1, <2>2, IncreasingConcat
    <3>. QED  BY Zenon, <2>1, <3>1, ConcatProperties
  <2>4. Range(s) \subseteq Range(forwarded[c]) \cup Range(queue[c])
    BY <2>1, RangeConcatenation
  <2>5. h \in Seq(Nat) /\ IsIncreasing(h) /\ Range(h) = Held(c)
    <3>1. CASE pump.to = c
      <4>1. pump.holds \in Nat
        BY Zenon, <1>0, <3>1, ConnFacts DEF TransportTypes
      <4>. QED  BY <3>1, <4>1 DEF Held, Range, IsIncreasing
    <3>2. CASE pump.to # c
      BY <3>2 DEF Held, Range, IsIncreasing
    <3>. QED  BY Zenon, <3>1, <3>2
  <2>6. Before(Range(s), Range(h))
    BY Zenon, <2>2, <2>4, <2>5 DEF Before
  <2> HIDE DEF h, s
  <2>7. IsIncreasing(s \o h)
    BY Zenon, <2>3, <2>5, <2>6, IncreasingConcat
  <2>. QED  BY <2>7 DEF s, h
<1>2. \A c \in Conn : \A d \in Conn \ {c} : Range(forwarded[c]) \cap Range(forwarded[d]) = {}
  BY Zenon, <1>0 DEF GivenInv, Given
<1>. QED  BY Zenon, <1>0, <1>1, <1>2 DEF TakenKept

\* In every behaviour of the tasks of a client or a server the invariant holds.
THEOREM Invariance == Spec => []Inv
<1>. QED  BY InitInv, NextInv, PTL DEF Spec

\* Between the TUN device and the network a client and the UDP server lose,
\* repeat or reorder no packet for the tunnel, in either direction, as long as
\* neither task has ended: for all capacities and any number of packets.
THEOREM NothingIsLost == Spec => []NothingLost
<1>1. Inv => NothingLost
  BY InvParts
<1>. QED  BY <1>1, Invariance, PTL

\* Of each connection of a TCP or WebSocket server the packets reach the TUN
\* device in order, without loss or repetition, whatever the other connections
\* do: for any set of connections.
THEOREM ClientsInOrder == Spec => []ClientOrderKept
<1>1. Inv => ClientOrderKept
  BY InvParts
<1>. QED  BY <1>1, Invariance, PTL

\* The packets of the TUN device are handed out in the order in which they were
\* read, none to two clients, and reach each client in that order.
THEOREM DeviceInOrder == Spec => []DeviceOrderKept
<1>. QED  BY InvGivesOrder, Invariance, PTL
=============================================================================
