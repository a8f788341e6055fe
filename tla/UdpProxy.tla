------------------------------ MODULE UdpProxy ------------------------------
(***************************************************************************)
(* The UDP part of the transparent proxy.  One task reads datagrams from   *)
(* the user-space IP stack and hands each to the session task of its       *)
(* (client, target) pair, which it spawns when the table has none          *)
(* (handle_inbound_datagram).  A session task relays between its channel   *)
(* and a socket of its own, ends after 30 idle seconds or on an error, and *)
(* removes its pair from the table (handle_udp_session).                   *)
(***************************************************************************)
EXTENDS Integers, Sequences, FiniteSets

CONSTANTS
    Key,            \* (client, target) pairs that pass the filters
    Session,        \* session tasks, one element per task ever spawned
    NoSession,
    NoKey,
    MaxDatagrams    \* bound: datagrams read from the IP stack

ASSUME ProxyAssumption ==
    /\ NoSession \notin Session
    /\ NoKey \notin Key
    /\ MaxDatagrams \in Nat

VARIABLES
    table,      \* sessions: the channel of each pair, named by its reader
    pc,         \* where each session task is
    key,        \* the pair of each session task
    chan,       \* the datagrams in the channel of each session task
    hand,       \* the datagram a session task is sending, 0 if none
    main,       \* the inbound task: its place, pair, datagram and sender
    count,      \* datagrams read so far; a datagram is named by its number
    relayed,    \* history: the last datagram of each pair given to its socket
    active      \* stats.active_udp

vars == <<table, pc, key, chan, hand, main, count, relayed, active>>

\* "new" no task yet, "spawned" before the socket is opened, "loop" in select!,
\* "send" awaiting outbound.send, "remove" awaiting the mutex after the loop,
\* "leave" before the counter is decremented, "gone" the channel is dropped.
SessionPC == {"new", "spawned", "loop", "send", "remove", "leave", "gone"}

Main == [pc : {"recv", "lock", "send", "drop"}, key : Key \cup {NoKey},
         data : Nat, tx : Session \cup {NoSession}]

MainIdle == [pc |-> "recv", key |-> NoKey, data |-> 0, tx |-> NoSession]

Init ==
    /\ table = [k \in Key |-> NoSession]
    /\ pc = [s \in Session |-> "new"]
    /\ key = [s \in Session |-> NoKey]
    /\ chan = [s \in Session |-> <<>>]
    /\ hand = [s \in Session |-> 0]
    /\ main = MainIdle
    /\ count = 0
    /\ relayed = [k \in Key |-> 0]
    /\ active = 0

-----------------------------------------------------------------------------
(***************************************************************************)
(* handle_inbound_datagram.                                                *)
(***************************************************************************)
Recv(k) ==
    /\ main.pc = "recv"
    /\ count < MaxDatagrams
    /\ count' = count + 1
    /\ main' = [pc |-> "lock", key |-> k, data |-> count + 1, tx |-> NoSession]
    /\ UNCHANGED <<table, pc, key, chan, hand, relayed, active>>

\* With the mutex: the sender of the pair, or of a task spawned for it.
FindSession ==
    /\ main.pc = "lock"
    /\ table[main.key] # NoSession
    /\ main' = [pc |-> "send", key |-> main.key, data |-> main.data,
                tx |-> table[main.key]]
    /\ UNCHANGED <<table, pc, key, chan, hand, count, relayed, active>>

\* A variant that spawns the task without its pair.
SpawnSession_NoKey(s) ==
    /\ main.pc = "lock"
    /\ table[main.key] = NoSession
    /\ pc[s] = "new"
    /\ table' = [table EXCEPT ![main.key] = s]
    /\ pc' = [pc EXCEPT ![s] = "spawned"]
    /\ main' = [pc |-> "send", key |-> main.key, data |-> main.data, tx |-> s]
    /\ UNCHANGED <<key, chan, hand, count, relayed, active>>

SpawnSession(s) ==
    /\ main.pc = "lock"
    /\ table[main.key] = NoSession
    /\ pc[s] = "new"
    /\ table' = [table EXCEPT ![main.key] = s]
    /\ pc' = [pc EXCEPT ![s] = "spawned"]
    /\ key' = [key EXCEPT ![s] = main.key]
    /\ main' = [pc |-> "send", key |-> main.key, data |-> main.data, tx |-> s]
    /\ UNCHANGED <<chan, hand, count, relayed, active>>

\* tx.send fails only when the channel has been dropped.
HandOver ==
    /\ main.pc = "send"
    /\ IF pc[main.tx] = "gone"
       THEN /\ main' = [pc |-> "drop", key |-> main.key, data |-> main.data,
                        tx |-> main.tx]
            /\ UNCHANGED chan
       ELSE /\ chan' = [chan EXCEPT ![main.tx] = Append(@, main.data)]
            /\ main' = MainIdle
    /\ UNCHANGED <<table, pc, key, hand, count, relayed, active>>

DropEntry ==
    /\ main.pc = "drop"
    /\ table' = [table EXCEPT ![main.key] = NoSession]
    /\ main' = MainIdle
    /\ UNCHANGED <<pc, key, chan, hand, count, relayed, active>>

-----------------------------------------------------------------------------
(***************************************************************************)
(* handle_udp_session.                                                     *)
(***************************************************************************)
Goto(s, from, to) ==
    /\ pc[s] = from
    /\ pc' = [pc EXCEPT ![s] = to]

\* A variant that counts only the tasks whose socket opened.
Open_CountsOpened(s) ==
    /\ \/ Goto(s, "spawned", "loop") /\ active' = active + 1
       \/ Goto(s, "spawned", "remove") /\ UNCHANGED active
    /\ UNCHANGED <<table, key, chan, hand, main, count, relayed>>

\* The counter, then the outbound socket, which may fail to open.
Open(s) ==
    /\ Goto(s, "spawned", "loop") \/ Goto(s, "spawned", "remove")
    /\ active' = active + 1
    /\ UNCHANGED <<table, key, chan, hand, main, count, relayed>>

\* A variant that takes the newest datagram first.
Take_Newest(s) ==
    /\ chan[s] # <<>>
    /\ Goto(s, "loop", "send")
    /\ hand' = [hand EXCEPT ![s] = chan[s][Len(chan[s])]]
    /\ chan' = [chan EXCEPT ![s] = SubSeq(@, 1, Len(@) - 1)]
    /\ UNCHANGED <<table, key, main, count, relayed, active>>

Take(s) ==
    /\ chan[s] # <<>>
    /\ Goto(s, "loop", "send")
    /\ hand' = [hand EXCEPT ![s] = Head(chan[s])]
    /\ chan' = [chan EXCEPT ![s] = Tail(@)]
    /\ UNCHANGED <<table, key, main, count, relayed, active>>

\* outbound.send returns, or fails and ends the session.
Relay(s) ==
    /\ \/ /\ Goto(s, "send", "loop")
          /\ relayed' = [relayed EXCEPT ![key[s]] = hand[s]]
       \/ Goto(s, "send", "remove") /\ UNCHANGED relayed
    /\ hand' = [hand EXCEPT ![s] = 0]
    /\ UNCHANGED <<table, key, chan, main, count, active>>

\* A variant that has no timeout and waits for its channel to be closed.
LoopEnds_OnClose(s) ==
    /\ Goto(s, "loop", "remove")
    /\ table[key[s]] # s
    /\ UNCHANGED <<table, key, chan, hand, main, count, relayed, active>>

\* The loop ends: idle timeout (also when a datagram has just come in), or an
\* error of the outbound socket or of the reply to the client.
LoopEnds(s) ==
    /\ Goto(s, "loop", "remove")
    /\ UNCHANGED <<table, key, chan, hand, main, count, relayed, active>>

\* A variant that leaves its entry behind.
Remove_KeepsEntry(s) ==
    /\ Goto(s, "remove", "leave")
    /\ UNCHANGED <<table, key, chan, hand, main, count, relayed, active>>

Remove(s) ==
    /\ Goto(s, "remove", "leave")
    /\ table' = [table EXCEPT ![key[s]] = NoSession]
    /\ UNCHANGED <<key, chan, hand, main, count, relayed, active>>

\* A variant that never drops the channel.
Leave_KeepsChannel(s) ==
    /\ Goto(s, "leave", "gone")
    /\ active' = active - 1
    /\ UNCHANGED <<table, key, chan, hand, main, count, relayed>>

\* The counter is decremented and the channel dropped with what it holds.
Leave(s) ==
    /\ Goto(s, "leave", "gone")
    /\ active' = active - 1
    /\ chan' = [chan EXCEPT ![s] = <<>>]
    /\ UNCHANGED <<table, key, hand, main, count, relayed>>

SessionStep(s) ==
    Open(s) \/ Take(s) \/ Relay(s) \/ LoopEnds(s) \/ Remove(s) \/ Leave(s)

Next ==
    \/ \E k \in Key : Recv(k)
    \/ FindSession \/ HandOver \/ DropEntry
    \/ \E s \in Session : SpawnSession(s) \/ SessionStep(s)

Spec == Init /\ [][Next]_vars

-----------------------------------------------------------------------------
\* Every variable has its type, and a task that was spawned has a pair.
TypeOK ==
    /\ table \in [Key -> Session \cup {NoSession}]
    /\ pc \in [Session -> SessionPC]
    /\ key \in [Session -> Key \cup {NoKey}]
    /\ \A s \in Session : pc[s] # "new" => key[s] \in Key
    /\ chan \in [Session -> Seq(Nat)]
    /\ hand \in [Session -> Nat]
    /\ main \in Main
    /\ count \in Nat
    /\ relayed \in [Key -> Nat]
    /\ active \in Int

\* A session task that has not yet removed its pair: it may still relay.
Serving(s) == pc[s] \in {"spawned", "loop", "send", "remove"}

\* The table names exactly the tasks that serve: a task finds its own entry when
\* it removes its pair, never that of a successor, so a pair has one task at a
\* time and rx.recv() cannot return None inside the loop.
TableIsServing ==
    \A k \in Key, s \in Session : table[k] = s <=> Serving(s) /\ key[s] = k

\* The datagrams of a pair reach its socket in the order in which they came,
\* across the sessions that serve the pair one after the other.
RelayedInOrder == [][\A k \in Key : relayed'[k] >= relayed[k]]_vars

\* active_udp counts the tasks between its increment and its decrement, so it
\* never goes below zero.
ActiveIsExact ==
    active = Cardinality({s \in Session : pc[s] \in {"loop", "send", "remove", "leave"}})

\* A datagram in the channel of a session is given to the socket unless the
\* session ends: no channel is left with nobody reading it.
ChannelDrains ==
    \A s \in Session : chan[s] # <<>> ~> chan[s] = <<>>
=============================================================================
