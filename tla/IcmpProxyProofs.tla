-------------------------- MODULE IcmpProxyProofs --------------------------
(***************************************************************************)
(* Proofs about IcmpProxy for any set of keys and session tasks, any       *)
(* number of requests and faults and any number of identifiers.            *)
(***************************************************************************)
EXTENDS IcmpProxy, FiniteSetTheorems, TLAPS

LEMMA SeqIs ==
    ASSUME NEW T, NEW q \in Seq(T)
    PROVE  /\ Len(q) \in Nat /\ q \in [1 .. Len(q) -> T] /\ DOMAIN q = 1 .. Len(q)
           /\ \A i \in 1 .. Len(q) : q[i] \in T
OBVIOUS

LEMMA TailIs ==
    ASSUME NEW T, NEW q \in Seq(T), q # <<>>
    PROVE  /\ Head(q) \in T /\ Tail(q) \in Seq(T) /\ 1 \in DOMAIN q /\ Head(q) = q[1]
           /\ \A i \in DOMAIN Tail(q) : i \in Nat /\ i # 0 /\ i + 1 \in DOMAIN q /\ Tail(q)[i] = q[i + 1]
OBVIOUS

LEMMA AppendIs ==
    ASSUME NEW T, NEW q \in Seq(T), NEW e \in T
    PROVE  /\ Append(q, e) \in Seq(T) /\ Len(Append(q, e)) = Len(q) + 1
           /\ Append(q, e)[Len(q) + 1] = e
           /\ \A i \in 1 .. Len(q) : Append(q, e)[i] = q[i]
OBVIOUS

\* The sequence u is q with e after it.
Grown(u, q, e) ==
    \A i \in DOMAIN u : (i \in DOMAIN q /\ u[i] = q[i]) \/ (i = Len(q) + 1 /\ u[i] = e)

LEMMA AppendAt ==
    ASSUME NEW T, NEW q \in Seq(T), NEW e \in T
    PROVE  Grown(Append(q, e), q, e)
<1>. DEFINE l == Len(q)
            u == Append(q, e)
<1>1. DOMAIN u = 1 .. l + 1 /\ DOMAIN q = 1 .. l /\ l \in Nat
  BY AppendIs, SeqIs
<1>2. u[l + 1] = e /\ \A i \in 1 .. l : u[i] = q[i]
  BY AppendIs
<1>. HIDE DEF l, u
<1>3. \A i \in 1 .. l + 1 : i \in 1 .. l \/ i = l + 1
  BY <1>1
<1>4. \A i \in DOMAIN u : (i \in DOMAIN q /\ u[i] = q[i]) \/ (i = l + 1 /\ u[i] = e)
  BY Zenon, <1>1, <1>2, <1>3
<1>. QED  BY Zenon, <1>4 DEF Grown, l, u

Reply == [target : {TargetOf[k] : k \in Key}, ident : 0 .. IdentSpace - 1,
          request : 1 .. MaxRequests]

\* The types TypeOK leaves out.
Types ==
    /\ TypeOK
    /\ upstreamIsV4 \in BOOLEAN
    /\ chan \in [Session -> Seq(1 .. MaxRequests)]
    /\ replies \in [Session -> Seq(Reply)]
    /\ inflight \subseteq Reply
    /\ answered \in Seq([to : Key, request : 1 .. MaxRequests])

\* What makes NoDeadEntry inductive: an entry is that of its task's own key, so
\* that the task takes away its own entry and no other one.
EntryInv ==
    /\ hand # None => pc[hand.to] # "unused" /\ hand.request \in 1 .. Len(requests)
    /\ \A k \in Key : table[k] # None =>
          /\ key[table[k]] = k
          /\ pc[table[k]] # "unused"
          /\ upstreamIsV4 => pc[table[k]] \in {"starting", "loop", "closing"}

Inv == Types /\ EntryInv

LEMMA InitInv == Init => Inv
<1>. SUFFICES ASSUME Init PROVE Inv
  OBVIOUS
<1>1. (CHOOSE k \in Key : TRUE) \in Key
  BY IcmpAssumption
<1>. QED
  BY <1>1, IcmpAssumption DEF Init, Inv, Types, TypeOK, EntryInv

LEMMA FreshIsUnused ==
    ASSUME \E s \in Session : pc[s] = "unused"
    PROVE  Fresh \in Session /\ pc[Fresh] = "unused"
BY DEF Fresh

LEMMA FindSessionInv ==
    ASSUME Inv, NEW k \in Key, FindSession(k)
    PROVE  Inv'
<1>1. /\ requests' \in Seq(Key) /\ Len(requests') = Len(requests) + 1
      /\ Len(requests') \in 1 .. MaxRequests
  BY IcmpAssumption DEF FindSession, Inv, Types, TypeOK
<1>2. CASE table[k] # None
  <2>1. table[k] \in Session /\ pc[table[k]] # "unused"
    BY <1>2 DEF Inv, Types, TypeOK, EntryInv
  <2>2. /\ hand' = [request |-> Len(requests'), to |-> table[k]]
        /\ UNCHANGED <<table, pc, key>>
    BY <1>2 DEF FindSession
  <2>3. hand' \in [request : 1 .. MaxRequests, to : Session]
    BY Zenon, <1>1, <2>1, <2>2
  <2>4. Types'
    BY Zenon, <1>1, <2>2, <2>3 DEF FindSession, Inv, Types, TypeOK, Reply
  <2>5. EntryInv'
    BY <1>1, <2>1, <2>2 DEF FindSession, Inv, EntryInv
  <2>. QED  BY <2>4, <2>5 DEF Inv
<1>3. CASE table[k] = None
  <2>1. Fresh \in Session /\ pc[Fresh] = "unused"
    BY <1>3, FreshIsUnused DEF FindSession
  <2>2. /\ hand' = [request |-> Len(requests'), to |-> Fresh]
        /\ table' = [table EXCEPT ![k] = Fresh]
        /\ pc' = [pc EXCEPT ![Fresh] = "starting"]
        /\ key' = [key EXCEPT ![Fresh] = k]
    BY <1>3 DEF FindSession
  <2>. HIDE DEF Fresh
  <2>3. hand' \in [request : 1 .. MaxRequests, to : Session]
    BY <1>1, <2>1, <2>2
  <2>4. Types'
    BY Zenon, <1>1, <2>1, <2>2, <2>3 DEF FindSession, Inv, Types, TypeOK, Reply
  <2>5. ASSUME NEW l \in Key, table'[l] # None
        PROVE  /\ key'[table'[l]] = l
               /\ pc'[table'[l]] \in {"starting", "loop", "closing"} \/ table'[l] = table[l]
               /\ pc'[table'[l]] # "unused"
    BY <2>1, <2>2, <2>5 DEF Inv, Types, TypeOK, EntryInv
  <2>6. \A l \in Key : table'[l] # None /\ table'[l] = table[l] => pc'[table'[l]] = pc[table[l]]
    BY <2>1, <2>2 DEF Inv, Types, TypeOK, EntryInv
  <2>7. EntryInv'
    BY <1>1, <2>1, <2>2, <2>5, <2>6 DEF FindSession, Inv, Types, TypeOK, EntryInv
  <2>. QED  BY Zenon, <2>4, <2>7 DEF Inv
<1>. QED  BY <1>2, <1>3

LEMMA HandOverInv == Inv /\ HandOver => Inv'
<1>. SUFFICES ASSUME Inv, HandOver PROVE Inv'
  OBVIOUS
<1>1. /\ hand.to \in Session /\ hand.request \in 1 .. MaxRequests /\ pc[hand.to] # "unused"
      /\ requests[hand.request] \in Key /\ hand' = None
  BY SeqIs DEF HandOver, Inv, Types, TypeOK, EntryInv
<1>2. CASE pc[hand.to] = "done"
  <2>1. /\ table' = [table EXCEPT ![requests[hand.request]] = None]
        /\ UNCHANGED <<upstreamIsV4, pc, key, chan, ident, replies, nextIdent, requests, inflight,
                       answered>>
    BY <1>2 DEF HandOver
  <2>2. Types'
    BY Zenon, <1>1, <2>1 DEF Inv, Types, TypeOK, Reply
  <2>3. EntryInv'
    BY <1>1, <2>1 DEF Inv, Types, TypeOK, EntryInv
  <2>. QED  BY <2>2, <2>3 DEF Inv
<1>3. CASE pc[hand.to] # "done"
  <2>1. /\ chan' = [chan EXCEPT ![hand.to] = Append(chan[hand.to], hand.request)]
        /\ UNCHANGED <<upstreamIsV4, table, pc, key, ident, replies, nextIdent, requests, inflight,
                       answered>>
    BY <1>3 DEF HandOver
  <2>2. Append(chan[hand.to], hand.request) \in Seq(1 .. MaxRequests)
    BY <1>1 DEF Inv, Types
  <2>3. chan' \in [Session -> Seq(1 .. MaxRequests)]
    BY Zenon, <2>1, <2>2 DEF Inv, Types
  <2>4. \A s \in Session : pc[s] = "unused" => chan'[s] = chan[s]
    BY Zenon, <1>1, <2>1 DEF Inv, Types
  <2>5. Types'
    BY Zenon, <1>1, <2>1, <2>3, <2>4 DEF Inv, Types, TypeOK, Reply
  <2>6. EntryInv'
    BY <1>1, <2>1 DEF Inv, EntryInv
  <2>. QED  BY <2>5, <2>6 DEF Inv
<1>. QED  BY <1>2, <1>3

\* The identifier counter stays within its width.
LEMMA NextIdentType ==
    ASSUME NEW n \in 0 .. IdentSpace - 1
    PROVE  NextIdent(n) \in 0 .. IdentSpace - 1
BY IcmpAssumption DEF NextIdent

\* A step of a session that only moves it on within its life.
LEMMA MoveInv ==
    ASSUME Inv, NEW s \in Session, NEW at \in {"loop", "closing", "leaving", "done"},
           pc[s] # "unused", pc' = [pc EXCEPT ![s] = at],
           UNCHANGED <<upstreamIsV4, key, hand, requests>>,
           table' \in [Key -> Session \cup {None}],
           \A k \in Key : table'[k] # None =>
              /\ table'[k] = table[k]
              /\ upstreamIsV4 /\ table[k] = s => at \in {"loop", "closing"},
           chan' \in [Session -> Seq(1 .. MaxRequests)],
           replies' \in [Session -> Seq(Reply)],
           \A t \in Session \ {s} : chan'[t] = chan[t] /\ replies'[t] = replies[t],
           ident' \in [Session -> 0 .. IdentSpace - 1], nextIdent' \in 0 .. IdentSpace - 1,
           inflight' \subseteq Reply, answered' \in Seq([to : Key, request : 1 .. MaxRequests])
    PROVE  Inv'
<1>1. \A t \in Session : pc'[t] = "unused" => t # s /\ pc[t] = "unused"
  BY Zenon DEF Inv, Types, TypeOK
<1>2. Types'
  BY Zenon, <1>1 DEF Inv, Types, TypeOK, Reply
<1>3. \A k \in Key : table'[k] # None =>
          /\ table'[k] = table[k] /\ table[k] \in Session /\ key[table[k]] = k
          /\ pc'[table[k]] # "unused"
          /\ upstreamIsV4 => pc'[table[k]] \in {"starting", "loop", "closing"}
  <2>. SUFFICES ASSUME NEW k \in Key, table'[k] # None
                PROVE  /\ table'[k] = table[k] /\ table[k] \in Session /\ key[table[k]] = k
                       /\ pc'[table[k]] # "unused"
                       /\ upstreamIsV4 => pc'[table[k]] \in {"starting", "loop", "closing"}
    OBVIOUS
  <2>1. /\ table'[k] = table[k] /\ table[k] \in Session /\ key[table[k]] = k
        /\ pc[table[k]] # "unused"
        /\ upstreamIsV4 => pc[table[k]] \in {"starting", "loop", "closing"}
    BY DEF Inv, Types, TypeOK, EntryInv
  <2>2. pc'[table[k]] = IF table[k] = s THEN at ELSE pc[table[k]]
    BY <2>1 DEF Inv, Types, TypeOK
  <2>. QED  BY <2>1, <2>2
<1>4. hand # None => pc'[hand.to] # "unused" /\ hand.request \in 1 .. Len(requests)
  BY <1>1 DEF Inv, Types, TypeOK, EntryInv
<1>5. EntryInv'
  BY Zenon, <1>3, <1>4 DEF EntryInv
<1>. QED  BY <1>2, <1>5 DEF Inv

LEMMA SessionStepInv ==
    ASSUME Inv, NEW s \in Session, SessionStep(s)
    PROVE  Inv'
<1>1. CASE Refuse(s)
  BY Zenon, <1>1, MoveInv DEF Refuse, Goto, Inv, Types, TypeOK
<1>2. CASE Open(s)
  <2>1. nextIdent' \in 0 .. IdentSpace - 1 /\ ident' \in [Session -> 0 .. IdentSpace - 1]
    BY Zenon, <1>2, NextIdentType DEF Open, Inv, Types, TypeOK
  <2>2. PICK at \in {"loop", "closing"} : Goto(s, at)
    BY <1>2 DEF Open
  <2>. QED  BY Zenon, <1>2, <2>1, <2>2, MoveInv DEF Open, Goto, Inv, Types, TypeOK
<1>3. CASE Forward(s)
  <2>1. /\ Head(chan[s]) \in 1 .. MaxRequests /\ Tail(chan[s]) \in Seq(1 .. MaxRequests)
        /\ chan' = [chan EXCEPT ![s] = Tail(chan[s])]
    <3>1. chan[s] \in Seq(1 .. MaxRequests) /\ chan[s] # <<>>
      BY <1>3 DEF Forward, Inv, Types
    <3>2. Head(chan[s]) \in 1 .. MaxRequests /\ Tail(chan[s]) \in Seq(1 .. MaxRequests)
      BY Zenon, <3>1, TailIs
    <3>. QED  BY Zenon, <1>3, <3>2 DEF Forward
  <2>2. /\ chan' \in [Session -> Seq(1 .. MaxRequests)]
        /\ \A t \in Session \ {s} : chan'[t] = chan[t]
    BY <2>1 DEF Inv, Types
  <2>3. [target |-> TargetOf[key[s]], ident |-> ident[s], request |-> Head(chan[s])] \in Reply
    BY <2>1 DEF Reply, Inv, Types, TypeOK
  <2>4. inflight' \subseteq Reply
    BY <1>3, <2>3 DEF Forward, Inv, Types
  <2>5. PICK at \in {"loop", "closing"} : Goto(s, at)
    BY <1>3 DEF Forward, Goto, Inv, Types, TypeOK
  <2>. QED  BY Zenon, <1>3, <2>2, <2>4, <2>5, MoveInv DEF Forward, Goto, Inv, Types, TypeOK
<1>4. CASE Relay(s)
  <2>1. /\ Head(replies[s]) \in Reply /\ Tail(replies[s]) \in Seq(Reply)
        /\ replies' = [replies EXCEPT ![s] = Tail(replies[s])]
    <3>1. replies[s] \in Seq(Reply) /\ replies[s] # <<>>
      BY <1>4 DEF Relay, Inv, Types
    <3>2. Head(replies[s]) \in Reply /\ Tail(replies[s]) \in Seq(Reply)
      BY <3>1, TailIs
    <3>. QED  BY Zenon, <1>4, <3>2 DEF Relay
  <2>2. /\ replies' \in [Session -> Seq(Reply)]
        /\ \A t \in Session \ {s} : replies'[t] = replies[t]
    BY <2>1 DEF Inv, Types
  <2>3. [to |-> key[s], request |-> Head(replies[s]).request] \in [to : Key, request : 1 .. MaxRequests]
    BY <2>1 DEF Reply, Inv, Types, TypeOK
  <2>4. answered' \in Seq([to : Key, request : 1 .. MaxRequests])
    <3>. DEFINE A == [to : Key, request : 1 .. MaxRequests]
                a == [to |-> key[s], request |-> Head(replies[s]).request]
    <3>1. answered \in Seq(A) /\ a \in A
      BY Zenon, <2>3 DEF Inv, Types
    <3>2. answered' = answered \/ answered' = Append(answered, a)
      BY <1>4 DEF Relay
    <3>. HIDE DEF A, a
    <3>3. answered' \in Seq(A)
      BY <3>1, <3>2, AppendIs
    <3>. QED  BY <3>3 DEF A
  <2>5. PICK at \in {"loop", "closing"} : Goto(s, at)
    BY <1>4 DEF Relay, Goto, Inv, Types, TypeOK
  <2>. QED  BY Zenon, <1>4, <2>2, <2>4, <2>5, MoveInv DEF Relay, Goto, Inv, Types, TypeOK
<1>5. CASE LoopEnds(s)
  BY Zenon, <1>5, MoveInv DEF LoopEnds, Goto, Inv, Types, TypeOK
<1>6. CASE Remove(s)
  <2>1. /\ table' \in [Key -> Session \cup {None}]
        /\ \A k \in Key : table'[k] # None => table'[k] = table[k] /\ table[k] # s
    BY <1>6 DEF Remove, Inv, Types, TypeOK, EntryInv
  <2>. QED  BY Zenon, <1>6, <2>1, MoveInv DEF Remove, Goto, Inv, Types, TypeOK
<1>7. CASE Leave(s)
  <2>1. \A k \in Key : upstreamIsV4 => table[k] # s
    BY <1>7, IcmpAssumption DEF Leave, Inv, EntryInv
  <2>2. /\ chan' \in [Session -> Seq(1 .. MaxRequests)]
        /\ replies' \in [Session -> Seq(Reply)]
        /\ \A t \in Session \ {s} : chan'[t] = chan[t] /\ replies'[t] = replies[t]
    BY <1>7 DEF Leave, Inv, Types
  <2>. QED  BY Zenon, <1>7, <2>1, <2>2, MoveInv DEF Leave, Goto, Inv, Types, TypeOK
<1>. QED  BY <1>1, <1>2, <1>3, <1>4, <1>5, <1>6, <1>7 DEF SessionStep

LEMMA TargetRepliesInv == Inv /\ TargetReplies => Inv'
<1>. SUFFICES ASSUME Inv, TargetReplies PROVE Inv'
  OBVIOUS
<1>1. PICK r \in inflight :
          /\ inflight' = inflight \ {r}
          /\ replies' = [s \in Session |->
                          IF pc[s] = "loop" /\ TargetOf[key[s]] = r.target
                          THEN Append(replies[s], r) ELSE replies[s]]
  BY DEF TargetReplies
<1>2. \A s \in Session : Append(replies[s], r) \in Seq(Reply)
  BY DEF Inv, Types
<1>3. replies' \in [Session -> Seq(Reply)]
  BY <1>1, <1>2 DEF Inv, Types
<1>4. \A s \in Session : pc[s] = "unused" => replies'[s] = replies[s]
  BY <1>1
<1>5. inflight' \subseteq Reply
  BY <1>1 DEF Inv, Types
<1>6. UNCHANGED <<upstreamIsV4, table, pc, key, chan, ident, nextIdent, hand, requests, answered>>
  BY DEF TargetReplies
<1>. QED  BY Zenon, <1>3, <1>4, <1>5, <1>6 DEF Inv, Types, TypeOK, EntryInv, Reply

\* Types, and entries that belong to their tasks.
THEOREM Invariance == Spec => []Inv
<1>1. Inv /\ [Next]_vars => Inv'
  <2>. SUFFICES ASSUME Inv, [Next]_vars PROVE Inv'
    OBVIOUS
  <2>1. CASE UNCHANGED vars
    BY Zenon, <2>1 DEF Inv, Types, TypeOK, EntryInv, Reply, vars, tasks
  <2>. QED
    BY <2>1, FindSessionInv, HandOverInv, SessionStepInv, TargetRepliesInv DEF Next
<1>. QED  BY <1>1, InitInv, PTL DEF Spec

\* Every variable has its type.
THEOREM TypesHold == Spec => []TypeOK
<1>1. Inv => TypeOK
  BY DEF Inv, Types
<1>. QED  BY <1>1, Invariance, PTL

\* With an IPv4 upstream, or none, no key ever maps to a task that is gone.
THEOREM EntriesAlive == Spec => []NoDeadEntry
<1>1. Inv => NoDeadEntry
  BY DEF Inv, EntryInv, NoDeadEntry
<1>. QED  BY <1>1, Invariance, PTL

-----------------------------------------------------------------------------
\* The tasks between the increment and the decrement of active_icmp.
Counted == {s \in Session : pc[s] \in {"loop", "closing", "leaving"}}

ActiveInv == IsFiniteSet(Counted) /\ active = Cardinality(Counted)

\* Opening adds one task to the count, leaving takes one away, also when the
\* socket could not be opened; a task refused for its upstream is never counted.
LEMMA ActiveStep ==
    ASSUME Inv, ActiveInv, [Next]_vars
    PROVE  ActiveInv'
<1>1. ASSUME NEW s \in Session, Open(s)
      PROVE  ActiveInv'
  <2>1. s \notin Counted /\ Counted' = Counted \cup {s}
    BY <1>1 DEF Open, Goto, Counted, Inv, Types, TypeOK
  <2>2. active' = active + 1
    BY <1>1 DEF Open
  <2>. QED  BY <2>1, <2>2, FS_AddElement DEF ActiveInv
<1>2. ASSUME NEW s \in Session, Leave(s)
      PROVE  ActiveInv'
  <2>1. s \in Counted /\ Counted' = Counted \ {s}
    BY <1>2 DEF Leave, Goto, Counted, Inv, Types, TypeOK
  <2>2. active' = active - 1
    BY <1>2 DEF Leave
  <2>. QED  BY Zenon, <2>1, <2>2, FS_RemoveElement DEF ActiveInv
<1>3. ASSUME NEW k \in Key, FindSession(k)
      PROVE  ActiveInv'
  <2>1. Counted' = Counted
    <3>1. CASE UNCHANGED pc
      BY <3>1 DEF Counted
    <3>2. CASE (\E s \in Session : pc[s] = "unused") /\ pc' = [pc EXCEPT ![Fresh] = "starting"]
      BY <3>2, FreshIsUnused DEF Counted, Inv, Types, TypeOK
    <3>. QED  BY <1>3, <3>1, <3>2 DEF FindSession
  <2>. QED  BY <1>3, <2>1 DEF FindSession, ActiveInv
<1>4. ASSUME NEW s \in Session, Refuse(s) \/ Forward(s) \/ Relay(s) \/ LoopEnds(s) \/ Remove(s)
      PROVE  ActiveInv'
  <2>1. Counted' = Counted /\ active' = active
    BY Zenon, <1>4 DEF Refuse, Forward, Relay, LoopEnds, Remove, Goto, Counted, Inv, Types, TypeOK
  <2>. QED  BY Zenon, <2>1 DEF ActiveInv
<1>5. CASE HandOver \/ TargetReplies \/ UNCHANGED vars
  <2>1. UNCHANGED <<pc, active>>
    BY <1>5 DEF HandOver, TargetReplies, vars, tasks
  <2>. QED  BY <2>1 DEF ActiveInv, Counted
<1>. QED  BY <1>1, <1>2, <1>3, <1>4, <1>5 DEF Next, SessionStep

\* active_icmp is the number of tasks between their first and their last step.
THEOREM ActiveCounts == Spec => []ActiveIsExact
<1>1. Init => ActiveInv
  <2>1. Init => Counted = {} /\ active = 0
    BY Zenon DEF Init, Counted
  <2>. QED  BY <2>1, FS_EmptySet DEF ActiveInv
<1>2. Inv /\ ActiveInv /\ [Next]_vars => ActiveInv'
  BY ActiveStep
<1>3. ActiveInv => ActiveIsExact
  BY DEF ActiveInv, ActiveIsExact, Counted
<1>. QED  BY <1>1, <1>2, <1>3, Invariance, PTL DEF Spec

-----------------------------------------------------------------------------
(***************************************************************************)
(* Replies go home.  The identifiers are given out in order, modulo their  *)
(* number, so the tasks O that opened a socket have different ones while   *)
(* there are no more of them than identifiers.  A request is in one place  *)
(* at a time, with its own task, at the target or in the replies under     *)
(* that task's identifier, and is written to the TUN stack from there.     *)
(***************************************************************************)

\* The tasks that were spawned.
Spawned == {s \in Session : pc[s] # "unused"}

\* The tasks of O have got the first identifiers, one each while they last.
Numbered(O) ==
    /\ IsFiniteSet(O) /\ O \subseteq Spawned
    /\ \A s \in Session : pc[s] = "loop" => s \in O
    /\ \A s \in O : pc[s] # "starting"
    /\ nextIdent = (FirstIdent + Cardinality(O)) % IdentSpace
    /\ \A s \in O : \E i \in 0 .. Cardinality(O) - 1 : ident[s] = (FirstIdent + i) % IdentSpace
    /\ Cardinality(O) <= IdentSpace => \A s, t \in O : ident[s] = ident[t] => s = t

\* The request that was received under the number n has the key k.
Asked(n, k) == n \in 1 .. Len(requests) /\ requests[n] = k

\* The reply answers a request of the task of O whose identifier it has.
Owned(O, r) == \E s \in O : r.ident = ident[s] /\ Asked(r.request, key[s])

\* A request is with tasks of its own key on its way to the target and back.
HomeInv(O) ==
    /\ hand # None => Asked(hand.request, key[hand.to])
    /\ \A s \in Session : \A i \in DOMAIN chan[s] : Asked(chan[s][i], key[s])
    /\ \A r \in inflight : Owned(O, r)
    /\ \A s \in Session : \A i \in DOMAIN replies[s] : Owned(O, replies[s][i])
    /\ \A i \in DOMAIN answered :
          /\ answered[i].request \in 1 .. Len(requests)
          /\ Cardinality(O) <= IdentSpace => Asked(answered[i].request, answered[i].to)

\* The request n is still to be forwarded.
Waiting(n) ==
    \/ hand # None /\ hand.request = n
    \/ \E s \in Session : \E i \in DOMAIN chan[s] : chan[s][i] = n

\* A request waits in one place,
WaitInv ==
    /\ \A s \in Session : \A i \in DOMAIN chan[s] : hand # None => chan[s][i] # hand.request
    /\ \A s, t \in Session : \A i \in DOMAIN chan[s], j \in DOMAIN chan[t] :
          chan[s][i] = chan[t][j] => s = t /\ i = j

\* is forwarded once,
FlightInv ==
    /\ \A r \in inflight : ~Waiting(r.request)
    /\ \A r, q \in inflight : r.request = q.request => r = q

\* is answered by the target once, in each socket,
ReplyInv ==
    /\ \A s \in Session : \A i \in DOMAIN replies[s] :
          /\ ~Waiting(replies[s][i].request)
          /\ \A r \in inflight : replies[s][i].request # r.request
          /\ \A t \in Session : \A j \in DOMAIN replies[t] :
                replies[s][i].request = replies[t][j].request =>
                    replies[s][i] = replies[t][j] /\ (s = t => i = j)

\* and is relayed by one task, its own.
AnswerInv(O) ==
    /\ \A k \in DOMAIN answered :
          /\ ~Waiting(answered[k].request)
          /\ \A r \in inflight : answered[k].request # r.request
    /\ Cardinality(O) <= IdentSpace =>
          /\ \A k, l \in DOMAIN answered : answered[k].request = answered[l].request => k = l
          /\ \A s \in O : \A i \in DOMAIN replies[s] : replies[s][i].ident = ident[s] =>
                \A k \in DOMAIN answered : answered[k].request # replies[s][i].request

OnceInv(O) == WaitInv /\ FlightInv /\ ReplyInv /\ AnswerInv(O)

ReturnInv == \E O \in SUBSET Session : Numbered(O) /\ HomeInv(O) /\ OnceInv(O)

\* A step that leaves the requests or the replies as they are.
LEMMA WaitSame ==
    ASSUME WaitInv, chan' = chan, hand' = hand
    PROVE  WaitInv'
BY DEF WaitInv

LEMMA FlightSame ==
    ASSUME FlightInv, inflight' = inflight, \A n : Waiting(n)' <=> Waiting(n)
    PROVE  FlightInv'
BY Zenon DEF FlightInv

LEMMA FlightFewer ==
    ASSUME FlightInv, inflight' \subseteq inflight, \A n : Waiting(n)' <=> Waiting(n)
    PROVE  FlightInv'
BY DEF FlightInv

SameReply(s, i, t, j) == replies[s][i] = replies[t][j] /\ (s = t => i = j)

LEMMA OneReply ==
    ASSUME ReplyInv, NEW s \in Session, NEW t \in Session, NEW i \in DOMAIN replies[s],
           NEW j \in DOMAIN replies[t], replies[s][i].request = replies[t][j].request
    PROVE  SameReply(s, i, t, j)
BY DEF ReplyInv, SameReply

\* Whose request a reply answers.
LEMMA OwnedRequest == ASSUME NEW O, NEW r, Owned(O, r) PROVE r.request \in 1 .. Len(requests)
BY DEF Owned, Asked

LEMMA OwnedKey ==
    ASSUME NEW O, NEW r, Owned(O, r), Numbered(O), Cardinality(O) <= IdentSpace,
           NEW s \in O, r.ident = ident[s]
    PROVE  Asked(r.request, key[s])
BY Zenon DEF Owned, Numbered

LEMMA ReplySame ==
    ASSUME ReplyInv, replies' = replies, inflight' = inflight, \A n : Waiting(n)' <=> Waiting(n)
    PROVE  ReplyInv'
BY DEF ReplyInv

LEMMA AnswerSame ==
    ASSUME NEW O, AnswerInv(O), UNCHANGED <<answered, ident, replies, inflight>>,
           \A n : Waiting(n)' <=> Waiting(n)
    PROVE  AnswerInv(O)'
BY DEF AnswerInv

\* A task more does not change who was answered.
LEMMA AnswerOpen ==
    ASSUME NEW O, NEW P, AnswerInv(O), UNCHANGED <<answered, replies, inflight>>,
           \A n : Waiting(n)' <=> Waiting(n),
           Cardinality(P) <= IdentSpace => Cardinality(O) <= IdentSpace,
           \A t \in P : \A i \in DOMAIN replies[t] : \A k \in DOMAIN answered :
               Cardinality(P) <= IdentSpace /\ replies[t][i].ident = ident'[t] =>
                   answered[k].request # replies[t][i].request
    PROVE  AnswerInv(P)'
BY DEF AnswerInv

LEMMA OneFewer == \A m \in Nat : m + 1 <= IdentSpace => m <= IdentSpace
BY IcmpAssumption

LEMMA HandOnce ==
    ASSUME WaitInv, hand # None
    PROVE  \A t \in Session : \A i \in DOMAIN chan[t] : chan[t][i] # hand.request
BY Zenon DEF WaitInv

LEMMA WaitKept ==
    ASSUME WaitInv, chan' = chan, \A s \in Session : \A i \in DOMAIN chan'[s] : chan'[s][i] # hand'.request
    PROVE  WaitInv'
BY DEF WaitInv

LEMMA ReplyAt ==
    ASSUME ReplyInv, NEW s \in Session, NEW i \in DOMAIN replies[s]
    PROVE  ~Waiting(replies[s][i].request) /\ \A r \in inflight : r.request # replies[s][i].request
BY DEF ReplyInv

\* The replies stay, and none of their requests is waiting or in flight.
LEMMA ReplyKept ==
    ASSUME ReplyInv, replies' = replies,
           \A s \in Session : \A i \in DOMAIN replies[s] : ~Waiting(replies[s][i].request)',
           \A s \in Session : \A i \in DOMAIN replies[s] : \A r \in inflight' : replies[s][i].request # r.request
    PROVE  ReplyInv'
BY DEF ReplyInv

\* The same for the answers, against the replies that are left.
LEMMA AnswersLeft ==
    ASSUME NEW O, AnswerInv(O), UNCHANGED <<answered, ident>>, \A n : Waiting(n)' <=> Waiting(n),
           inflight' \subseteq inflight,
           \A s \in O : \A i \in DOMAIN replies'[s] : \A k \in DOMAIN answered :
               Cardinality(O) <= IdentSpace /\ replies'[s][i].ident = ident[s] =>
                   answered[k].request # replies'[s][i].request
    PROVE  AnswerInv(O)'
<1>1. answered' = answered /\ ident' = ident
  BY Zenon
<1>2. ASSUME NEW k \in DOMAIN answered', NEW m, m = answered'[k].request PROVE ~Waiting(m)'
  BY Zenon, <1>1, <1>2 DEF AnswerInv
<1>3. \A k \in DOMAIN answered' : ~Waiting(answered[k].request)'
  BY Zenon, <1>2
<1>4. \A k \in DOMAIN answered' : \A r \in inflight' : answered'[k].request # r.request
  BY Zenon, <1>1 DEF AnswerInv
<1>5. Cardinality(O) <= IdentSpace =>
          \A k, l \in DOMAIN answered' : answered'[k].request = answered'[l].request => k = l
  BY Zenon, <1>1 DEF AnswerInv
<1>. QED  BY <1>1, <1>3, <1>4, <1>5 DEF AnswerInv

LEMMA AnswerKept ==
    ASSUME NEW O, AnswerInv(O), UNCHANGED <<answered, ident>>,
           \A k \in DOMAIN answered : ~Waiting(answered[k].request)',
           \A k \in DOMAIN answered : \A r \in inflight' : answered[k].request # r.request,
           \A s \in O : \A i \in DOMAIN replies'[s] : \E j \in DOMAIN replies[s] : replies'[s][i] = replies[s][j]
    PROVE  AnswerInv(O)'
<1>1. ASSUME Cardinality(O) <= IdentSpace, NEW s \in O, NEW i \in DOMAIN replies'[s],
             replies'[s][i].ident = ident[s], NEW k \in DOMAIN answered
      PROVE  answered[k].request # replies'[s][i].request
  <2>1. PICK j \in DOMAIN replies[s] : replies'[s][i] = replies[s][j]
    BY <1>1
  <2>. QED  BY <1>1, <2>1 DEF AnswerInv
<1>2. answered' = answered /\ ident' = ident
  OBVIOUS
<1>3. /\ \A k \in DOMAIN answered' : ~Waiting(answered[k].request)'
      /\ \A k \in DOMAIN answered' : \A r \in inflight' : answered'[k].request # r.request
  BY Zenon, <1>2
<1>4. Cardinality(O) <= IdentSpace =>
          \A k, l \in DOMAIN answered' : answered'[k].request = answered'[l].request => k = l
  BY Zenon, <1>2 DEF AnswerInv
<1>. QED  BY <1>1, <1>2, <1>3, <1>4 DEF AnswerInv

-----------------------------------------------------------------------------
\* Identifiers.

LEMMA ModDiffers ==
    ASSUME NEW a \in Nat, NEW b \in Nat, a < b, b - a < IdentSpace
    PROVE  a % IdentSpace # b % IdentSpace
<1>. DEFINE m == IdentSpace
            q == a \div m
            r == b \div m
<1>1. /\ m \in Nat \ {0} /\ q \in Int /\ r \in Int
      /\ a = m * q + (a % m) /\ a % m \in Int
      /\ b = m * r + (b % m) /\ b % m \in Int
  BY IcmpAssumption
<1>2. SUFFICES ASSUME a % m = b % m PROVE FALSE
  OBVIOUS
<1>. HIDE DEF m, q, r
<1>3. b - a = m * (r - q)
  <2>1. b - a = m * r - m * q
    BY <1>1, <1>2
  <2>2. m * r - m * q = m * (r - q)
    BY <1>1
  <2>. QED  BY <2>1, <2>2
<1>4. CASE r - q >= 1
  <2>1. m * (r - q) >= m
    BY <1>1, <1>4
  <2>. QED  BY <1>1, <1>3, <2>1 DEF m
<1>5. CASE r - q <= 0
  <2>1. m * (r - q) <= 0
    BY <1>1, <1>5
  <2>. QED  BY <1>1, <1>3, <2>1
<1>. QED  BY <1>1, <1>4, <1>5

LEMMA ModIs ==
    ASSUME NEW a \in Nat, NEW q \in Int, NEW r \in 0 .. IdentSpace - 1, a = IdentSpace * q + r
    PROVE  a % IdentSpace = r
<1>. DEFINE m == IdentSpace
            p == a \div m
            t == a % m
<1>1. m \in Nat \ {0} /\ p \in Int /\ t \in 0 .. m - 1 /\ a = m * p + t
  BY IcmpAssumption
<1>2. a = m * q + r /\ r \in 0 .. m - 1
  OBVIOUS
<1>. HIDE DEF m, p, t
<1>3. t - r = m * (q - p)
  <2>1. t - r = m * q - m * p
    BY <1>1, <1>2
  <2>2. m * q - m * p = m * (q - p)
    BY <1>1
  <2>. QED  BY <2>1, <2>2
<1>4. q - p < 1
  <2>1. q - p >= 1 => m * (q - p) >= m
    BY <1>1
  <2>. QED  BY <1>1, <1>2, <1>3, <2>1
<1>5. q - p > -1
  <2>1. q - p <= -1 => m * (q - p) <= -m
    BY <1>1
  <2>. QED  BY <1>1, <1>2, <1>3, <2>1
<1>6. m * (q - p) = 0
  BY <1>1, <1>4, <1>5
<1>7. t = r
  BY <1>1, <1>2, <1>3, <1>6
<1>. QED  BY <1>7 DEF t, m

\* next_icmp_proxy_ident counts on modulo the number of identifiers.
LEMMA IdentCounts ==
    ASSUME NEW n \in Nat
    PROVE  NextIdent((FirstIdent + n) % IdentSpace) = (FirstIdent + (n + 1)) % IdentSpace
<1>. DEFINE m == IdentSpace
            x == FirstIdent + n
            q == x \div m
            r == x % m
<1>1. /\ m \in Nat \ {0} /\ x \in Nat /\ q \in Int /\ r \in 0 .. m - 1 /\ x = m * q + r
      /\ FirstIdent + (n + 1) = x + 1
  BY IcmpAssumption
<1>2. SUFFICES (r + 1) % m = (x + 1) % m
  BY <1>1 DEF NextIdent
<1>. HIDE DEF x, q, r
<1>3. CASE r + 1 < m
  <2>1. x + 1 = m * q + (r + 1) /\ r + 1 \in 0 .. m - 1 /\ x + 1 \in Nat
    BY <1>1, <1>3
  <2>2. (x + 1) % m = r + 1
    BY Zenon, <1>1, <2>1, ModIs
  <2>3. r + 1 = m * 0 + (r + 1) /\ r + 1 \in Nat
    BY <1>1
  <2>4. (r + 1) % m = r + 1
    BY <2>1, <2>3, ModIs
  <2>. QED  BY Zenon, <2>2, <2>4
<1>4. CASE r + 1 = m
  <2>1. m * (q + 1) = m * q + m
    BY <1>1
  <2>2. x + 1 = m * (q + 1) + 0 /\ 0 \in 0 .. m - 1 /\ x + 1 \in Nat /\ q + 1 \in Int
    BY <1>1, <1>4, <2>1
  <2>3. (x + 1) % m = 0
    BY Zenon, <2>2, ModIs
  <2>4. r + 1 = m * 1 + 0 /\ r + 1 \in Nat
    BY <1>1, <1>4
  <2>5. (r + 1) % m = 0
    BY <2>2, <2>4, ModIs
  <2>. QED  BY <2>3, <2>5
<1>. QED  BY <1>1, <1>3, <1>4

\* A step that opens no socket leaves the numbering as it is.
LEMMA NumberedKept ==
    ASSUME NEW O \in SUBSET Session, Numbered(O), UNCHANGED <<ident, nextIdent>>,
           \A s \in O : pc'[s] \notin {"unused", "starting"},
           \A s \in Session : pc'[s] = "loop" => pc[s] = "loop"
    PROVE  Numbered(O)'
BY DEF Numbered, Spawned

LEMMA NumberedOpen ==
    ASSUME Inv, NEW O \in SUBSET Session, Numbered(O), NEW s \in Session,
           pc[s] = "starting", pc' = [pc EXCEPT ![s] = "loop"],
           ident' = [ident EXCEPT ![s] = nextIdent], nextIdent' = NextIdent(nextIdent)
    PROVE  Numbered(O \cup {s})'
<1>. DEFINE P == O \cup {s}
            n == Cardinality(O)
<1>1. s \notin O /\ IsFiniteSet(O) /\ O \subseteq Session
  BY DEF Numbered
<1>2. IsFiniteSet(P) /\ Cardinality(P) = n + 1 /\ n \in Nat
  BY <1>1, FS_AddElement, FS_CardinalityType
<1>3. nextIdent = (FirstIdent + n) % IdentSpace
  BY DEF Numbered
<1>4. nextIdent' = (FirstIdent + Cardinality(P)) % IdentSpace
  BY Zenon, <1>2, <1>3, IdentCounts
<1>5. ident'[s] = nextIdent /\ \A t \in O : ident'[t] = ident[t]
  BY <1>1 DEF Inv, Types, TypeOK
<1>6. /\ P \subseteq Spawned' /\ \A t \in P : pc'[t] # "starting"
      /\ \A t \in Session : pc'[t] = "loop" => t \in P
  BY <1>1 DEF Numbered, Spawned, Inv, Types, TypeOK
<1>7. ASSUME NEW t \in O
      PROVE  \E i \in 0 .. n - 1 : ident'[t] = (FirstIdent + i) % IdentSpace
  BY <1>5 DEF Numbered
<1>. HIDE DEF P, n
<1>8. \A t \in P : \E i \in 0 .. Cardinality(P) - 1 : ident'[t] = (FirstIdent + i) % IdentSpace
  <2>1. \A t \in O : \E i \in 0 .. Cardinality(P) - 1 : ident'[t] = (FirstIdent + i) % IdentSpace
    <3>. TAKE t \in O
    <3>1. PICK i \in 0 .. n - 1 : ident'[t] = (FirstIdent + i) % IdentSpace
      BY Zenon, <1>7
    <3>2. i \in 0 .. Cardinality(P) - 1
      BY <1>2, <3>1
    <3>. QED  BY Zenon, <3>1, <3>2
  <2>2. n \in 0 .. Cardinality(P) - 1
    BY <1>2
  <2>3. ident'[s] = (FirstIdent + n) % IdentSpace
    BY Zenon, <1>3, <1>5
  <2>. QED  BY <2>1, <2>2, <2>3 DEF P
<1>9. ASSUME Cardinality(P) <= IdentSpace
      PROVE  \A t, u \in P : ident'[t] = ident'[u] => t = u
  <2>1. n <= IdentSpace /\ n + 1 <= IdentSpace
    BY <1>2, <1>9, IcmpAssumption
  <2>2. \A t, u \in O : ident'[t] = ident'[u] => t = u
    BY <1>5, <2>1 DEF Numbered, n
  <2>3. ASSUME NEW t \in O PROVE ident'[t] # ident'[s]
    <3>1. PICK i \in 0 .. n - 1 : ident'[t] = (FirstIdent + i) % IdentSpace
      BY Zenon, <1>7
    <3>2. /\ FirstIdent + i \in Nat /\ FirstIdent + n \in Nat
          /\ FirstIdent + i < FirstIdent + n /\ (FirstIdent + n) - (FirstIdent + i) < IdentSpace
      BY <1>2, <2>1, <3>1, IcmpAssumption
    <3>. QED  BY <1>3, <1>5, <3>1, <3>2, ModDiffers
  <2>. QED  BY <2>2, <2>3 DEF P
<1>. QED  BY Zenon, <1>2, <1>4, <1>6, <1>8, <1>9 DEF Numbered, P

-----------------------------------------------------------------------------
\* The places of requests.

\* In each of the sequences a[s] some elements at the front of b[s] are missing.
Shrunk(a, b) ==
    \E d \in [Session -> Nat] : \A s \in Session : \A i \in DOMAIN a[s] :
        i + d[s] \in DOMAIN b[s] /\ a[s][i] = b[s][i + d[s]]

LEMMA ShrunkSame == ASSUME NEW a, NEW T, a \in [Session -> Seq(T)] PROVE Shrunk(a, a)
<1>. DEFINE d == [s \in Session |-> 0]
<1>1. d \in [Session -> Nat] /\ \A s \in Session : d[s] = 0
  OBVIOUS
<1>. HIDE DEF d
<1>2. \A s \in Session : \A i \in DOMAIN a[s] : i + 0 = i
  BY SeqIs
<1>. QED  BY <1>1, <1>2 DEF Shrunk

\* The first element of one sequence is taken, or all of them.
LEMMA ShrunkBy ==
    ASSUME NEW T, NEW a, a \in [Session -> Seq(T)], NEW s \in Session, NEW q,
           q = <<>> \/ (a[s] # <<>> /\ q = Tail(a[s]))
    PROVE  /\ Shrunk([a EXCEPT ![s] = q], a)
           /\ q = Tail(a[s]) /\ a[s] # <<>> => \A i \in DOMAIN q : q[i] = a[s][i + 1]
<1>. DEFINE b == [a EXCEPT ![s] = q]
            d == [u \in Session |-> IF u = s THEN 1 ELSE 0]
<1>1. d \in [Session -> Nat] /\ d[s] = 1 /\ \A u \in Session \ {s} : d[u] = 0
  OBVIOUS
<1>2. b[s] = q /\ \A u \in Session \ {s} : b[u] = a[u]
  OBVIOUS
<1>3. \A u \in Session : a[u] \in Seq(T)
  BY Zenon
<1>4. \A u \in Session : \A i \in DOMAIN a[u] : i + 0 = i
  BY <1>3, SeqIs
<1>5. \A i \in DOMAIN q : i + 1 \in DOMAIN a[s] /\ q[i] = a[s][i + 1]
  <2>1. CASE q = <<>>
    BY <2>1
  <2>2. CASE a[s] # <<>> /\ q = Tail(a[s])
    BY <1>3, <2>2
  <2>. QED  BY <2>1, <2>2
<1>. HIDE DEF b, d
<1>6. \A u \in Session : \A i \in DOMAIN b[u] : i + d[u] \in DOMAIN a[u] /\ b[u][i] = a[u][i + d[u]]
  BY <1>1, <1>2, <1>4, <1>5
<1>7. Shrunk(b, a)
  BY Zenon, <1>1, <1>6 DEF Shrunk
<1>. QED  BY <1>5, <1>7 DEF b

\* What becomes of a request that is only dropped, or not touched.
LEMMA DropHome ==
    ASSUME NEW O \in SUBSET Session, HomeInv(O),
           Shrunk(chan', chan), Shrunk(replies', replies), hand' = hand \/ hand' = None,
           inflight' \subseteq inflight, UNCHANGED <<answered, key, requests, ident>>
    PROVE  HomeInv(O)'
<1>1. \A n, k : Asked(n, k)' <=> Asked(n, k)
  BY DEF Asked
<1>2. \A r : Owned(O, r)' <=> Owned(O, r)
  BY Zenon DEF Owned, Asked
<1>3. \A s \in Session : \A i \in DOMAIN chan'[s] : \E j \in DOMAIN chan[s] : chan'[s][i] = chan[s][j]
  BY Zenon DEF Shrunk
<1>4. \A s \in Session : \A i \in DOMAIN replies'[s] :
          \E j \in DOMAIN replies[s] : replies'[s][i] = replies[s][j]
  BY DEF Shrunk
<1>5. hand' # None => Asked(hand'.request, key[hand'.to])
  BY Zenon DEF HomeInv
<1>6. \A s \in Session : \A i \in DOMAIN chan'[s] : Asked(chan'[s][i], key[s])
  BY SMTT(30), <1>3 DEF HomeInv
<1>7. \A s \in Session : \A i \in DOMAIN replies'[s] : Owned(O, replies'[s][i])
  BY <1>4 DEF HomeInv
<1>. QED  BY <1>1, <1>2, <1>5, <1>6, <1>7 DEF HomeInv

LEMMA DropWaits ==
    ASSUME WaitInv, Shrunk(chan', chan), hand' = hand \/ hand' = None,
           \A s \in Session : \A i \in DOMAIN chan'[s] : i \in Nat
    PROVE  WaitInv' /\ \A n : Waiting(n)' => Waiting(n)
<1>1. PICK d \in [Session -> Nat] : \A s \in Session : \A i \in DOMAIN chan'[s] :
          i + d[s] \in DOMAIN chan[s] /\ chan'[s][i] = chan[s][i + d[s]]
  BY DEF Shrunk
<1>2. \A n : Waiting(n)' => Waiting(n)
  BY <1>1 DEF Waiting
<1>3. \A s \in Session : \A i \in DOMAIN chan'[s] : hand' # None => chan'[s][i] # hand'.request
  BY <1>1 DEF WaitInv
<1>4. ASSUME NEW s \in Session, NEW t \in Session, NEW i \in DOMAIN chan'[s],
             NEW j \in DOMAIN chan'[t], chan'[s][i] = chan'[t][j]
      PROVE  s = t /\ i = j
  <2>1. s = t /\ i + d[s] = j + d[t]
    BY <1>1, <1>4 DEF WaitInv
  <2>2. i \in Nat /\ j \in Nat /\ d[s] \in Nat
    BY Zenon, <1>1, <1>4
  <2>. QED  BY SMTT(30), <2>1, <2>2
<1>. QED  BY <1>2, <1>3, <1>4 DEF WaitInv

\* The replies that are left are as they were, once each.
LEMMA DropReplies ==
    ASSUME ReplyInv, Shrunk(replies', replies), \A n : Waiting(n)' => Waiting(n),
           inflight' \subseteq inflight,
           \A s \in Session : \A i \in DOMAIN replies'[s] : i \in Nat
    PROVE  ReplyInv'
<1>1. PICK d \in [Session -> Nat] : \A s \in Session : \A i \in DOMAIN replies'[s] :
          i + d[s] \in DOMAIN replies[s] /\ replies'[s][i] = replies[s][i + d[s]]
  BY DEF Shrunk
<1>2. ASSUME NEW s \in Session, NEW i \in DOMAIN replies'[s]
      PROVE  /\ ~Waiting(replies[s][i].request)'
             /\ \A r \in inflight' : replies'[s][i].request # r.request
  BY <1>1 DEF ReplyInv
<1>3. ASSUME NEW s \in Session, NEW t \in Session, NEW i \in DOMAIN replies'[s],
             NEW j \in DOMAIN replies'[t], replies'[s][i].request = replies'[t][j].request
      PROVE  replies'[s][i] = replies'[t][j] /\ (s = t => i = j)
  <2>1. replies'[s][i] = replies'[t][j] /\ (s = t => i + d[s] = j + d[t])
    BY <1>1, <1>3 DEF ReplyInv
  <2>2. i \in Nat /\ j \in Nat /\ d[s] \in Nat
    BY <1>1, <1>3
  <2>. QED  BY SMTT(30), <2>1, <2>2
<1>. QED  BY <1>2, <1>3 DEF ReplyInv

LEMMA DropAnswers ==
    ASSUME NEW O \in SUBSET Session, AnswerInv(O), Shrunk(replies', replies),
           \A n : Waiting(n)' => Waiting(n), inflight' \subseteq inflight,
           UNCHANGED <<answered, ident>>
    PROVE  AnswerInv(O)'
<1>1. \A s \in Session : \A i \in DOMAIN replies'[s] :
          \E j \in DOMAIN replies[s] : replies'[s][i] = replies[s][j]
  BY DEF Shrunk
<1>2. \A k \in DOMAIN answered :
          ~Waiting(answered[k].request)' /\ \A r \in inflight' : answered[k].request # r.request
  BY SMTT(30) DEF AnswerInv
<1>3. ASSUME Cardinality(O) <= IdentSpace, NEW s \in O, NEW i \in DOMAIN replies'[s],
             replies'[s][i].ident = ident[s], NEW k \in DOMAIN answered
      PROVE  answered[k].request # replies'[s][i].request
  BY <1>1, <1>3 DEF AnswerInv
<1>. QED  BY Zenon, <1>2, <1>3 DEF AnswerInv

LEMMA IndicesOf ==
    ASSUME NEW T, NEW a, a \in [Session -> Seq(T)]
    PROVE  \A s \in Session : \A i \in DOMAIN a[s] : i \in Nat
BY SeqIs

\* A step that drops requests and replies or leaves them alone.
LEMMA Drops ==
    ASSUME Inv, Inv', NEW O \in SUBSET Session, HomeInv(O), OnceInv(O),
           Shrunk(chan', chan), Shrunk(replies', replies), hand' = hand \/ hand' = None,
           inflight' \subseteq inflight, UNCHANGED <<answered, key, requests, ident>>
    PROVE  HomeInv(O)' /\ OnceInv(O)'
<1>1. /\ \A s \in Session : \A i \in DOMAIN chan'[s] : i \in Nat
      /\ \A s \in Session : \A i \in DOMAIN replies'[s] : i \in Nat
  BY Zenon, IndicesOf DEF Inv, Types
<1>2. WaitInv' /\ \A n : Waiting(n)' => Waiting(n)
  BY Zenon, <1>1, DropWaits DEF OnceInv
<1>3. FlightInv'
  BY Zenon, <1>2 DEF OnceInv, FlightInv
<1>4. ReplyInv'
  BY Zenon, <1>1, <1>2, DropReplies DEF OnceInv
<1>5. AnswerInv(O)'
  BY Zenon, <1>2, DropAnswers DEF OnceInv
<1>. QED  BY <1>2, <1>3, <1>4, <1>5, DropHome DEF OnceInv

\* A request is received.
LEMMA ReceiveHome ==
    ASSUME Inv, Inv', NEW O \in SUBSET Session, Numbered(O), HomeInv(O), OnceInv(O),
           NEW k \in Key, FindSession(k)
    PROVE  HomeInv(O)' /\ OnceInv(O)' /\ Numbered(O)'
<1>. DEFINE n == Len(requests)
<1>1. /\ n \in Nat /\ Len(requests') = n + 1 /\ requests'[n + 1] = k
      /\ \A i \in 1 .. n : requests'[i] = requests[i]
  <2>1. requests \in Seq(Key) /\ requests' = Append(requests, k)
    BY Zenon DEF FindSession, Inv, Types, TypeOK
  <2>. QED  BY <2>1, SeqIs, AppendIs
<1>2. /\ hand = None /\ hand'.request = n + 1
      /\ UNCHANGED <<chan, ident, replies, nextIdent, inflight, answered>>
  <2>1. /\ hand = None /\ \E t : hand' = [request |-> Len(requests'), to |-> t]
        /\ UNCHANGED <<chan, ident, replies, nextIdent, inflight, answered>>
    BY Zenon DEF FindSession
  <2>2. \A m, t : [request |-> m, to |-> t].request = m
    BY Zenon
  <2>. QED  BY Zenon, <1>1, <2>1, <2>2
<1>0. WaitInv /\ FlightInv /\ ReplyInv /\ AnswerInv(O)
  BY Zenon DEF OnceInv
<1>15. n + 1 \in 1 .. n + 1 /\ \A m \in 1 .. n : m \in 1 .. n + 1 /\ m # n + 1
  <2>. HIDE DEF n
  <2>. QED  BY <1>1
<1>3. /\ key'[hand'.to] = k
      /\ \A s \in Session : pc[s] # "unused" => key'[s] = key[s] /\ pc'[s] = pc[s]
      /\ \A s \in Session : pc'[s] = "loop" => pc[s] = "loop"
  <2>1. CASE table[k] # None /\ hand' = [request |-> Len(requests'), to |-> table[k]]
                /\ UNCHANGED <<table, pc, key>>
    BY Zenon, <2>1 DEF Inv, EntryInv
  <2>2. CASE /\ \E s \in Session : pc[s] = "unused"
             /\ pc' = [pc EXCEPT ![Fresh] = "starting"] /\ key' = [key EXCEPT ![Fresh] = k]
             /\ hand' = [request |-> Len(requests'), to |-> Fresh]
    <3>1. Fresh \in Session /\ pc[Fresh] = "unused"
      BY Zenon, <2>2, FreshIsUnused
    <3>. HIDE DEF Fresh
    <3>. QED  BY Zenon, <2>2, <3>1 DEF Inv, Types, TypeOK
  <2>. QED  BY Zenon, <2>1, <2>2 DEF FindSession
<1>4. \A m, l : Asked(m, l) => Asked(m, l)' /\ m \in 1 .. n
  BY <1>1 DEF Asked
<1>5. \A s \in Session : \A i \in DOMAIN chan[s] : pc[s] # "unused"
  BY SMTT(30) DEF Inv, Types, TypeOK
<1>6. \A r : Owned(O, r) => Owned(O, r)' /\ r.request \in 1 .. n
  <2>1. \A s \in O : key'[s] = key[s] /\ ident'[s] = ident[s]
    BY Zenon, <1>2, <1>3 DEF Numbered, Spawned
  <2>. QED  BY <1>4, <2>1 DEF Owned
<1>7. HomeInv(O)'
  <2>1. Asked(hand.request, key[hand.to])'
    BY Zenon, <1>1, <1>2, <1>3, <1>15 DEF Asked
  <2>2. \A s \in Session : \A i \in DOMAIN chan[s] : Asked(chan[s][i], key[s])' /\ key'[s] = key[s]
    BY Zenon, <1>2, <1>3, <1>4, <1>5 DEF HomeInv
  <2>3. \A i \in DOMAIN answered :
          /\ answered[i].request \in 1 .. Len(requests')
          /\ Cardinality(O) <= IdentSpace => Asked(answered[i].request, answered[i].to)'
    <3>1. \A i \in DOMAIN answered : answered[i].request \in 1 .. Len(requests')
      BY SMTT(30), <1>1, <1>15 DEF HomeInv
    <3>2. ASSUME NEW i \in DOMAIN answered, NEW m, NEW l, m = answered[i].request, l = answered[i].to,
                 Cardinality(O) <= IdentSpace
          PROVE  Asked(m, l)'
      BY <1>4, <3>2 DEF HomeInv
    <3>. QED  BY Zenon, <1>2, <3>1, <3>2
  <2>4. /\ \A s \in Session : \A i \in DOMAIN chan'[s] : Asked(chan[s][i], key[s])'
        /\ \A r \in inflight' : Owned(O, r)'
        /\ \A s \in Session : \A i \in DOMAIN replies'[s] : Owned(O, replies[s][i])'
    BY Zenon, <1>2, <1>6, <2>2 DEF HomeInv
  <2>. QED  BY Zenon, <2>1, <2>3, <2>4, <1>2 DEF HomeInv
<1>8. /\ \A s \in Session : \A i \in DOMAIN chan[s] : chan[s][i] \in 1 .. n
      /\ \A r \in inflight : r.request \in 1 .. n
      /\ \A s \in Session : \A i \in DOMAIN replies[s] : replies[s][i].request \in 1 .. n
      /\ \A i \in DOMAIN answered : answered[i].request \in 1 .. n
  BY Zenon, <1>4, <1>6 DEF HomeInv
<1>9. \A m \in 1 .. n : Waiting(m)' => Waiting(m)
  BY Zenon, <1>2, <1>15 DEF Waiting
<1>10. WaitInv'
  <2>1. \A s \in Session : \A i \in DOMAIN chan'[s] : chan'[s][i] # hand'.request
    <3>1. \A s \in Session : \A i \in DOMAIN chan[s] : chan[s][i] # n + 1
      BY Zenon, <1>8, <1>15
    <3>. QED  BY Zenon, <1>2, <3>1
  <2>2. chan' = chan
    BY Zenon, <1>2
  <2>. QED  BY Zenon, <1>0, <2>1, <2>2, WaitKept
<1>11. FlightInv'
  BY Zenon, <1>0, <1>2, <1>8, <1>9 DEF FlightInv
<1>12. ReplyInv'
  BY <1>0, <1>2, <1>8, <1>9 DEF ReplyInv
<1>13. AnswerInv(O)'
  <2>1. ASSUME NEW i \in DOMAIN answered, NEW m, m = answered[i].request PROVE ~Waiting(m)'
    <3>1. ~Waiting(answered[i].request)
      BY Zenon, <1>0 DEF AnswerInv
    <3>. QED  BY Zenon, <1>8, <1>9, <2>1, <3>1
  <2>2. \A i \in DOMAIN answered : \A r \in inflight' : answered[i].request # r.request
    BY Zenon, <1>0, <1>2 DEF AnswerInv
  <2>3. answered' = answered /\ ident' = ident /\ replies' = replies
    BY Zenon, <1>2
  <2>4. \A i \in DOMAIN answered : ~Waiting(answered[i].request)'
    BY Zenon, <2>1, <2>3
  <2>5. \A t \in O : \A i \in DOMAIN replies'[t] : \E j \in DOMAIN replies[t] : replies'[t][i] = replies[t][j]
    BY Zenon, <2>3
  <2>. QED  BY Zenon, <1>0, <2>2, <2>3, <2>4, <2>5, AnswerKept
<1>14. Numbered(O)'
  <2>1. \A s \in O : pc'[s] \notin {"unused", "starting"}
    BY Zenon, <1>3 DEF Numbered, Spawned
  <2>. QED  BY Zenon, <1>2, <1>3, <2>1, NumberedKept
<1>. QED  BY Zenon, <1>7, <1>10, <1>11, <1>12, <1>13, <1>14 DEF OnceInv

\* A request is handed to its session task, or dropped with it.
LEMMA HandOverHome ==
    ASSUME Inv, Inv', NEW O \in SUBSET Session, HomeInv(O), OnceInv(O), HandOver
    PROVE  HomeInv(O)' /\ OnceInv(O)'
<1>1. CASE pc[hand.to] = "done"
  <2>1. hand' = None /\ UNCHANGED <<chan, replies, inflight, answered, key, requests, ident>>
    BY <1>1 DEF HandOver
  <2>2. Shrunk(chan', chan) /\ Shrunk(replies', replies)
    BY Zenon, <2>1, ShrunkSame DEF Inv, Types
  <2>. QED  BY Zenon, <2>1, <2>2, Drops
<1>2. CASE pc[hand.to] # "done"
  <2>. DEFINE s == hand.to
              n == hand.request
              q == chan[s]
  <2>1. /\ s \in Session /\ n \in 1 .. MaxRequests /\ hand # None /\ hand' = None
        /\ chan' = [chan EXCEPT ![s] = Append(q, n)]
        /\ UNCHANGED <<replies, inflight, answered, key, requests, ident>>
    BY Zenon, <1>2 DEF HandOver, Inv, Types, TypeOK
  <2>2. q \in Seq(1 .. MaxRequests) /\ chan'[s] = Append(q, n)
        /\ \A t \in Session \ {s} : chan'[t] = chan[t]
    BY <2>1 DEF Inv, Types
  <2>. HIDE DEF s, n, q
  <2>3. /\ Len(q) \in Nat /\ DOMAIN q = 1 .. Len(q) /\ DOMAIN chan'[s] = 1 .. (Len(q) + 1)
        /\ chan'[s][Len(q) + 1] = n /\ \A i \in 1 .. Len(q) : chan'[s][i] = q[i]
    BY <2>1, <2>2, SeqIs, AppendIs
  <2>30. \A l \in Nat : /\ l + 1 \in 1 .. (l + 1)
                        /\ \A i \in 1 .. (l + 1) : i \in 1 .. l \/ i = l + 1
                        /\ \A i \in 1 .. l : i # l + 1 /\ i \in 1 .. (l + 1)
    OBVIOUS
  <2>4. /\ \A i \in DOMAIN chan'[s] : i \in DOMAIN q \/ i = Len(q) + 1
        /\ \A i \in DOMAIN q : i # Len(q) + 1 /\ chan'[s][i] = q[i] /\ i \in DOMAIN chan'[s]
    BY Zenon, <2>3, <2>30
  <2>5. Asked(n, key[s]) /\ \A t \in Session : \A i \in DOMAIN chan[t] : chan[t][i] # n
    <3>1. Asked(n, key[s])
      BY Zenon, <2>1 DEF HomeInv, s, n
    <3>2. WaitInv
      BY Zenon DEF OnceInv
    <3>. QED  BY Zenon, <2>1, <3>1, <3>2, HandOnce DEF n
  <2>6. \A m : Waiting(m)' <=> Waiting(m)
    <3>1. \A m : Waiting(m)' => Waiting(m)
      BY <2>1, <2>2, <2>3, <2>4 DEF Waiting, n, q
    <3>2. \A m : Waiting(m) => Waiting(m)'
      <4>1. Len(q) + 1 \in DOMAIN chan'[s]
        BY Zenon, <2>3, <2>30
      <4>2. s \in Session /\ chan'[s][Len(q) + 1] = hand.request
        BY Zenon, <2>1, <2>3 DEF n
      <4>3. \A t \in Session : \A i \in DOMAIN chan[t] : i \in DOMAIN chan'[t] /\ chan'[t][i] = chan[t][i]
        BY Zenon, <2>2, <2>4 DEF q
      <4>. QED  BY Zenon, <4>1, <4>2, <4>3 DEF Waiting
    <3>. QED  BY Zenon, <3>1, <3>2
  <2>7. \A m, k : Asked(m, k)' <=> Asked(m, k)
    BY <2>1 DEF Asked
  <2>8. \A r : Owned(O, r)' <=> Owned(O, r)
    BY Zenon, <2>1 DEF Owned, Asked
  <2>9. HomeInv(O)'
    <3>1. \A t \in Session : \A i \in DOMAIN chan'[t] : Asked(chan[t][i], key[t])'
      <4>1. ASSUME NEW t \in Session, NEW i \in DOMAIN chan'[t], NEW m, m = chan'[t][i]
            PROVE  Asked(m, key[t])
        BY Zenon, <2>2, <2>3, <2>4, <2>5, <4>1 DEF HomeInv, q
      <4>. QED  BY Zenon, <2>1, <2>7, <4>1
    <3>. QED  BY <2>1, <2>7, <2>8, <3>1 DEF HomeInv
  <2>10. WaitInv'
    <3>1. ASSUME NEW t \in Session, NEW u \in Session, NEW i \in DOMAIN chan'[t],
                 NEW j \in DOMAIN chan'[u], chan'[t][i] = chan'[u][j]
          PROVE  t = u /\ i = j
      <4>1. \A v \in Session : \A l \in DOMAIN chan'[v] :
                \/ l \in DOMAIN chan[v] /\ chan'[v][l] = chan[v][l]
                \/ v = s /\ l = Len(q) + 1 /\ chan'[v][l] = n
        BY Zenon, <2>2, <2>3, <2>4 DEF q
      <4>2. \A v, w \in Session : \A l \in DOMAIN chan[v], m \in DOMAIN chan[w] :
                chan[v][l] = chan[w][m] => v = w /\ l = m
        BY Zenon DEF OnceInv, WaitInv
      <4>. QED  BY <2>5, <3>1, <4>1, <4>2
    <3>. QED  BY Zenon, <2>1, <3>1 DEF WaitInv
  <2>11. FlightInv' /\ ReplyInv' /\ AnswerInv(O)'
    <3>1. FlightInv /\ ReplyInv /\ AnswerInv(O)
      BY Zenon DEF OnceInv
    <3>. QED  BY Zenon, <2>1, <2>6, <3>1, FlightSame, ReplySame, AnswerSame
  <2>. QED  BY Zenon, <2>9, <2>10, <2>11 DEF OnceInv
<1>. QED  BY <1>1, <1>2

\* forward_icmp_request sends the request under the task's identifier.
LEMMA ForwardHome ==
    ASSUME Inv, Inv', NEW O \in SUBSET Session, Numbered(O), HomeInv(O), OnceInv(O),
           NEW s \in Session, Forward(s), pc' = pc
    PROVE  HomeInv(O)' /\ OnceInv(O)'
<1>. DEFINE q == chan[s]
            n == Head(q)
            r == [target |-> TargetOf[key[s]], ident |-> ident[s], request |-> n]
<1>1. /\ q \in Seq(1 .. MaxRequests) /\ q # <<>> /\ chan' = [chan EXCEPT ![s] = Tail(q)]
      /\ pc[s] = "loop" /\ UNCHANGED <<hand, replies, answered, key, requests, ident>>
  BY Zenon DEF Forward, Inv, Types
<1>2. inflight' = inflight \cup {r}
  BY Zenon, <1>1 DEF Forward, Goto, Inv, Types, TypeOK
<1>3. r.ident = ident[s] /\ r.request = n /\ s \in O /\ 1 \in DOMAIN q /\ n = q[1]
  <2>1. r.ident = ident[s] /\ r.request = n
    BY Zenon
  <2>2. s \in O
    BY Zenon, <1>1 DEF Numbered
  <2>3. 1 \in DOMAIN q /\ n = q[1]
    <3>. HIDE DEF q
    <3>. QED  BY Zenon, <1>1, TailIs
  <2>. QED  BY Zenon, <2>1, <2>2, <2>3
<1>0. WaitInv /\ FlightInv /\ ReplyInv /\ AnswerInv(O)
  BY Zenon DEF OnceInv
<1>4. Shrunk(chan', chan) /\ \A i \in DOMAIN chan'[s] : chan'[s][i] = q[i + 1] /\ i + 1 \in DOMAIN q
  <2>1. Shrunk(chan', chan)
    BY Zenon, <1>1, ShrunkBy DEF Inv, Types
  <2>. QED  BY <1>1, <2>1 DEF Inv, Types
<1>. HIDE DEF n, r
<1>5. Asked(n, key[s]) /\ Waiting(n)
  BY Zenon, <1>3 DEF HomeInv, Waiting
<1>6. \A t \in Session \ {s} : chan'[t] = chan[t]
  BY <1>1 DEF Inv, Types
<1>10. \A i \in DOMAIN chan'[s] : i \in Nat /\ i # 0
  BY <1>1 DEF Inv, Types
<1>8. WaitInv' /\ \A m : Waiting(m)' => Waiting(m)
  <2>1. \A t \in Session : \A i \in DOMAIN chan'[t] : i \in Nat
    BY Zenon, IndicesOf DEF Inv, Types
  <2>. QED  BY Zenon, <1>1, <1>4, <2>1, DropWaits DEF OnceInv
<1>9. \A m : m = n => ~Waiting(m)'
  <2>1. hand # None => hand.request # n
    BY <1>0, <1>3 DEF WaitInv
  <2>2. \A t \in Session : \A i \in DOMAIN chan'[t] : chan'[t][i] # n
    <3>1. \A t \in Session : \A i \in DOMAIN chan[t] : chan[t][i] = n => t = s /\ i = 1
      BY <1>0, <1>3 DEF WaitInv
    <3>2. \A i \in DOMAIN chan'[s] : i + 1 # 1
      <4>1. \A i \in Nat : i # 0 => i + 1 # 1
        OBVIOUS
      <4>. QED  BY Zenon, <1>10, <4>1
    <3>3. ASSUME NEW i \in DOMAIN chan'[s], chan'[s][i] = n PROVE FALSE
      <4>1. i + 1 \in DOMAIN chan[s] /\ chan[s][i + 1] = n
        BY Zenon, <1>4, <3>3
      <4>. QED  BY Zenon, <3>1, <3>2, <4>1
    <3>4. ASSUME NEW t \in Session \ {s}, NEW i \in DOMAIN chan'[t], chan'[t][i] = n PROVE FALSE
      BY Zenon, <1>6, <3>1, <3>4
    <3>. QED  BY Zenon, <3>3, <3>4
  <2>. QED  BY Zenon, <1>1, <2>1, <2>2 DEF Waiting
<1>11. \A m : Asked(m, key[s])' <=> Asked(m, key[s])
  BY <1>1 DEF Asked
<1>12. \A t : Owned(O, t)' <=> Owned(O, t)
  BY <1>1 DEF Owned, Asked
<1>13. Owned(O, r)
  BY Zenon, <1>3, <1>5 DEF Owned
<1>14. HomeInv(O)'
  <2>1. \A t \in Session : \A i \in DOMAIN chan'[t] : \E j \in DOMAIN chan[t] : chan'[t][i] = chan[t][j]
    BY Zenon, <1>4 DEF Shrunk
  <2>2. \A t \in Session : \A i \in DOMAIN chan'[t] : Asked(chan'[t][i], key[t])
    BY Zenon, <2>1 DEF HomeInv
  <2>3. \A m, k : Asked(m, k)' <=> Asked(m, k)
    BY Zenon, <1>1 DEF Asked
  <2>4. \A t \in Session : \A i \in DOMAIN chan'[t] : Asked(chan[t][i], key[t])'
    BY Zenon, <1>1, <2>2, <2>3
  <2>5. \A t \in inflight' : Owned(O, t)'
    BY <1>2, <1>12, <1>13 DEF HomeInv
  <2>. QED  BY Zenon, <1>1, <1>12, <2>3, <2>4, <2>5 DEF HomeInv
<1>15. FlightInv'
  <2>1. \A t \in inflight : t.request # n
    BY <1>5 DEF OnceInv, FlightInv
  <2>2. \A t \in inflight' : ~Waiting(t.request)'
    <3>1. ASSUME NEW t \in inflight', NEW m, m = t.request PROVE ~Waiting(m)'
      BY Zenon, <1>2, <1>3, <1>8, <1>9, <3>1 DEF OnceInv, FlightInv
    <3>. QED  BY <3>1
  <2>3. \A t, u \in inflight' : t.request = u.request => t = u
    BY Zenon, <1>2, <1>3, <2>1 DEF OnceInv, FlightInv
  <2>. QED  BY <2>2, <2>3 DEF FlightInv
<1>16. ReplyInv'
  <2>1. \A t \in Session : \A i \in DOMAIN replies[t] : replies[t][i].request # n
    <3>. SUFFICES ASSUME NEW t \in Session, NEW i \in DOMAIN replies[t], replies[t][i].request = n
                  PROVE  FALSE
      BY Zenon
    <3>1. ~Waiting(replies[t][i].request)
      BY Zenon, <1>0 DEF ReplyInv
    <3>. QED  BY Zenon, <1>5, <3>1
  <2>2. \A t \in Session : \A i \in DOMAIN replies[t] : ~Waiting(replies[t][i].request)'
    <3>1. ASSUME NEW t \in Session, NEW i \in DOMAIN replies[t], NEW m, m = replies[t][i].request
          PROVE  ~Waiting(m)'
      <4>1. ~Waiting(replies[t][i].request)
        BY Zenon, <1>0 DEF ReplyInv
      <4>. QED  BY Zenon, <1>8, <3>1, <4>1
    <3>. QED  BY Zenon, <1>1, <3>1
  <2>3. \A t \in Session : \A i \in DOMAIN replies[t] : \A u \in inflight' : replies[t][i].request # u.request
    BY <1>0, <1>2, <1>3, <2>1 DEF ReplyInv
  <2>. QED  BY Zenon, <1>0, <1>1, <2>2, <2>3, ReplyKept
<1>17. AnswerInv(O)'
  <2>1. \A k \in DOMAIN answered : answered[k].request # n
    BY Zenon, <1>5 DEF OnceInv, AnswerInv
  <2>2. \A k \in DOMAIN answered : ~Waiting(answered[k].request)'
    <3>1. ASSUME NEW k \in DOMAIN answered, NEW m, m = answered[k].request PROVE ~Waiting(m)'
      <4>1. ~Waiting(answered[k].request)
        BY Zenon, <1>0 DEF AnswerInv
      <4>. QED  BY Zenon, <1>8, <3>1, <4>1
    <3>. QED  BY Zenon, <1>1, <3>1
  <2>3. \A k \in DOMAIN answered : \A u \in inflight' : answered[k].request # u.request
    BY Zenon, <1>0, <1>2, <1>3, <2>1 DEF AnswerInv
  <2>4. \A t \in O : \A i \in DOMAIN replies'[t] : \E j \in DOMAIN replies[t] : replies'[t][i] = replies[t][j]
    BY Zenon, <1>1
  <2>. QED  BY Zenon, <1>0, <1>1, <2>2, <2>3, <2>4, AnswerKept
<1>. QED  BY Zenon, <1>8, <1>14, <1>15, <1>16, <1>17 DEF OnceInv

\* The target answers one of the requests it was sent.
LEMMA TargetHome ==
    ASSUME Inv, Inv', NEW O \in SUBSET Session, HomeInv(O), OnceInv(O), TargetReplies
    PROVE  HomeInv(O)' /\ OnceInv(O)'
<1>1. PICK r \in inflight :
        /\ inflight' = inflight \ {r}
        /\ replies' = [s \in Session |->
                        IF pc[s] = "loop" /\ TargetOf[key[s]] = r.target
                        THEN Append(replies[s], r) ELSE replies[s]]
        /\ UNCHANGED <<key, chan, ident, hand, requests, answered>>
  BY Zenon DEF TargetReplies
<1>0. WaitInv /\ FlightInv /\ ReplyInv /\ AnswerInv(O)
  BY Zenon DEF OnceInv
<1>2. \A s \in Session : \A i \in DOMAIN replies'[s] :
        \/ i \in DOMAIN replies[s] /\ replies'[s][i] = replies[s][i]
        \/ i = Len(replies[s]) + 1 /\ replies'[s][i] = r
  <2>. TAKE s \in Session
  <2>1. PICK T : replies[s] \in Seq(T) /\ r \in T
    BY Zenon DEF Inv, Types
  <2>2. CASE replies'[s] = replies[s]
    BY Zenon, <2>2
  <2>3. CASE replies'[s] = Append(replies[s], r)
    <3>1. Grown(Append(replies[s], r), replies[s], r)
      BY Zenon, <2>1, AppendAt
    <3>. QED  BY Zenon, <2>3, <3>1 DEF Grown
  <2>. QED  BY <1>1, <2>2, <2>3
<1>3. \A n : Waiting(n)' <=> Waiting(n)
  BY Zenon, <1>1 DEF Waiting
<1>4. \A n, k : Asked(n, k)' <=> Asked(n, k)
  BY <1>1 DEF Asked
<1>5. \A t : Owned(O, t)' <=> Owned(O, t)
  BY Zenon, <1>1 DEF Owned, Asked
<1>6. /\ \A s \in Session : \A i \in DOMAIN replies[s] : replies[s][i].request # r.request
      /\ \A t \in inflight' : t.request # r.request
      /\ \A k \in DOMAIN answered : answered[k].request # r.request
      /\ ~Waiting(r.request) /\ Owned(O, r)
  <2>1. \A s \in Session : \A i \in DOMAIN replies[s] : replies[s][i].request # r.request
    BY <1>0 DEF ReplyInv
  <2>2. ~Waiting(r.request) /\ \A t \in inflight' : t.request # r.request
    BY Zenon, <1>0, <1>1 DEF FlightInv
  <2>3. \A k \in DOMAIN answered : answered[k].request # r.request
    BY Zenon, <1>0 DEF AnswerInv
  <2>4. Owned(O, r)
    BY Zenon DEF HomeInv
  <2>. QED  BY Zenon, <2>1, <2>2, <2>3, <2>4
<1>7. HomeInv(O)'
  <2>1. \A s \in Session : \A i \in DOMAIN replies'[s] : Owned(O, replies'[s][i])
    BY Zenon, <1>2, <1>6 DEF HomeInv
  <2>. QED  BY Zenon, <1>1, <1>4, <1>5, <2>1 DEF HomeInv
<1>8. WaitInv' /\ FlightInv'
  <2>1. chan' = chan /\ hand' = hand /\ inflight' \subseteq inflight
    BY Zenon, <1>1
  <2>. QED  BY Zenon, <1>0, <1>3, <2>1, WaitSame, FlightFewer
<1>9. ReplyInv'
  <2>1. \A s \in Session : \A i \in DOMAIN replies'[s] :
          ~Waiting(replies'[s][i].request) /\ \A t \in inflight' : replies'[s][i].request # t.request
    <3>. SUFFICES ASSUME NEW s \in Session, NEW i \in DOMAIN replies'[s]
                  PROVE  ~Waiting(replies'[s][i].request) /\ \A t \in inflight' : replies'[s][i].request # t.request
      BY Zenon
    <3>1. CASE i \in DOMAIN replies[s] /\ replies'[s][i] = replies[s][i]
      BY <1>0, <1>1, <3>1 DEF ReplyInv
    <3>2. CASE replies'[s][i] = r
      BY Zenon, <1>6, <3>2
    <3>. QED  BY Zenon, <1>2, <3>1, <3>2
  <2>2. ASSUME NEW s \in Session, NEW t \in Session, NEW i \in DOMAIN replies'[s],
               NEW j \in DOMAIN replies'[t], replies'[s][i].request = replies'[t][j].request
        PROVE  replies'[s][i] = replies'[t][j] /\ (s = t => i = j)
    <3>1. CASE i \in DOMAIN replies[s] /\ replies'[s][i] = replies[s][i]
      <4>1. CASE j \in DOMAIN replies[t] /\ replies'[t][j] = replies[t][j]
        <5>1. replies[s][i].request = replies[t][j].request
          BY Zenon, <2>2, <3>1, <4>1
        <5>2. SameReply(s, i, t, j)
          BY Zenon, <1>0, <3>1, <4>1, <5>1, OneReply
        <5>. QED  BY Zenon, <3>1, <4>1, <5>2 DEF SameReply
      <4>2. CASE replies'[t][j] = r
        BY Zenon, <1>6, <2>2, <3>1, <4>2
      <4>. QED  BY Zenon, <1>2, <4>1, <4>2
    <3>2. CASE i = Len(replies[s]) + 1 /\ replies'[s][i] = r
      <4>1. CASE j \in DOMAIN replies[t] /\ replies'[t][j] = replies[t][j]
        BY Zenon, <1>6, <2>2, <3>2, <4>1
      <4>2. CASE j = Len(replies[t]) + 1 /\ replies'[t][j] = r
        BY Zenon, <3>2, <4>2
      <4>. QED  BY Zenon, <1>2, <4>1, <4>2
    <3>. QED  BY Zenon, <1>2, <3>1, <3>2
  <2>3. ASSUME NEW s \in Session, NEW i \in DOMAIN replies'[s], NEW m, m = replies'[s][i].request
        PROVE  ~Waiting(m)'
    BY Zenon, <1>3, <2>1, <2>3
  <2>4. \A s \in Session : \A i \in DOMAIN replies'[s] : ~Waiting(replies[s][i].request)'
    BY Zenon, <2>3
  <2>. QED  BY <2>1, <2>2, <2>4 DEF ReplyInv
<1>10. AnswerInv(O)'
  <2>1. ASSUME Cardinality(O) <= IdentSpace, NEW s \in O, NEW i \in DOMAIN replies'[s],
               replies'[s][i].ident = ident[s], NEW k \in DOMAIN answered
        PROVE  answered[k].request # replies'[s][i].request
    <3>1. CASE i \in DOMAIN replies[s] /\ replies'[s][i] = replies[s][i]
      BY SMTT(30), <1>0, <2>1, <3>1 DEF AnswerInv
    <3>2. CASE replies'[s][i] = r
      BY Zenon, <1>6, <3>2
    <3>. QED  BY Zenon, <1>2, <3>1, <3>2
  <2>. QED  BY Zenon, <1>0, <1>1, <1>3, <2>1, AnswersLeft
<1>. QED  BY Zenon, <1>7, <1>8, <1>9, <1>10 DEF OnceInv

\* The task whose identifier the reply has writes it to the TUN stack.
LEMMA RelayHome ==
    ASSUME Inv, Inv', NEW O \in SUBSET Session, Numbered(O), HomeInv(O), OnceInv(O),
           NEW s \in Session, Relay(s), pc' = pc
    PROVE  HomeInv(O)' /\ OnceInv(O)'
<1>. DEFINE q == replies[s]
            r == Head(q)
            a == [to |-> key[s], request |-> r.request]
<1>1. /\ q # <<>> /\ replies' = [replies EXCEPT ![s] = Tail(q)] /\ pc[s] = "loop"
      /\ UNCHANGED <<chan, hand, inflight, key, requests, ident>>
  BY Zenon DEF Relay
<1>2. r.ident = ident[s] /\ answered' = Append(answered, a)
  BY Zenon, <1>1 DEF Relay, Goto, Inv, Types, TypeOK
<1>3. PICK T : replies \in [Session -> Seq(T)]
  BY DEF Inv, Types
<1>4. q \in Seq(T) /\ 1 \in DOMAIN q /\ r = q[1] /\ s \in O
  <2>1. q \in Seq(T) /\ s \in O
    BY Zenon, <1>1, <1>3 DEF Numbered
  <2>. HIDE DEF q
  <2>. QED  BY Zenon, <1>1, <2>1, TailIs
<1>0. WaitInv /\ FlightInv /\ ReplyInv /\ AnswerInv(O)
  BY Zenon DEF OnceInv
<1>5. Shrunk(replies', replies)
  BY Zenon, <1>1, <1>3, ShrunkBy
<1>6. /\ \A t \in Session \ {s} : replies'[t] = replies[t]
      /\ \A i \in DOMAIN replies'[s] : i \in Nat /\ i # 0 /\ i + 1 \in DOMAIN q /\ replies'[s][i] = q[i + 1]
  <2>1. replies'[s] = Tail(q) /\ \A t \in Session \ {s} : replies'[t] = replies[t]
    BY Zenon, <1>1, <1>3
  <2>. HIDE DEF q
  <2>. QED  BY <1>1, <1>4, <2>1, TailIs
<1>7. a.to = key[s] /\ a.request = r.request
  BY Zenon
<1>. HIDE DEF q, r, a
<1>8. /\ \A k \in DOMAIN answered' : k \in DOMAIN answered \/ k = Len(answered) + 1
      /\ \A k \in DOMAIN answered : answered'[k] = answered[k] /\ k # Len(answered) + 1
      /\ answered'[Len(answered) + 1] = a
  <2>. DEFINE l == Len(answered)
  <2>1. PICK U : answered \in Seq(U) /\ a \in U
    <3>1. PICK V : answered \in Seq(V)
      BY Zenon DEF Inv, Types
    <3>2. answered \in Seq(V \cup {a})
      BY <3>1
    <3>. QED  BY Zenon, <3>2
  <2>2. /\ l \in Nat /\ DOMAIN answered = 1 .. l /\ DOMAIN answered' = 1 .. (l + 1)
        /\ answered'[l + 1] = a /\ \A k \in 1 .. l : answered'[k] = answered[k]
    BY <1>2, <2>1, SeqIs, AppendIs
  <2>3. \A m \in Nat : /\ \A k \in 1 .. (m + 1) : k \in 1 .. m \/ k = m + 1
                       /\ \A k \in 1 .. m : k # m + 1
    BY SMTT(30)
  <2>. QED  BY Zenon, <2>2, <2>3
<1>9. \A n : Waiting(n)' <=> Waiting(n)
  BY <1>1 DEF Waiting
<1>10. \A n, k : Asked(n, k)' <=> Asked(n, k)
  BY Zenon, <1>1 DEF Asked
<1>11. \A t : Owned(O, t)' <=> Owned(O, t)
  BY Zenon, <1>1 DEF Owned, Asked
<1>12. /\ ~Waiting(r.request) /\ \A t \in inflight : t.request # r.request
       /\ Owned(O, r)
  <2>1. 1 \in DOMAIN replies[s] /\ replies[s][1] = r
    BY Zenon, <1>4 DEF q
  <2>2. ~Waiting(replies[s][1].request) /\ \A t \in inflight : t.request # replies[s][1].request
    BY Zenon, <1>0, <2>1, ReplyAt
  <2>3. Owned(O, replies[s][1])
    BY Zenon, <2>1 DEF HomeInv
  <2>. QED  BY Zenon, <2>1, <2>2, <2>3
<1>13. r.request \in 1 .. Len(requests)
  BY Zenon, <1>12, OwnedRequest
<1>14. Cardinality(O) <= IdentSpace => Asked(r.request, key[s])
  BY Zenon, <1>2, <1>4, <1>12, OwnedKey
<1>15. HomeInv(O)'
  <2>1. \A t \in Session : \A i \in DOMAIN replies'[t] : \E j \in DOMAIN replies[t] : replies'[t][i] = replies[t][j]
    BY Zenon, <1>5 DEF Shrunk
  <2>2. \A t \in Session : \A i \in DOMAIN replies'[t] : Owned(O, replies'[t][i])
    BY Zenon, <2>1 DEF HomeInv
  <2>3. ASSUME NEW k \in DOMAIN answered'
        PROVE  /\ answered'[k].request \in 1 .. Len(requests)
               /\ Cardinality(O) <= IdentSpace => Asked(answered'[k].request, answered'[k].to)
    BY Zenon, <1>7, <1>8, <1>13, <1>14 DEF HomeInv
  <2>. QED  BY Zenon, <1>1, <1>10, <1>11, <2>2, <2>3 DEF HomeInv
<1>16. WaitInv' /\ FlightInv'
  BY Zenon, <1>0, <1>1, <1>9, WaitSame, FlightSame
<1>17. ReplyInv'
  <2>1. \A t \in Session : \A i \in DOMAIN replies'[t] : i \in Nat
    BY Zenon, IndicesOf DEF Inv, Types
  <2>. QED  BY <1>1, <1>5, <1>9, <2>1, DropReplies DEF OnceInv
<1>18. \A t \in O : \A i \in DOMAIN replies'[t] : replies'[t][i].ident = ident[t] /\ Cardinality(O) <= IdentSpace =>
            replies'[t][i].request # r.request
  <2>1. SUFFICES ASSUME Cardinality(O) <= IdentSpace, NEW t \in O, NEW i \in DOMAIN replies'[t],
                        replies'[t][i].ident = ident[t], replies'[t][i].request = r.request
                 PROVE  FALSE
    BY Zenon
  <2>2. CASE t = s
    <3>1. i + 1 \in DOMAIN q /\ q[i + 1].request = q[1].request /\ i + 1 # 1
      <4>1. \A j \in Nat : j # 0 => j + 1 # 1
        OBVIOUS
      <4>. QED  BY Zenon, <1>4, <1>6, <2>1, <2>2, <4>1
    <3>. QED  BY <1>0, <1>4, <3>1 DEF ReplyInv, q
  <2>3. CASE t # s
    <3>1. i \in DOMAIN replies[t] /\ replies[t][i] = r
      <4>1. i \in DOMAIN replies[t] /\ replies[t][i].request = replies[s][1].request
        BY Zenon, <1>4, <1>6, <2>1, <2>3 DEF q
      <4>. QED  BY <1>0, <1>4, <4>1 DEF ReplyInv, q
    <3>2. ident[t] = ident[s]
      BY Zenon, <1>2, <1>6, <2>1, <2>3, <3>1
    <3>. QED  BY Zenon, <1>4, <2>1, <2>3, <3>2 DEF Numbered
  <2>. QED  BY <2>2, <2>3
<1>19. AnswerInv(O)'
  <2>1. \A k \in DOMAIN answered' : ~Waiting(answered'[k].request)
            /\ \A t \in inflight : answered'[k].request # t.request
    <3>. TAKE k \in DOMAIN answered'
    <3>1. CASE k \in DOMAIN answered
      BY Zenon, <1>0, <1>8, <3>1 DEF AnswerInv
    <3>2. CASE answered'[k] = a
      BY Zenon, <1>7, <1>12, <3>2
    <3>. QED  BY Zenon, <1>8, <3>1, <3>2
  <2>2. ASSUME Cardinality(O) <= IdentSpace
        PROVE  \A k \in DOMAIN answered : answered[k].request # r.request
    BY Zenon, <1>2, <1>4, <2>2 DEF OnceInv, AnswerInv, q
  <2>3. ASSUME Cardinality(O) <= IdentSpace, NEW k \in DOMAIN answered', NEW l \in DOMAIN answered',
               answered'[k].request = answered'[l].request
        PROVE  k = l
    BY Zenon, <1>7, <1>8, <2>2, <2>3 DEF OnceInv, AnswerInv
  <2>4. ASSUME Cardinality(O) <= IdentSpace, NEW t \in O, NEW i \in DOMAIN replies'[t],
               replies'[t][i].ident = ident[t], NEW k \in DOMAIN answered'
        PROVE  answered'[k].request # replies'[t][i].request
    <3>1. \E j \in DOMAIN replies[t] : replies'[t][i] = replies[t][j]
      BY Zenon, <1>5, <2>4 DEF Shrunk
    <3>2. CASE k \in DOMAIN answered
      <4>1. PICK j \in DOMAIN replies[t] : replies'[t][i] = replies[t][j]
        BY Zenon, <3>1
      <4>2. replies[t][j].ident = ident[t]
        BY Zenon, <2>4, <4>1
      <4>3. answered[k].request # replies[t][j].request
        BY Zenon, <1>0, <2>4, <3>2, <4>2 DEF AnswerInv
      <4>. QED  BY Zenon, <1>8, <3>2, <4>1, <4>3
    <3>3. CASE answered'[k] = a
      BY Zenon, <1>7, <1>18, <2>4, <3>3
    <3>. QED  BY Zenon, <1>8, <3>2, <3>3
  <2>5. ASSUME NEW k \in DOMAIN answered', NEW m, m = answered'[k].request
        PROVE  ~Waiting(m)'
    BY Zenon, <1>9, <2>1, <2>5
  <2>6. \A k \in DOMAIN answered' : ~Waiting(answered[k].request)'
    BY Zenon, <2>5
  <2>7. /\ \A k \in DOMAIN answered' : \A t \in inflight' : answered'[k].request # t.request
        /\ ident' = ident
    BY Zenon, <1>1, <2>1
  <2>. QED  BY Zenon, <2>3, <2>4, <2>6, <2>7 DEF AnswerInv
<1>. QED  BY Zenon, <1>15, <1>16, <1>17, <1>19 DEF OnceInv

\* The socket of a task opens, under an identifier no earlier task was given.
LEMMA OpenHome ==
    ASSUME Inv, NEW O \in SUBSET Session, NEW s \in Session, Numbered(O), Numbered(O \cup {s})',
           HomeInv(O), OnceInv(O), pc[s] = "starting", ident' = [ident EXCEPT ![s] = nextIdent],
           UNCHANGED <<key, chan, replies, hand, requests, inflight, answered>>
    PROVE  HomeInv(O \cup {s})' /\ OnceInv(O \cup {s})'
<1>. DEFINE P == O \cup {s}
<1>1. /\ s \notin O /\ IsFiniteSet(O) /\ IsFiniteSet(P)
      /\ \A t \in O : ident'[t] = ident[t]
  <2>1. IsFiniteSet(O) /\ s \notin O
    BY Zenon DEF Numbered, Spawned
  <2>2. \A t \in O : ident'[t] = ident[t]
    BY Zenon, <2>1 DEF Inv, Types, TypeOK
  <2>. QED  BY Zenon, <2>1, <2>2, FS_AddElement
<1>0. WaitInv /\ FlightInv /\ ReplyInv /\ AnswerInv(O)
  BY Zenon DEF OnceInv
<1>2. Cardinality(P) <= IdentSpace => Cardinality(O) <= IdentSpace
  <2>1. Cardinality(P) = Cardinality(O) + 1 /\ Cardinality(O) \in Nat
    BY Zenon, <1>1, FS_AddElement, FS_CardinalityType
  <2>. QED  BY Zenon, <2>1, OneFewer
<1>3. Cardinality(P) <= IdentSpace => \A t \in O : ident'[s] # ident'[t]
  BY Zenon, <1>1 DEF Numbered
<1>. HIDE DEF P
<1>4. \A n, k : Asked(n, k)' <=> Asked(n, k)
  BY DEF Asked
<1>5. \A r : Owned(O, r) => Owned(P, r)'
  BY Zenon, <1>1, <1>4 DEF Owned, P
<1>6. \A n : Waiting(n)' <=> Waiting(n)
  BY Zenon DEF Waiting
<1>7. HomeInv(P)'
  BY Zenon, <1>2, <1>4, <1>5 DEF HomeInv
<1>8. WaitInv' /\ FlightInv' /\ ReplyInv'
  BY Zenon, <1>0, <1>6, WaitSame, FlightSame, ReplySame
<1>9. ASSUME Cardinality(P) <= IdentSpace, NEW t \in P, NEW i \in DOMAIN replies[t],
             replies[t][i].ident = ident'[t], NEW k \in DOMAIN answered
      PROVE  answered[k].request # replies[t][i].request
  <2>1. CASE t = s
    <3>1. PICK u \in O : replies[t][i].ident = ident[u]
      BY Zenon, <1>9, <2>1 DEF HomeInv, Owned
    <3>. QED  BY Zenon, <1>1, <1>3, <1>9, <2>1, <3>1
  <2>2. CASE t \in O
    <3>1. replies[t][i].ident = ident[t]
      BY Zenon, <1>1, <1>9, <2>2
    <3>. QED  BY Zenon, <1>0, <1>2, <1>9, <2>2, <3>1 DEF AnswerInv
  <2>. QED  BY Zenon, <2>1, <2>2 DEF P
<1>10. AnswerInv(P)'
  BY Zenon, <1>0, <1>2, <1>6, <1>9, AnswerOpen
<1>. QED  BY Zenon, <1>7, <1>8, <1>10 DEF OnceInv, P

\* Every step keeps the numbering or extends it, and the requests with it.
LEMMA ReturnNext ==
    ASSUME Inv, Inv', ReturnInv, [Next]_vars
    PROVE  ReturnInv'
<1>1. PICK O \in SUBSET Session : Numbered(O) /\ HomeInv(O) /\ OnceInv(O)
  BY DEF ReturnInv
<1>2. PICK T : replies \in [Session -> Seq(T)]
  BY DEF Inv, Types
<1>3. chan \in [Session -> Seq(1 .. MaxRequests)]
  BY DEF Inv, Types
<1>4. Shrunk(chan, chan) /\ Shrunk(replies, replies)
  BY Zenon, <1>2, <1>3, ShrunkSame
<1>5. \A s \in O : pc[s] \notin {"unused", "starting"}
  BY <1>1 DEF Numbered, Spawned
<1>6. \A s \in Session : pc' = [pc EXCEPT ![s] = "closing"] \/ pc' = [pc EXCEPT ![s] = "leaving"]
                            \/ pc' = [pc EXCEPT ![s] = "done"] =>
        /\ \A t \in O : pc'[t] \notin {"unused", "starting"}
        /\ \A t \in Session : pc'[t] = "loop" => pc[t] = "loop"
  BY Zenon, <1>5 DEF Inv, Types, TypeOK
<1>7. ASSUME NEW k \in Key, FindSession(k) PROVE ReturnInv'
  BY <1>1, <1>7, ReceiveHome DEF ReturnInv
<1>8. ASSUME HandOver PROVE ReturnInv'
  <2>1. UNCHANGED <<pc, ident, nextIdent>>
    BY <1>8 DEF HandOver
  <2>2. Numbered(O)'
    BY Zenon, <1>1, <1>5, <2>1, NumberedKept
  <2>. QED  BY Zenon, <1>1, <1>8, <2>2, HandOverHome DEF ReturnInv
<1>9. ASSUME TargetReplies PROVE ReturnInv'
  <2>1. UNCHANGED <<pc, ident, nextIdent>>
    BY Zenon, <1>9 DEF TargetReplies
  <2>2. Numbered(O)'
    BY <1>1, <1>5, <2>1, NumberedKept
  <2>. QED  BY <1>1, <1>9, <2>2, TargetHome DEF ReturnInv
<1>10. ASSUME NEW s \in Session, Refuse(s) \/ LoopEnds(s) \/ Remove(s)
       PROVE  ReturnInv'
  <2>1. UNCHANGED <<key, chan, ident, replies, nextIdent, hand, requests, inflight, answered>>
    BY Zenon, <1>10 DEF Refuse, LoopEnds, Remove
  <2>2. Numbered(O)'
    <3>1. pc' = [pc EXCEPT ![s] = "closing"] \/ pc' = [pc EXCEPT ![s] = "leaving"]
             \/ pc' = [pc EXCEPT ![s] = "done"]
      BY Zenon, <1>10 DEF Refuse, LoopEnds, Remove, Goto
    <3>. QED  BY Zenon, <1>1, <1>6, <2>1, <3>1, NumberedKept
  <2>3. HomeInv(O)' /\ OnceInv(O)'
    <3>1. Shrunk(chan', chan) /\ Shrunk(replies', replies)
      BY Zenon, <1>4, <2>1
    <3>. QED  BY <1>1, <2>1, <3>1, Drops
  <2>. QED  BY Zenon, <2>2, <2>3 DEF ReturnInv
<1>11. ASSUME NEW s \in Session, Open(s) PROVE ReturnInv'
  <2>1. UNCHANGED <<key, chan, replies, hand, requests, inflight, answered>> /\ pc[s] = "starting"
    BY <1>11 DEF Open
  <2>2. CASE Goto(s, "closing") /\ UNCHANGED <<ident, nextIdent>>
    <3>1. Shrunk(chan', chan) /\ Shrunk(replies', replies)
      BY <1>4, <2>1
    <3>2. HomeInv(O)' /\ OnceInv(O)'
      BY Zenon, <1>1, <2>1, <2>2, <3>1, Drops
    <3>3. Numbered(O)'
      BY Zenon, <1>1, <1>6, <2>2, NumberedKept DEF Goto
    <3>. QED  BY Zenon, <3>2, <3>3 DEF ReturnInv
  <2>3. CASE /\ Goto(s, "loop") /\ ident' = [ident EXCEPT ![s] = nextIdent]
             /\ nextIdent' = NextIdent(nextIdent)
    <3>1. Numbered(O \cup {s})'
      BY Zenon, <1>1, <2>1, <2>3, NumberedOpen DEF Goto
    <3>2. HomeInv(O \cup {s})' /\ OnceInv(O \cup {s})'
      BY Zenon, <1>1, <2>1, <2>3, <3>1, OpenHome
    <3>. QED  BY Zenon, <3>1, <3>2 DEF ReturnInv
  <2>. QED  BY SMTT(30), <1>11, <2>2, <2>3 DEF Open
<1>12. ASSUME NEW s \in Session, Leave(s) PROVE ReturnInv'
  <2>1. /\ chan' = [chan EXCEPT ![s] = <<>>] /\ replies' = [replies EXCEPT ![s] = <<>>]
        /\ UNCHANGED <<key, ident, nextIdent, hand, requests, inflight, answered>>
    BY <1>12 DEF Leave
  <2>2. Shrunk(chan', chan) /\ Shrunk(replies', replies)
    BY Zenon, <1>2, <1>3, <2>1, ShrunkBy
  <2>3. Numbered(O)'
    BY Zenon, <1>1, <1>6, <1>12, <2>1, NumberedKept DEF Leave, Goto
  <2>4. HomeInv(O)' /\ OnceInv(O)'
    BY Zenon, <1>1, <2>1, <2>2, Drops
  <2>. QED  BY <2>3, <2>4 DEF ReturnInv
<1>13. ASSUME NEW s \in Session, Forward(s) PROVE ReturnInv'
  <2>1. /\ chan' = [chan EXCEPT ![s] = Tail(chan[s])] /\ chan[s] # <<>>
        /\ UNCHANGED <<key, ident, nextIdent, replies, hand, requests, answered>>
    BY Zenon, <1>13 DEF Forward
  <2>2. CASE pc' = pc
    <3>1. Numbered(O)'
      BY <1>1, <1>5, <2>1, <2>2, NumberedKept
    <3>. QED  BY Zenon, <1>1, <1>13, <2>2, <3>1, ForwardHome DEF ReturnInv
  <2>3. CASE Goto(s, "closing") /\ UNCHANGED inflight
    <3>1. Shrunk(chan', chan)
      BY Zenon, <1>3, <2>1, ShrunkBy
    <3>2. HomeInv(O)' /\ OnceInv(O)'
      <4>1. Shrunk(replies', replies)
        BY <1>4, <2>1
      <4>. QED  BY Zenon, <1>1, <2>1, <2>3, <3>1, <4>1, Drops
    <3>3. Numbered(O)'
      BY Zenon, <1>1, <1>6, <2>1, <2>3, NumberedKept DEF Goto
    <3>. QED  BY Zenon, <3>2, <3>3 DEF ReturnInv
  <2>. QED  BY Zenon, <1>13, <2>2, <2>3 DEF Forward
<1>14. ASSUME NEW s \in Session, Relay(s) PROVE ReturnInv'
  <2>1. /\ replies' = [replies EXCEPT ![s] = Tail(replies[s])] /\ replies[s] # <<>>
        /\ UNCHANGED <<key, ident, nextIdent, chan, hand, requests, inflight>>
    BY Zenon, <1>14 DEF Relay
  <2>2. CASE pc' = pc
    <3>1. Numbered(O)'
      BY <1>1, <1>5, <2>1, <2>2, NumberedKept
    <3>. QED  BY Zenon, <1>1, <1>14, <2>2, <3>1, RelayHome DEF ReturnInv
  <2>3. CASE Goto(s, "closing") /\ UNCHANGED answered
    <3>1. Shrunk(replies', replies)
      BY Zenon, <1>2, <2>1, ShrunkBy
    <3>2. HomeInv(O)' /\ OnceInv(O)'
      <4>1. Shrunk(chan', chan)
        BY <1>4, <2>1
      <4>. QED  BY Zenon, <1>1, <2>1, <2>3, <3>1, <4>1, Drops
    <3>3. Numbered(O)'
      BY Zenon, <1>1, <1>6, <2>1, <2>3, NumberedKept DEF Goto
    <3>. QED  BY Zenon, <3>2, <3>3 DEF ReturnInv
  <2>. QED  BY Zenon, <1>14, <2>2, <2>3 DEF Relay
<1>15. ASSUME UNCHANGED vars PROVE ReturnInv'
  <2>1. UNCHANGED <<pc, key, ident, nextIdent, chan, replies, hand, requests, inflight, answered>>
    BY <1>15 DEF vars, tasks
  <2>2. Shrunk(chan', chan) /\ Shrunk(replies', replies)
    BY Zenon, <1>4, <2>1
  <2>3. Numbered(O)'
    BY Zenon, <1>1, <1>5, <2>1, NumberedKept
  <2>4. HomeInv(O)' /\ OnceInv(O)'
    BY Zenon, <1>1, <2>1, <2>2, Drops
  <2>. QED  BY <2>3, <2>4 DEF ReturnInv
<1>. QED
  BY Zenon, <1>7, <1>8, <1>9, <1>10, <1>11, <1>12, <1>13, <1>14, <1>15 DEF Next, SessionStep

\* Finitely many tasks were spawned.
LEMMA FiniteNext == ASSUME Inv, IsFiniteSet(Spawned), [Next]_vars PROVE IsFiniteSet(Spawned)'
<1>1. Spawned' \subseteq Spawned \/ Spawned' = Spawned \cup {Fresh}
  <2>1. CASE \E k \in Key : FindSession(k)
    <3>1. CASE pc' = pc
      BY Zenon, <3>1 DEF Spawned
    <3>2. CASE pc' = [pc EXCEPT ![Fresh] = "starting"] /\ \E s \in Session : pc[s] = "unused"
      <4>1. Fresh \in Session
        BY Zenon, <3>2, FreshIsUnused
      <4>. HIDE DEF Fresh
      <4>. QED  BY <3>2, <4>1 DEF Spawned, Inv, Types, TypeOK
    <3>. QED  BY Zenon, <2>1, <3>1, <3>2 DEF FindSession
  <2>2. CASE HandOver \/ TargetReplies \/ UNCHANGED vars
    BY <2>2 DEF HandOver, TargetReplies, vars, tasks, Spawned
  <2>3. ASSUME NEW s \in Session, SessionStep(s) PROVE Spawned' \subseteq Spawned
    <3>1. pc[s] # "unused"
      BY Zenon, <2>3 DEF SessionStep, Refuse, Open, Forward, Relay, LoopEnds, Remove, Leave
    <3>2. pc' = pc \/ \E at \in {"loop", "closing", "leaving", "done"} : pc' = [pc EXCEPT ![s] = at]
      BY Zenon, <2>3 DEF SessionStep, Refuse, Open, Forward, Relay, LoopEnds, Remove, Leave, Goto
    <3>. QED  BY Zenon, <3>1, <3>2 DEF Spawned, Inv, Types, TypeOK
  <2>. QED  BY Zenon, <2>1, <2>2, <2>3 DEF Next
<1>. QED  BY <1>1, FS_Subset, FS_AddElement

LEMMA ReturnInit == Init => ReturnInv /\ IsFiniteSet(Spawned)
<1>. SUFFICES ASSUME Init PROVE ReturnInv /\ IsFiniteSet(Spawned)
  OBVIOUS
<1>1. Spawned = {} /\ IsFiniteSet({}) /\ Cardinality({}) = 0
  BY FS_EmptySet DEF Init, Spawned
<1>2. nextIdent = (FirstIdent + 0) % IdentSpace
  BY SMTT(30), ModIs, IcmpAssumption DEF Init
<1>3. Numbered({})
  BY Zenon, <1>1, <1>2 DEF Numbered, Init
<1>4. HomeInv({}) /\ OnceInv({})
  <2>1. /\ hand = None /\ inflight = {} /\ answered = <<>>
        /\ \A s \in Session : chan[s] = <<>> /\ replies[s] = <<>>
    BY Zenon DEF Init
  <2>2. \A i : i \notin DOMAIN <<>>
    OBVIOUS
  <2>3. HomeInv({})
    BY Zenon, <2>1, <2>2 DEF HomeInv
  <2>4. WaitInv /\ FlightInv /\ ReplyInv
    BY Zenon, <2>1, <2>2 DEF WaitInv, FlightInv, ReplyInv
  <2>5. AnswerInv({})
    BY Zenon, <2>1, <2>2 DEF AnswerInv
  <2>. QED  BY Zenon, <2>3, <2>4, <2>5 DEF OnceInv
<1>. QED  BY <1>1, <1>3, <1>4 DEF ReturnInv

LEMMA ReturnIsHome ==
    ASSUME ReturnInv, IsFiniteSet(Spawned), Cardinality(Spawned) <= IdentSpace
    PROVE  RepliesGoHome
<1>1. PICK O \in SUBSET Session : Numbered(O) /\ HomeInv(O) /\ OnceInv(O)
  BY Zenon DEF ReturnInv
<1>2. Cardinality(O) <= IdentSpace
  <2>1. O \subseteq Spawned
    BY Zenon, <1>1 DEF Numbered
  <2>2. Cardinality(O) <= Cardinality(Spawned) /\ Cardinality(O) \in Nat /\ Cardinality(Spawned) \in Nat
    BY <1>1, <2>1, FS_Subset, FS_CardinalityType DEF Numbered
  <2>. QED  BY <2>2, IcmpAssumption
<1>. QED  BY Zenon, <1>1, <1>2 DEF HomeInv, OnceInv, AnswerInv, Asked, RepliesGoHome

\* While no more tasks were spawned than there are identifiers, though every
\* session sees every reply of its target, rewrite_icmp_echo_reply lets a reply
\* through to the client that sent the request, and only once.
THEOREM RepliesHome == Spec => [](Cardinality(Spawned) <= IdentSpace => RepliesGoHome)
<1>1. Init => ReturnInv /\ IsFiniteSet(Spawned)
  BY ReturnInit
<1>2. Inv /\ Inv' /\ ReturnInv /\ IsFiniteSet(Spawned) /\ [Next]_vars => ReturnInv' /\ IsFiniteSet(Spawned)'
  BY ReturnNext, FiniteNext
<1>3. ReturnInv /\ IsFiniteSet(Spawned) => (Cardinality(Spawned) <= IdentSpace => RepliesGoHome)
  BY ReturnIsHome
<1>. QED  BY <1>1, <1>2, <1>3, Invariance, PTL DEF Spec
=============================================================================
