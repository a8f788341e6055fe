----------------------- MODULE TransparentProxyProofs -----------------------
(***************************************************************************)
(* Proofs about UdpProxy and TransparentProxy for any set of pairs,        *)
(* session tasks and connections.  What is proved of the UDP proxy on its  *)
(* own is carried over to the transparent proxy, which may stop its        *)
(* inbound loop at any await.                                              *)
(***************************************************************************)
EXTENDS TransparentProxy, FiniteSetTheorems, TLAPS

\* What makes TableIsServing inductive: the pair of the inbound task has no
\* entry but that of the sender it holds, and once a hand-over has failed none.
MainInv ==
    /\ main.pc # "recv" => main.key \in Key
    /\ main.pc = "lock" => main.tx = NoSession
    /\ main.pc \in {"send", "drop"} =>
          /\ main.tx \in Session
          /\ pc[main.tx] # "new"
          /\ key[main.tx] = main.key
          /\ table[main.key] \in {main.tx, NoSession}
    /\ main.pc = "drop" => pc[main.tx] = "gone"

Inv ==
    /\ TypeOK
    /\ MainInv
    /\ TableIsServing

LEMMA InitInv == Init => Inv
BY ProxyAssumption
DEF Init, Inv, TypeOK, MainInv, TableIsServing, Serving, SessionPC, Main, MainIdle

\* The inbound task.
LEMMA RecvInv ==
    ASSUME Inv, NEW k \in Key, Recv(k)
    PROVE  Inv'
BY ProxyAssumption
DEF Inv, TypeOK, MainInv, TableIsServing, Serving, Main, Recv

LEMMA FindSessionInv == Inv /\ FindSession => Inv'
<1>. SUFFICES ASSUME Inv, FindSession PROVE Inv'
  OBVIOUS
<1>1. main.key \in Key /\ table[main.key] \in Session
  BY DEF Inv, TypeOK, MainInv, FindSession
<1>2. Serving(table[main.key]) /\ key[table[main.key]] = main.key
  BY <1>1 DEF Inv, TableIsServing
<1>3. main' \in Main
  BY <1>1 DEF Inv, TypeOK, Main, FindSession
<1>4. MainInv'
  BY <1>1, <1>2 DEF Inv, MainInv, FindSession, Serving
<1>. QED
  BY <1>3, <1>4 DEF Inv, TypeOK, TableIsServing, Serving, FindSession

LEMMA SpawnSessionInv ==
    ASSUME Inv, NEW s \in Session, SpawnSession(s)
    PROVE  Inv'
<1>1. main.key \in Key
  BY DEF Inv, MainInv, SpawnSession
<1>2. TypeOK'
  BY <1>1 DEF Inv, TypeOK, SessionPC, Main, SpawnSession
<1>4. MainInv'
  BY <1>1 DEF Inv, TypeOK, MainInv, SpawnSession
<1>5. TableIsServing'
  <2>. SUFFICES ASSUME NEW k \in Key, NEW t \in Session
                PROVE  (table[k] = t <=> Serving(t) /\ key[t] = k)'
    BY DEF TableIsServing
  <2>1. table[k] = t <=> Serving(t) /\ key[t] = k
    BY DEF Inv, TableIsServing
  <2>2. CASE t = s
    BY <1>1, <2>1, <2>2, ProxyAssumption
    DEF Inv, TypeOK, TableIsServing, Serving, SpawnSession
  <2>3. CASE t # s
    BY <1>1, <2>1, <2>3, ProxyAssumption
    DEF Inv, TypeOK, TableIsServing, Serving, SpawnSession
  <2>. QED  BY <2>2, <2>3
<1>. QED  BY <1>2, <1>4, <1>5 DEF Inv

LEMMA HandOverInv == Inv /\ HandOver => Inv'
<1>. SUFFICES ASSUME Inv, HandOver PROVE Inv'
  OBVIOUS
<1>1. /\ main.tx \in Session /\ main.key \in Key /\ main.data \in Nat
      /\ key[main.tx] = main.key
      /\ table[main.key] \in {main.tx, NoSession}
  BY DEF Inv, TypeOK, MainInv, Main, HandOver
<1>2. chan' \in [Session -> Seq(Nat)]
  <2>1. chan[main.tx] \in Seq(Nat) /\ Append(chan[main.tx], main.data) \in Seq(Nat)
    BY <1>1 DEF Inv, TypeOK
  <2>2. chan' = chan \/ chan' = [chan EXCEPT ![main.tx] = Append(chan[main.tx], main.data)]
    BY DEF HandOver
  <2>. QED  BY Zenon, <2>1, <2>2 DEF Inv, TypeOK
<1>3. main' \in Main /\ MainInv'
  <2>1. CASE pc[main.tx] = "gone"
    BY <1>1, <2>1 DEF Inv, TypeOK, Main, MainInv, HandOver
  <2>2. CASE pc[main.tx] # "gone"
    BY <2>2 DEF Main, MainInv, HandOver, MainIdle
  <2>. QED  BY <2>1, <2>2
<1>. QED
  BY <1>2, <1>3 DEF Inv, TypeOK, TableIsServing, Serving, HandOver

LEMMA DropEntryInv == Inv /\ DropEntry => Inv'
<1>. SUFFICES ASSUME Inv, DropEntry PROVE Inv'
  OBVIOUS
<1>1. /\ main.tx \in Session /\ main.key \in Key
      /\ pc[main.tx] = "gone"
      /\ table[main.key] \in {main.tx, NoSession}
  BY DEF Inv, MainInv, DropEntry
<1>2. table[main.key] = NoSession
  BY <1>1 DEF Inv, TableIsServing, Serving
<1>3. table' = table
  BY <1>1, <1>2 DEF Inv, TypeOK, DropEntry
<1>. QED
  BY <1>3 DEF Inv, TypeOK, MainInv, Main, MainIdle, TableIsServing, Serving, DropEntry

\* A session task.
LEMMA SessionStepInv ==
    ASSUME Inv, NEW s \in Session, SessionStep(s)
    PROVE  Inv'
<1>1. ASSUME NEW to, pc' = [pc EXCEPT ![s] = to],
             \/ /\ pc[s] \in {"spawned", "loop", "send", "remove"}
                /\ to \in {"spawned", "loop", "send", "remove"}
             \/ pc[s] = "leave" /\ to = "gone",
             UNCHANGED <<table, key, main, count>>,
             chan' \in [Session -> Seq(Nat)], hand' \in [Session -> Nat],
             relayed' \in [Key -> Nat], active' \in Int
      PROVE  Inv'
  <2>1. \A t \in Session : Serving(t)' = Serving(t)
    BY <1>1 DEF Serving, Inv, TypeOK
  <2>2. TypeOK'
    BY Zenon, <1>1 DEF Inv, TypeOK, SessionPC
  <2>3. MainInv'
    BY Zenon, <1>1 DEF Inv, TypeOK, MainInv
  <2>4. TableIsServing'
    BY <1>1, <2>1 DEF Inv, TableIsServing
  <2>. QED  BY <2>2, <2>3, <2>4 DEF Inv
<1>2. CASE Open(s)
  <2>1. active' \in Int
    BY <1>2 DEF Open, Inv, TypeOK
  <2>. QED  BY <1>1, <1>2, <2>1 DEF Open, Goto, Inv, TypeOK
<1>3. CASE Take(s)
  <2>1. chan[s] \in Seq(Nat) /\ Head(chan[s]) \in Nat /\ Tail(chan[s]) \in Seq(Nat)
    BY <1>3 DEF Take, Inv, TypeOK
  <2>2. chan' \in [Session -> Seq(Nat)] /\ hand' \in [Session -> Nat]
    BY Zenon, <1>3, <2>1 DEF Take, Inv, TypeOK
  <2>3. relayed' \in [Key -> Nat] /\ active' \in Int
    BY <1>3 DEF Take, Inv, TypeOK
  <2>4. Goto(s, "loop", "send") /\ UNCHANGED <<table, key, main, count>>
    BY <1>3 DEF Take
  <2>. QED  BY Zenon, <1>1, <2>2, <2>3, <2>4 DEF Goto
<1>4. CASE Relay(s)
  <2>1. relayed' \in [Key -> Nat] /\ hand' \in [Session -> Nat]
    BY Zenon, <1>4 DEF Relay, Inv, TypeOK
  <2>2. chan' \in [Session -> Seq(Nat)] /\ active' \in Int
    BY <1>4 DEF Relay, Inv, TypeOK
  <2>3. /\ Goto(s, "send", "loop") \/ Goto(s, "send", "remove")
        /\ UNCHANGED <<table, key, main, count>>
    BY <1>4 DEF Relay
  <2>. QED  BY Zenon, <1>1, <2>1, <2>2, <2>3 DEF Goto
<1>5. CASE LoopEnds(s)
  BY Zenon, <1>1, <1>5 DEF LoopEnds, Goto, Inv, TypeOK
<1>6. CASE Remove(s)
  <2>1. pc[s] = "remove" /\ key[s] \in Key /\ table[key[s]] = s
    BY <1>6 DEF Remove, Goto, Inv, TypeOK, TableIsServing, Serving
  <2>2. TypeOK'
    BY Zenon, <1>6, <2>1 DEF Remove, Goto, Inv, TypeOK, SessionPC
  <2>3. MainInv'
    BY Zenon, <1>6, <2>1 DEF Remove, Goto, Inv, TypeOK, MainInv
  <2>4. TableIsServing'
    <3>. SUFFICES ASSUME NEW k \in Key, NEW t \in Session
                  PROVE  (table[k] = t <=> Serving(t) /\ key[t] = k)'
      BY DEF TableIsServing
    <3>1. table[k] = t <=> Serving(t) /\ key[t] = k
      BY DEF Inv, TableIsServing
    <3>. QED
      BY Zenon, <1>6, <2>1, <3>1, ProxyAssumption DEF Remove, Goto, Inv, TypeOK, Serving
  <2>. QED  BY Zenon, <1>6, <2>1, <2>2, <2>3, <2>4 DEF Remove, Goto, Inv, TypeOK
<1>7. CASE Leave(s)
  <2>1. chan' \in [Session -> Seq(Nat)] /\ active' \in Int
    BY <1>7 DEF Leave, Inv, TypeOK
  <2>. QED  BY Zenon, <1>1, <1>7, <2>1 DEF Leave, Goto, Inv, TypeOK
<1>. QED  BY Zenon, <1>2, <1>3, <1>4, <1>5, <1>6, <1>7 DEF SessionStep

\* Types, and the strengthening of TableIsServing that is inductive.
THEOREM Invariance == Spec => []Inv
<1>1. Inv /\ [Next]_vars => Inv'
  <2>. SUFFICES ASSUME Inv, [Next]_vars PROVE Inv'
    BY Zenon
  <2>1. CASE UNCHANGED vars
    BY <2>1 DEF Inv, TypeOK, MainInv, TableIsServing, Serving, vars
  <2>. QED
    BY Zenon, <2>1, RecvInv, FindSessionInv, SpawnSessionInv, HandOverInv, DropEntryInv,
       SessionStepInv
    DEF Next
<1>. QED  BY <1>1, InitInv, PTL DEF Spec

\* Every variable has its type, and a task that was spawned has a pair.
THEOREM TypesHold == Spec => []TypeOK
<1>1. Inv => TypeOK
  BY DEF Inv
<1>. QED  BY <1>1, Invariance, PTL

\* A session task removes its own entry and no other: the table names exactly
\* the tasks that serve, however hand-overs, timeouts and removals interleave.
THEOREM TableServes == Spec => []TableIsServing
<1>1. Inv => TableIsServing
  BY Zenon DEF Inv
<1>. QED  BY <1>1, Invariance, PTL

-----------------------------------------------------------------------------
\* n is a datagram that came before the one the inbound task still holds.
Past(n) == n <= count /\ (main.pc \in {"lock", "send"} => n < count)

\* Everything a task still has to relay is later than what was relayed for its
\* pair, and is in the order of arrival.
OrderInv ==
    /\ main.pc # "recv" => main.data = count
    /\ \A k \in Key : Past(relayed[k])
    /\ \A s \in Session : pc[s] = "new" => chan[s] = <<>>
    /\ \A s \in Session : pc[s] = "send" =>
          /\ Past(hand[s])
          /\ relayed[key[s]] <= hand[s]
          /\ \A i \in 1 .. Len(chan[s]) : hand[s] <= chan[s][i]
    /\ \A s \in Session : \A i \in 1 .. Len(chan[s]) :
          /\ Past(chan[s][i])
          /\ Serving(s) => relayed[key[s]] <= chan[s][i]
          /\ \A j \in 1 .. Len(chan[s]) : i < j => chan[s][i] <= chan[s][j]

LEMMA RecvOrder ==
    ASSUME Inv, OrderInv, NEW k \in Key, Recv(k)
    PROVE  OrderInv'
<1>1. count' = count + 1 /\ count \in Nat /\ main'.pc = "lock" /\ main'.data = count'
  BY DEF Recv, Inv, TypeOK
<1>2. \A n \in Nat : Past(n) => Past(n)'
  BY <1>1 DEF Past
<1>3. \A s \in Session : chan[s] \in Seq(Nat) /\ hand[s] \in Nat
  BY Zenon DEF Inv, TypeOK
<1>4. \A l \in Key : Past(relayed[l])'
  BY Zenon, <1>2 DEF OrderInv, Recv, Inv, TypeOK, Past
<1>5. \A s \in Session : \A i \in 1 .. Len(chan[s]) : Past(chan[s][i])'
  <2>. SUFFICES ASSUME NEW s \in Session, NEW i \in 1 .. Len(chan[s])
                PROVE  Past(chan[s][i])'
    BY DEF Recv
  <2>1. chan'[s][i] = chan[s][i] /\ chan[s][i] \in Nat
    BY <1>3 DEF Recv
  <2>2. Past(chan[s][i])
    BY DEF OrderInv
  <2>. QED  BY Zenon, <1>2, <2>1, <2>2 DEF Past
<1>6. \A s \in Session : pc[s] = "send" => Past(hand[s])'
  BY Zenon, <1>2, <1>3 DEF OrderInv, Recv, Past
<1>. QED  BY Zenon, <1>1, <1>4, <1>5, <1>6 DEF OrderInv, Recv, Serving

\* A step that adds nothing to a channel and relays nothing.
Quiet ==
    /\ UNCHANGED <<count, relayed, chan>>
    /\ main'.pc # "recv" => main'.data = count
    /\ main'.pc \in {"lock", "send"} => main.pc \in {"lock", "send"}
    /\ \A s \in Session :
          /\ pc'[s] = "new" => pc[s] = "new"
          /\ pc'[s] = "send" => pc[s] = "send" /\ hand'[s] = hand[s]
          /\ pc'[s] \in {"spawned", "loop", "send", "remove"} =>
                \/ key'[s] = key[s] /\ Serving(s)
                \/ chan[s] = <<>> /\ pc'[s] # "send"

LEMMA QuietOrder ==
    ASSUME Inv, OrderInv, Quiet
    PROVE  OrderInv'
<1>1. \A n \in Nat : Past(n) => Past(n)'
  BY DEF Past, Quiet
<1>2. \A s \in Session : chan[s] \in Seq(Nat) /\ hand[s] \in Nat
  BY Zenon DEF Inv, TypeOK
<1>3. \A l \in Key : Past(relayed[l])'
  BY Zenon, <1>1 DEF OrderInv, Inv, TypeOK, Past, Quiet
<1>4. \A s \in Session : pc'[s] = "send" =>
          /\ Past(hand[s])'
          /\ relayed'[key'[s]] <= hand'[s]
          /\ \A i \in 1 .. Len(chan'[s]) : hand'[s] <= chan'[s][i]
  BY Zenon, <1>1, <1>2 DEF OrderInv, Past, Serving, Quiet
<1>5. \A s \in Session : \A i \in 1 .. Len(chan'[s]) :
          /\ Past(chan[s][i])'
          /\ Serving(s)' => relayed'[key'[s]] <= chan'[s][i]
          /\ \A j \in 1 .. Len(chan'[s]) : i < j => chan'[s][i] <= chan'[s][j]
  BY <1>1, <1>2 DEF OrderInv, Past, Serving, Quiet
<1>6. \A s \in Session : pc'[s] = "new" => chan'[s] = <<>>
  BY DEF OrderInv, Quiet
<1>. QED  BY Zenon, <1>3, <1>4, <1>5, <1>6 DEF OrderInv, Quiet

LEMMA HandOverOrder == Inv /\ OrderInv /\ HandOver => OrderInv'
<1>. SUFFICES ASSUME Inv, OrderInv, HandOver PROVE OrderInv'
  OBVIOUS
<1>1. CASE pc[main.tx] = "gone"
  <2>1. main.data = count
    BY Zenon DEF HandOver, OrderInv
  <2>2. Quiet
    BY <1>1, <2>1 DEF Quiet, HandOver, Serving
  <2>. QED  BY Zenon, <2>2, QuietOrder
<1>2. CASE pc[main.tx] # "gone"
  <2>. DEFINE t == main.tx
  <2>1. /\ t \in Session /\ pc[t] # "new" /\ main.data = count /\ count \in Nat
        /\ chan[t] \in Seq(Nat) /\ main.pc = "send" /\ main'.pc = "recv"
        /\ chan' = [chan EXCEPT ![t] = Append(chan[t], count)]
    BY <1>2 DEF HandOver, Inv, TypeOK, MainInv, OrderInv, MainIdle
  <2>2. \A n \in Nat : Past(n) => Past(n)' /\ n < count
    BY Zenon, <2>1 DEF Past, HandOver
  <2>3. \A s \in Session \ {t} : chan'[s] = chan[s]
    BY Zenon, <2>1 DEF Inv, TypeOK
  <2>4. /\ Len(chan'[t]) = Len(chan[t]) + 1
        /\ \A i \in 1 .. Len(chan[t]) : chan'[t][i] = chan[t][i] /\ chan[t][i] \in Nat
        /\ chan'[t][Len(chan[t]) + 1] = count
    BY SMTT(30), <2>1 DEF Inv, TypeOK
  <2>5. \A s \in Session : chan[s] \in Seq(Nat) /\ hand[s] \in Nat
    BY DEF Inv, TypeOK
  <2>6. \A s \in Session : Serving(s)' = Serving(s) /\ (pc[s] # "new" => relayed[key[s]] \in Nat)
    BY DEF HandOver, Serving, Inv, TypeOK
  <2>7. Past(count)'
    BY <2>1 DEF Past, HandOver
  <2>8. \A l \in Key : Past(relayed[l])' /\ relayed[l] < count
    BY Zenon, <2>2 DEF OrderInv, HandOver, Inv, TypeOK, Past
  <2>9. ASSUME NEW s \in Session, pc[s] = "send"
        PROVE  /\ Past(hand[s])'
               /\ \A i \in 1 .. Len(chan'[s]) : hand[s] <= chan'[s][i]
    <3>1. Past(hand[s]) /\ hand[s] < count /\ Past(hand[s])'
      BY Zenon, <2>2, <2>5, <2>9 DEF OrderInv, HandOver, Past
    <3>2. CASE s = t
      <4>1. \A i \in 1 .. Len(chan[t]) : hand[s] <= chan'[t][i]
        BY Zenon, <2>4, <2>9, <3>2 DEF OrderInv
      <4>2. hand[s] <= chan'[t][Len(chan[t]) + 1]
        BY <2>1, <2>4, <2>5, <3>1
      <4>3. \A i \in 1 .. Len(chan'[t]) : i \in 1 .. Len(chan[t]) \/ i = Len(chan[t]) + 1
        <5>1. Len(chan[t]) \in Nat
          BY <2>1
        <5>. QED  BY <2>4, <5>1
      <4>. QED  BY Zenon, <3>1, <3>2, <4>1, <4>2, <4>3
    <3>3. CASE s # t
      BY Zenon, <2>3, <2>5, <2>9, <3>1, <3>3 DEF OrderInv
    <3>. QED  BY Zenon, <3>1, <3>2, <3>3
  <2>10. ASSUME NEW s \in Session, NEW i \in 1 .. Len(chan'[s])
         PROVE  /\ Past(chan[s][i])'
                /\ Serving(s) => relayed[key[s]] <= chan'[s][i]
                /\ \A j \in 1 .. Len(chan'[s]) : i < j => chan'[s][i] <= chan'[s][j]
    <3>1. CASE s # t
      BY Zenon, <2>2, <2>3, <2>5, <2>10, <3>1 DEF OrderInv, Past, HandOver
    <3>2. CASE s = t /\ i \in 1 .. Len(chan[t])
      <4>1. chan[t][i] \in Nat /\ chan[t][i] < count /\ Past(chan[t][i])
        BY Zenon, <2>1, <2>2, <2>4, <3>2 DEF OrderInv
      <4>2. Past(chan[s][i])'
        BY Zenon, <2>1, <2>4, <3>2, <4>1 DEF Past, HandOver
      <4>3. Serving(s) => relayed[key[s]] <= chan'[s][i]
        BY Zenon, <2>4, <3>2 DEF OrderInv
      <4>4. ASSUME NEW j \in 1 .. Len(chan'[s]), i < j
            PROVE  chan'[s][i] <= chan'[s][j]
        <5>1. Len(chan[t]) \in Nat
          BY <2>1
        <5>2. CASE j \in 1 .. Len(chan[t])
          BY SMTT(30), <2>1, <2>4, <3>2, <4>4, <5>2 DEF OrderInv
        <5>3. CASE j = Len(chan[t]) + 1
          BY SMTT(30), <2>1, <2>4, <3>2, <4>1, <5>3
        <5>4. j \in 1 .. Len(chan[t]) \/ j = Len(chan[t]) + 1
          BY <2>4, <3>2, <5>1
        <5>. QED  BY Zenon, <5>2, <5>3, <5>4
      <4>. QED  BY <4>2, <4>3, <4>4
    <3>3. CASE s = t /\ i = Len(chan[t]) + 1
      <4>1. Past(chan[s][i])'
        BY <2>1, <2>4, <3>3 DEF Past, HandOver
      <4>2. Serving(s) => relayed[key[s]] <= chan'[s][i]
        BY <2>1, <2>4, <2>6, <2>8, <3>3 DEF Inv, TypeOK, Serving
      <4>3. \A j \in 1 .. Len(chan'[s]) : ~(i < j)
        BY <2>1, <2>4, <3>3
      <4>. QED  BY Zenon, <4>1, <4>2, <4>3
    <3>4. s = t => i \in 1 .. Len(chan[t]) \/ i = Len(chan[t]) + 1
      <4>1. Len(chan[t]) \in Nat /\ i \in 1 .. Len(chan'[s])
        BY <2>1, <2>10
      <4>. QED  BY <2>4, <4>1
    <3>. QED  BY Zenon, <3>1, <3>2, <3>3, <3>4
  <2>11. \A s \in Session : pc[s] = "new" => chan'[s] = <<>>
    BY Zenon, <2>1, <2>3 DEF OrderInv
  <2>. QED
    BY Zenon, <2>1, <2>6, <2>8, <2>9, <2>10, <2>11 DEF OrderInv, HandOver
<1>. QED  BY <1>1, <1>2

LEMMA TakeOrder ==
    ASSUME Inv, OrderInv, NEW s \in Session, Take(s)
    PROVE  OrderInv'
<1>1. /\ chan[s] \in Seq(Nat) /\ chan[s] # <<>> /\ pc[s] = "loop"
      /\ hand'[s] = chan[s][1] /\ Len(chan[s]) >= 1
      /\ Len(chan'[s]) = Len(chan[s]) - 1
      /\ \A i \in 1 .. Len(chan'[s]) : chan'[s][i] = chan[s][i + 1]
      /\ \A t \in Session \ {s} : chan'[t] = chan[t] /\ hand'[t] = hand[t] /\ pc'[t] = pc[t]
      /\ pc'[s] = "send"
  BY DEF Take, Goto, Inv, TypeOK
<1>2. \A n : Past(n)' = Past(n)
  BY DEF Past, Take
<1>3. \A i \in 1 .. Len(chan'[s]) : i + 1 \in 1 .. Len(chan[s])
  BY <1>1
<1>4. 1 \in 1 .. Len(chan[s]) /\ Serving(s)
  BY <1>1 DEF Serving
<1>5. \A t \in Session : pc'[t] = "send" =>
          /\ Past(hand'[t])
          /\ relayed[key[t]] <= hand'[t]
          /\ \A i \in 1 .. Len(chan'[t]) : hand'[t] <= chan'[t][i]
  <2>. SUFFICES ASSUME NEW t \in Session, pc'[t] = "send"
                PROVE  /\ Past(hand'[t])
                       /\ relayed[key[t]] <= hand'[t]
                       /\ \A i \in 1 .. Len(chan'[t]) : hand'[t] <= chan'[t][i]
    OBVIOUS
  <2>1. CASE t = s
    <3>1. Past(chan[s][1]) /\ relayed[key[s]] <= chan[s][1]
      BY Zenon, <1>4 DEF OrderInv
    <3>2. \A i \in 1 .. Len(chan'[s]) : chan[s][1] <= chan[s][i + 1]
      <4>. TAKE i \in 1 .. Len(chan'[s])
      <4>1. i + 1 \in 1 .. Len(chan[s]) /\ 1 < i + 1
        BY <1>1, <1>3
      <4>. QED  BY Zenon, <1>4, <4>1 DEF OrderInv
    <3>. QED  BY Zenon, <1>1, <2>1, <3>1, <3>2
  <2>2. CASE t # s
    BY Zenon, <1>1, <2>2 DEF OrderInv
  <2>. QED  BY Zenon, <2>1, <2>2
<1>6. \A t \in Session : \A i \in 1 .. Len(chan'[t]) :
          /\ Past(chan'[t][i])
          /\ Serving(t)' => relayed[key[t]] <= chan'[t][i]
          /\ \A j \in 1 .. Len(chan'[t]) : i < j => chan'[t][i] <= chan'[t][j]
  <2>. SUFFICES ASSUME NEW t \in Session, NEW i \in 1 .. Len(chan'[t])
                PROVE  /\ Past(chan'[t][i])
                       /\ Serving(t)' => relayed[key[t]] <= chan'[t][i]
                       /\ \A j \in 1 .. Len(chan'[t]) : i < j => chan'[t][i] <= chan'[t][j]
    BY Zenon
  <2>1. CASE t = s
    <3>1. i + 1 \in 1 .. Len(chan[s]) /\ chan'[s][i] = chan[s][i + 1]
      BY Zenon, <1>1, <1>3, <2>1
    <3>2. Past(chan[s][i + 1]) /\ relayed[key[s]] <= chan[s][i + 1]
      BY Zenon, <1>4, <3>1 DEF OrderInv
    <3>3. ASSUME NEW j \in 1 .. Len(chan'[s]), i < j
          PROVE  chan'[s][i] <= chan'[s][j]
      <4>1. j + 1 \in 1 .. Len(chan[s]) /\ chan'[s][j] = chan[s][j + 1]
        BY Zenon, <1>1, <1>3
      <4>2. i + 1 < j + 1
        BY <3>3
      <4>. QED  BY <3>1, <4>1, <4>2 DEF OrderInv
    <3>. QED  BY Zenon, <2>1, <3>1, <3>2, <3>3
  <2>2. CASE t # s
    BY Zenon, <1>1, <2>2 DEF OrderInv, Serving
  <2>. QED  BY Zenon, <2>1, <2>2
<1>7. \A t \in Session : pc'[t] = "new" => chan'[t] = <<>>
  BY Zenon, <1>1 DEF OrderInv
<1>8. UNCHANGED <<relayed, key, main, count>>
  BY Zenon DEF Take
<1>. QED  BY Zenon, <1>2, <1>5, <1>6, <1>7, <1>8 DEF OrderInv, Past

LEMMA RelayOrder ==
    ASSUME Inv, OrderInv, NEW s \in Session, Relay(s)
    PROVE  OrderInv' /\ \A k \in Key : relayed'[k] >= relayed[k]
<1>1. CASE UNCHANGED relayed
  <2>1. OrderInv'
    <3>1. main.pc # "recv" => main.data = count
      BY Zenon DEF OrderInv
    <3>2. Quiet
      BY Zenon, <1>1, <3>1 DEF Quiet, Relay, Goto, Serving, Inv, TypeOK
    <3>. QED  BY Zenon, <3>2, QuietOrder
  <2>. QED  BY <1>1, <2>1 DEF Inv, TypeOK
<1>2. CASE Goto(s, "send", "loop") /\ relayed' = [relayed EXCEPT ![key[s]] = hand[s]]
  <2>1. /\ pc[s] = "send" /\ key[s] \in Key /\ hand[s] \in Nat /\ Serving(s)
        /\ \A t \in Session \ {s} : pc'[t] = pc[t] /\ hand'[t] = hand[t]
        /\ pc'[s] = "loop" /\ UNCHANGED <<chan, key, main, count>>
    BY Zenon, <1>2 DEF Relay, Goto, Inv, TypeOK, Serving
  <2>2. /\ relayed'[key[s]] = hand[s]
        /\ \A k \in Key \ {key[s]} : relayed'[k] = relayed[k]
    BY Zenon, <1>2, <2>1 DEF Inv, TypeOK
  <2>3. \A n : Past(n)' = Past(n)
    BY Zenon, <2>1 DEF Past
  <2>4. \A t \in Session \ {s} : Serving(t) => key[t] # key[s]
    BY <2>1 DEF Inv, TableIsServing
  <2>5. \A k \in Key : relayed'[k] >= relayed[k] /\ Past(relayed'[k])
    <3>. SUFFICES ASSUME NEW k \in Key
                  PROVE  relayed'[k] >= relayed[k] /\ Past(relayed'[k])
      BY Zenon
    <3>1. relayed[k] \in Nat /\ Past(relayed[k]) /\ Past(hand[s]) /\ relayed[key[s]] <= hand[s]
      BY Zenon, <2>1 DEF OrderInv, Inv, TypeOK
    <3>2. relayed'[k] = relayed[k] \/ (k = key[s] /\ relayed'[k] = hand[s])
      BY Zenon, <2>2
    <3>. QED  BY <2>1, <3>1, <3>2
  <2>6. ASSUME NEW t \in Session, pc'[t] = "send"
        PROVE  /\ Past(hand'[t])
               /\ relayed'[key[t]] <= hand'[t]
               /\ \A i \in 1 .. Len(chan[t]) : hand'[t] <= chan[t][i]
    <3>1. t # s /\ pc[t] = "send" /\ hand'[t] = hand[t] /\ key[t] \in Key /\ key[t] # key[s]
      BY Zenon, <2>1, <2>4, <2>6 DEF Serving, Inv, TypeOK
    <3>. QED  BY Zenon, <2>2, <3>1 DEF OrderInv
  <2>7. ASSUME NEW t \in Session, NEW i \in 1 .. Len(chan[t])
        PROVE  Serving(t)' => relayed'[key[t]] <= chan[t][i]
    <3>1. CASE t = s
      BY Zenon, <2>1, <2>2, <2>7, <3>1 DEF OrderInv
    <3>2. CASE t # s
      <4>1. Serving(t)' => Serving(t) /\ key[t] \in Key
        BY Zenon, <2>1, <3>2 DEF Serving, Inv, TypeOK
      <4>. QED  BY Zenon, <2>2, <2>4, <2>7, <3>2, <4>1 DEF OrderInv
    <3>. QED  BY Zenon, <3>1, <3>2
  <2>8. \A t \in Session : pc'[t] = "new" => chan[t] = <<>>
    BY Zenon, <2>1 DEF OrderInv
  <2>9. OrderInv'
    BY <2>1, <2>3, <2>5, <2>6, <2>7, <2>8 DEF OrderInv, Past
  <2>. QED  BY Zenon, <2>5, <2>9
<1>. QED  BY Zenon, <1>1, <1>2 DEF Relay

LEMMA LeaveOrder ==
    ASSUME Inv, OrderInv, NEW s \in Session, Leave(s)
    PROVE  OrderInv'
<1>1. /\ chan'[s] = <<>> /\ pc'[s] = "gone"
      /\ \A t \in Session \ {s} : chan'[t] = chan[t] /\ pc'[t] = pc[t]
      /\ UNCHANGED <<key, hand, main, count, relayed>>
  BY Zenon DEF Leave, Goto, Inv, TypeOK
<1>2. \A n : Past(n)' = Past(n)
  BY Zenon, <1>1 DEF Past
<1>3. \A t \in Session : \A i \in 1 .. Len(chan'[t]) : t # s
  BY <1>1
<1>. QED  BY Zenon, <1>1, <1>2, <1>3 DEF OrderInv, Past, Serving

LEMMA OrderStep ==
    ASSUME Inv, OrderInv, [Next]_vars
    PROVE  OrderInv' /\ \A k \in Key : relayed'[k] >= relayed[k]
<1>1. CASE UNCHANGED relayed
  <2>0. /\ main.pc # "recv" => main.data = count
        /\ \A s \in Session : pc[s] = "new" => chan[s] = <<>>
    BY DEF OrderInv
  <2>1. \A k \in Key : relayed'[k] >= relayed[k]
    BY <1>1 DEF Inv, TypeOK
  <2>2. CASE FindSession \/ DropEntry \/ UNCHANGED vars
    <3>1. Quiet
      BY <2>0, <2>2 DEF Quiet, FindSession, DropEntry, vars, Serving, MainIdle
    <3>. QED  BY Zenon, <2>1, <3>1, QuietOrder
  <2>3. ASSUME NEW s \in Session, SpawnSession(s)
        PROVE  OrderInv'
    <3>1. Quiet
      BY <2>0, <2>3 DEF Quiet, SpawnSession, Serving, Inv, TypeOK
    <3>. QED  BY Zenon, <3>1, QuietOrder
  <2>4. ASSUME NEW s \in Session, Open(s) \/ LoopEnds(s) \/ Remove(s)
        PROVE  OrderInv'
    <3>1. Quiet
      BY Zenon, <2>0, <2>4 DEF Quiet, Open, LoopEnds, Remove, Goto, Serving, Inv, TypeOK
    <3>. QED  BY Zenon, <3>1, QuietOrder
  <2>. QED
    BY Zenon, <2>1, <2>2, <2>3, <2>4, RecvOrder, HandOverOrder, TakeOrder, RelayOrder, LeaveOrder
    DEF Next, SessionStep
<1>2. CASE \E s \in Session : Relay(s)
  BY <1>2, RelayOrder
<1>3. UNCHANGED relayed \/ \E s \in Session : Relay(s)
  BY DEF Next, SessionStep, Recv, FindSession, SpawnSession, HandOver, DropEntry, Open,
         Take, LoopEnds, Remove, Leave, vars
<1>. QED  BY Zenon, <1>1, <1>2, <1>3

\* The datagrams of a pair reach its socket in the order in which they came.
THEOREM OrderIsKept == Spec => RelayedInOrder
<1>1. Init => OrderInv
  BY DEF Init, OrderInv, Past, MainIdle
<1>2. Inv /\ OrderInv /\ [Next]_vars => OrderInv'
  BY OrderStep
<1>3. Inv /\ OrderInv /\ [Next]_vars => [\A k \in Key : relayed'[k] >= relayed[k]]_vars
  BY Zenon, OrderStep
<1>. QED  BY <1>1, <1>2, <1>3, Invariance, PTL DEF Spec, RelayedInOrder

-----------------------------------------------------------------------------
\* The tasks between the increment and the decrement of active_udp.
Counted == {s \in Session : pc[s] \in {"loop", "send", "remove", "leave"}}

\* Only finitely many tasks are counted at any time, whatever Session is.
ActiveInv == IsFiniteSet(Counted) /\ active = Cardinality(Counted)

\* The counter goes up with the task that Open adds, goes down with the one that
\* Leave takes away, and no other step changes which tasks are counted.
LEMMA ActiveStep ==
    ASSUME Inv, ActiveInv, [Next]_vars
    PROVE  ActiveInv'
<1>1. CASE UNCHANGED active
  <2>1. Counted' = Counted
    BY <1>1 DEF Next, SessionStep, Recv, FindSession, SpawnSession, HandOver, DropEntry, Open,
                Take, Relay, LoopEnds, Remove, Leave, Goto, vars, Counted, Inv, TypeOK
  <2>. QED  BY Zenon, <1>1, <2>1 DEF ActiveInv
<1>2. ASSUME NEW s \in Session, Open(s)
      PROVE  ActiveInv'
  <2>1. s \notin Counted /\ Counted' = Counted \cup {s}
    BY <1>2 DEF Open, Goto, Counted, Inv, TypeOK
  <2>2. active' = active + 1
    BY <1>2 DEF Open
  <2>. QED  BY <2>1, <2>2, FS_AddElement DEF ActiveInv
<1>3. ASSUME NEW s \in Session, Leave(s)
      PROVE  ActiveInv'
  <2>1. s \in Counted /\ Counted' = Counted \ {s}
    BY <1>3 DEF Leave, Goto, Counted, Inv, TypeOK
  <2>2. active' = active - 1
    BY Zenon, <1>3 DEF Leave
  <2>. QED  BY Zenon, <2>1, <2>2, FS_RemoveElement DEF ActiveInv
<1>4. UNCHANGED active \/ \E s \in Session : Open(s) \/ Leave(s)
  BY DEF Next, SessionStep, Recv, FindSession, SpawnSession, HandOver, DropEntry, Take,
         Relay, LoopEnds, Remove, vars
<1>. QED  BY Zenon, <1>1, <1>2, <1>3, <1>4

\* active_udp is the number of tasks between its increment and its decrement.
THEOREM ActiveCounts == Spec => []ActiveIsExact
<1>1. Init => ActiveInv
  <2>1. Init => Counted = {} /\ active = 0
    BY DEF Init, Counted
  <2>. QED  BY Zenon, <2>1, FS_EmptySet DEF ActiveInv
<1>2. Inv /\ ActiveInv /\ [Next]_vars => ActiveInv'
  BY Zenon, ActiveStep
<1>3. ActiveInv => ActiveIsExact
  BY DEF ActiveInv, ActiveIsExact, Counted
<1>. QED  BY <1>1, <1>2, <1>3, Invariance, PTL DEF Spec

-----------------------------------------------------------------------------
(***************************************************************************)
(* The UDP proxy inside the transparent proxy.                             *)
(***************************************************************************)

\* Seen from the UDP proxy, a step of the transparent proxy is a step of its own
\* or none: stopping only leaves the inbound task where it is.
THEOREM ProxyRunsUdp == ProxySpec => Spec
<1>1. ProxyInit => Init
  BY DEF ProxyInit
<1>2. [ProxyNext]_proxyVars => [Next]_vars
  BY DEF ProxyNext, proxyVars, InboundReceives, InboundMoves, StreamAccepted, Stop, UdpTask,
         TcpTask, Next
<1>. QED  BY <1>1, <1>2, PTL DEF ProxySpec, Spec

\* The UDP proxy keeps its properties when the proxy stops at any time: types ...
THEOREM ProxyTypes == ProxySpec => []TypeOK
BY ProxyRunsUdp, TypesHold, PTL

\* ... a session removes its own entry and no other ...
THEOREM ProxyTableServes == ProxySpec => []TableIsServing
BY ProxyRunsUdp, TableServes, PTL

\* ... active_udp is exact ...
THEOREM ProxyActiveCounts == ProxySpec => []ActiveIsExact
BY ProxyRunsUdp, ActiveCounts, PTL

\* ... and the datagrams of a pair stay in order.
THEOREM ProxyOrderIsKept == ProxySpec => RelayedInOrder
BY ProxyRunsUdp, OrderIsKept, PTL

-----------------------------------------------------------------------------
\* The connections between the increment and the decrement of active_tcp.
CountedTcp == {t \in Stream : stream[t] \in {"connect", "copy"}}

TcpInv ==
    /\ DOMAIN stream = Stream
    /\ IsFiniteSet(CountedTcp)
    /\ activeTcp = Cardinality(CountedTcp)

LEMMA TcpStep ==
    ASSUME TcpInv, [ProxyNext]_proxyVars
    PROVE  TcpInv'
<1>1. CASE UNCHANGED tcpVars
  BY Zenon, <1>1 DEF TcpInv, CountedTcp, tcpVars
<1>2. ASSUME NEW t \in Stream, AcceptStream(t)
      PROVE  TcpInv'
  <2>1. CountedTcp' = CountedTcp
    BY Zenon, <1>2 DEF AcceptStream, StreamGoto, CountedTcp, TcpInv
  <2>. QED  BY Zenon, <1>2, <2>1 DEF TcpInv, AcceptStream, StreamGoto
<1>3. ASSUME NEW t \in Stream, CountStream(t)
      PROVE  TcpInv'
  <2>1. t \notin CountedTcp /\ CountedTcp' = CountedTcp \cup {t}
    BY Zenon, <1>3 DEF CountStream, StreamGoto, CountedTcp, TcpInv
  <2>2. activeTcp' = activeTcp + 1 /\ DOMAIN stream' = Stream
    BY <1>3 DEF CountStream, StreamGoto, TcpInv
  <2>. QED  BY Zenon, <2>1, <2>2, FS_AddElement DEF TcpInv
<1>4. ASSUME NEW t \in Stream, StreamGoto(t, "connect", "copy"), UNCHANGED activeTcp
      PROVE  TcpInv'
  <2>1. CountedTcp' = CountedTcp
    BY Zenon, <1>4 DEF StreamGoto, CountedTcp, TcpInv
  <2>. QED  BY Zenon, <1>4, <2>1 DEF TcpInv, StreamGoto
<1>5. ASSUME NEW t \in Stream, NEW from \in {"connect", "copy"}, StreamGoto(t, from, "done"),
             activeTcp' = activeTcp - 1
      PROVE  TcpInv'
  <2>1. t \in CountedTcp /\ CountedTcp' = CountedTcp \ {t}
    BY Zenon, <1>5 DEF StreamGoto, CountedTcp, TcpInv
  <2>2. DOMAIN stream' = Stream
    BY Zenon, <1>5 DEF StreamGoto, TcpInv
  <2>. QED  BY Zenon, <1>5, <2>1, <2>2, FS_RemoveElement DEF TcpInv
<1>6. ASSUME NEW t \in Stream, StreamStep(t)
      PROVE  TcpInv'
  BY Zenon, <1>3, <1>4, <1>5, <1>6 DEF StreamStep, ConnectStream, CopyEnds
<1>. QED
  BY Zenon, <1>1, <1>2, <1>6 DEF ProxyNext, proxyVars, InboundReceives, InboundMoves, StreamAccepted,
                          Stop, UdpTask, TcpTask

\* active_tcp is the number of connection tasks between its increment and its
\* decrement, on every path through the task and after the proxy has stopped.
THEOREM TcpActiveCounts == ProxySpec => []TcpActiveIsExact
<1>1. ProxyInit => TcpInv
  <2>1. ProxyInit => CountedTcp = {} /\ activeTcp = 0 /\ DOMAIN stream = Stream
    BY DEF ProxyInit, StreamInit, CountedTcp
  <2>. QED  BY <2>1, FS_EmptySet DEF TcpInv
<1>2. TcpInv /\ [ProxyNext]_proxyVars => TcpInv'
  BY Zenon, TcpStep
<1>3. TcpInv => TcpActiveIsExact
  BY DEF TcpInv, TcpActiveIsExact, CountedTcp
<1>. QED  BY <1>1, <1>2, <1>3, PTL DEF ProxySpec
=============================================================================
