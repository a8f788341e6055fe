------------------------- MODULE DomainCacheProofs -------------------------
(***************************************************************************)
(* Proofs about the domain cache of PacketRouter for any addresses, names  *)
(* and DNS responses: it implements DomainView.                            *)
(***************************************************************************)
EXTENDS PacketRouter, SequenceTheorems, WellFoundedInduction, TLAPS

-----------------------------------------------------------------------------
(***************************************************************************)
(* Least and greatest numbers, induction and recursion.                    *)
(***************************************************************************)

LEMMA NatMin ==
    ASSUME NEW T \in SUBSET Nat, T # {}
    PROVE  \E x \in T : \A y \in T : x <= y
<1>. DEFINE R == OpToRel(<, Nat)
<1>1. R = {ss \in Nat \X Nat : ss[1] < ss[2]}
  BY Zenon DEF OpToRel
<1>2. IsWellFoundedOn(R, Nat)
  BY Zenon, NatLessThanWellFounded
<1>. HIDE DEF R
<1>3. PICK x \in T : \A y \in T : ~(<<y, x>> \in R)
  BY Zenon, <1>2, WFMin
<1>4. \A y \in T : ~(y < x)
  BY Zenon, <1>1, <1>3
<1>. QED  BY <1>4

LEMMA MinIs ==
    ASSUME NEW T \in SUBSET Nat, T # {}
    PROVE  Min(T) \in T /\ \A y \in T : Min(T) <= y
BY Zenon, NatMin DEF Min

LEMMA NatMax ==
    ASSUME NEW n \in Nat, NEW T \in SUBSET (0 .. n), T # {}
    PROVE  \E x \in T : \A y \in T : y <= x
<1>. DEFINE U == {u \in Nat : \A y \in T : y <= u}
<1>1. U \in SUBSET Nat /\ n \in U
  OBVIOUS
<1>2. PICK x \in U : \A u \in U : x <= u
  <2>. HIDE DEF U
  <2>. QED  BY Zenon, <1>1, NatMin
<1>3. x \in T
  <2>1. SUFFICES ASSUME x \notin T PROVE FALSE
    BY Zenon
  <2>2. \A y \in T : y \in Nat /\ y < x
    BY <1>2, <2>1
  <2>3. PICK y \in T : TRUE
    BY Zenon
  <2>4. x \in Nat /\ x - 1 \in Nat /\ ~(x <= x - 1)
    BY <1>2, <2>2, <2>3
  <2>5. \A z \in T : z <= x - 1
    BY <2>2, <2>4
  <2>. QED  BY Zenon, <1>2, <2>4, <2>5
<1>. QED  BY Zenon, <1>2, <1>3

\* A set that has 0, and with a number below n its successor, has all up to n.
LEMMA UpTo ==
    ASSUME NEW n \in Nat, NEW T, 0 \in T, \A i \in 0 .. n - 1 : i \in T => i + 1 \in T
    PROVE  0 .. n \subseteq T
<1>. SUFFICES ASSUME (0 .. n) \ T # {} PROVE FALSE
  BY Zenon
<1>. DEFINE U == (0 .. n) \ T
<1>1. PICK x \in U : \A y \in U : x <= y
  <2>1. U \in SUBSET Nat /\ U # {}
    OBVIOUS
  <2>. QED  BY Zenon, <2>1, NatMin
<1>2. x - 1 \in 0 .. n - 1 /\ x - 1 \in 0 .. n /\ (x - 1) + 1 = x /\ ~(x <= x - 1)
  BY <1>1
<1>. QED  BY Zenon, <1>1, <1>2

\* The values of g from 0 to n are given by the first one, and each by the one
\* before it.
Recurs(g, n, X, x, G) ==
    g \in [0 .. n -> X] /\ g[0] = x /\ \A i \in 1 .. n : g[i] = G[i][g[i - 1]]

LEMMA Recursion ==
    ASSUME NEW X, NEW x \in X, NEW n \in Nat, NEW G \in [1 .. n -> [X -> X]]
    PROVE  \E g : Recurs(g, n, X, x, G)
<1>. DEFINE Good(k, g) == g[0] = x /\ \A i \in 1 .. k : g[i] = G[i][g[i - 1]]
            T == {k \in 0 .. n : \E g \in [0 .. k -> X] : Good(k, g)}
<1>1. 0 \in T
  <2>1. [i \in 0 .. 0 |-> x] \in [0 .. 0 -> X] /\ Good(0, [i \in 0 .. 0 |-> x])
    OBVIOUS
  <2>2. 0 \in 0 .. n
    OBVIOUS
  <2>. QED  BY Zenon, <2>1, <2>2
<1>2. ASSUME NEW k \in 0 .. n - 1, k \in T PROVE k + 1 \in T
  <2>1. PICK g \in [0 .. k -> X] : Good(k, g)
    BY Zenon, <1>2
  <2>. DEFINE h == [i \in 0 .. k + 1 |-> IF i = k + 1 THEN G[k + 1][g[k]] ELSE g[i]]
  <2>2. h \in [0 .. k + 1 -> X]
    <3>1. G[k + 1][g[k]] \in X
      OBVIOUS
    <3>. QED  BY <3>1
  <2>3. h[0] = g[0] /\ h[k + 1] = G[k + 1][g[k]] /\ \A i \in 0 .. k : h[i] = g[i]
    OBVIOUS
  <2>. HIDE DEF h
  <2>4. Good(k + 1, h)
    <3>1. \A i \in 1 .. k + 1 : i = k + 1 \/ i \in 1 .. k
      OBVIOUS
    <3>2. \A i \in 1 .. k : i \in 0 .. k /\ i - 1 \in 0 .. k
      OBVIOUS
    <3>3. (k + 1) - 1 = k /\ k \in 0 .. k
      OBVIOUS
    <3>4. h[0] = x /\ h[k + 1] = G[k + 1][h[k]]
      BY Zenon, <2>1, <2>3, <3>3
    <3>5. \A i \in 1 .. k : h[i] = G[i][h[i - 1]]
      BY Zenon, <2>1, <2>3, <3>2
    <3>6. \A i \in 1 .. k + 1 : h[i] = G[i][h[i - 1]]
      BY Zenon, <3>1, <3>3, <3>4, <3>5
    <3>. QED  BY Zenon, <3>4, <3>6
  <2>5. k + 1 \in 0 .. n
    OBVIOUS
  <2>. QED  BY Zenon, <2>2, <2>4, <2>5
<1>3. n \in T
  <2>1. 0 .. n \subseteq T
    BY Zenon, <1>1, <1>2, UpTo
  <2>. QED  BY <2>1
<1>. QED  BY Zenon, <1>3 DEF Recurs

-----------------------------------------------------------------------------
(***************************************************************************)
(* DomainCache::insert.                                                    *)
(***************************************************************************)

Entry == [domain : Domain, expires : Nat]

\* A list of entries has a name once.
Once(es) == \A i, j \in DOMAIN es : es[i].domain = es[j].domain => i = j

Caches == {c \in [Ip -> Seq(Entry)] : \A ip \in Ip : Once(c[ip])}

\* The cache has the name d for the address, until t.
Has(c, ip, d, t) == \E i \in DOMAIN c[ip] : c[ip][i].domain = d /\ c[ip][i].expires = t

\* The cache u is c, but for a name that has a new expiry, if it is usable.
Inserted(u, c, ip, name, ttl) ==
    \A a \in Ip, d \in Domain, t \in Nat :
        Has(u, a, d, t) <=> IF a = ip /\ d = Normalize(name) /\ ttl # 0 THEN t = clock + ttl
                            ELSE Has(c, a, d, t)

\* u is the list q with the entry e in place of the one of its name, or after
\* all others.
Placed(u, q, e) ==
    /\ u \in Seq(Entry) /\ Once(u)
    /\ \E i \in DOMAIN u : u[i] = e
    /\ \A x \in Entry : x.domain # e.domain =>
          ((\E i \in DOMAIN u : u[i] = x) <=> \E i \in DOMAIN q : q[i] = x)

LEMMA Pushed ==
    ASSUME NEW q \in Seq(Entry), Once(q), NEW e \in Entry, \A i \in DOMAIN q : q[i].domain # e.domain
    PROVE  Placed(Append(q, e), q, e)
<1>. DEFINE u == Append(q, e)
            n == Len(q)
<1>1. /\ n \in Nat /\ DOMAIN q = 1 .. n /\ u \in Seq(Entry) /\ DOMAIN u = 1 .. n + 1
      /\ u[n + 1] = e /\ \A i \in 1 .. n : u[i] = q[i]
  BY AppendProperties, LenProperties
<1>. HIDE DEF u, n
<1>2. \A i \in DOMAIN u : i = n + 1 \/ i \in DOMAIN q
  BY <1>1
<1>3. \A i \in DOMAIN q : i \in DOMAIN u /\ u[i] = q[i]
  BY <1>1
<1>4. n + 1 \in DOMAIN u
  BY <1>1
<1>5. Once(u)
  BY Zenon, <1>1, <1>2, <1>3 DEF Once
<1>6. ASSUME NEW x \in Entry, x.domain # e.domain
      PROVE  (\E i \in DOMAIN u : u[i] = x) <=> \E i \in DOMAIN q : q[i] = x
  BY Zenon, <1>1, <1>2, <1>3, <1>6
<1>. QED  BY Zenon, <1>1, <1>4, <1>5, <1>6 DEF Placed, u

LEMMA Renewed ==
    ASSUME NEW q \in Seq(Entry), Once(q), NEW e \in Entry, NEW k \in DOMAIN q, q[k].domain = e.domain
    PROVE  Placed([q EXCEPT ![k] = e], q, e)
<1>. DEFINE u == [q EXCEPT ![k] = e]
<1>1. /\ u \in Seq(Entry) /\ DOMAIN u = DOMAIN q /\ u[k] = e
      /\ \A i \in DOMAIN q : i # k => u[i] = q[i]
  OBVIOUS
<1>. HIDE DEF u
<1>2. Once(u)
  BY Zenon, <1>1 DEF Once
<1>3. ASSUME NEW x \in Entry, x.domain # e.domain
      PROVE  (\E i \in DOMAIN u : u[i] = x) <=> \E i \in DOMAIN q : q[i] = x
  BY Zenon, <1>1, <1>3
<1>. QED  BY Zenon, <1>1, <1>2, <1>3 DEF Placed, u

\* The lists of a cache have entries.
LEMMA HasEntry ==
    ASSUME NEW q \in Seq(Entry), NEW d \in Domain, NEW t \in Nat
    PROVE  (\E i \in DOMAIN q : q[i].domain = d /\ q[i].expires = t) <=>
               \E i \in DOMAIN q : q[i] = [domain |-> d, expires |-> t]
<1>1. \A i \in DOMAIN q : q[i] \in Entry
  BY Zenon, LenProperties
<1>2. \A x \in Entry : x.domain = d /\ x.expires = t <=> x = [domain |-> d, expires |-> t]
  BY DEF Entry
<1>. QED  BY Zenon, <1>1, <1>2

LEMMA InsertIs ==
    ASSUME clock \in Nat, NEW c \in Caches, NEW ip \in Ip, NEW name \in Name, NEW ttl \in Nat
    PROVE  /\ Insert(c, ip, name, ttl) \in Caches
           /\ Inserted(Insert(c, ip, name, ttl), c, ip, name, ttl)
<1>. DEFINE u == Insert(c, ip, name, ttl)
            d == Normalize(name)
            e == [domain |-> d, expires |-> clock + ttl]
            q == c[ip]
            at == {i \in DOMAIN q : q[i].domain = d}
<1>1. q \in Seq(Entry) /\ Once(q) /\ c \in [Ip -> Seq(Entry)] /\ \A a \in Ip : Once(c[a])
  BY Zenon DEF Caches
<1>D. d # "" => d \in Domain
  BY Zenon DEF Domain
<1>F. clock + ttl \in Nat /\ e.domain = d /\ e.expires = clock + ttl
  OBVIOUS
<1>E. d # "" => e \in Entry
  <2>. HIDE DEF d
  <2>. QED  BY Zenon, <1>D, <1>F DEF Entry
<1>2. CASE ttl = 0 \/ d = ""
  <2>1. u = c
    BY Zenon, <1>2 DEF Insert
  <2>2. \A x \in Domain : x # ""
    BY Zenon DEF Domain
  <2>. HIDE DEF u, d
  <2>. QED  BY Zenon, <1>2, <2>1, <2>2 DEF Inserted, u, d
<1>3. ASSUME ~(ttl = 0 \/ d = ""), NEW w, u = [c EXCEPT ![ip] = w], Placed(w, q, e)
      PROVE  u \in Caches /\ Inserted(u, c, ip, name, ttl)
  <2>1. ttl # 0 /\ d \in Domain /\ e \in Entry /\ clock + ttl \in Nat
    BY Zenon, <1>3, <1>D, <1>F, <1>E
  <2>2. e.domain = d /\ e.expires = clock + ttl
    BY Zenon, <1>F
  <2>3. w \in Seq(Entry) /\ Once(w)
    BY Zenon, <1>3 DEF Placed
  <2>. HIDE DEF u, e
  <2>4. u \in [Ip -> Seq(Entry)] /\ u[ip] = w /\ \A a \in Ip : a # ip => u[a] = c[a]
    BY Zenon, <1>1, <1>3, <2>3
  <2>5. u \in Caches
    BY Zenon, <1>1, <2>3, <2>4 DEF Caches
  <2>6. ASSUME NEW a \in Ip, NEW x \in Domain, NEW t \in Nat, a = ip, x = d
        PROVE  Has(u, a, x, t) <=> t = clock + ttl
    <3>1. PICK i \in DOMAIN w : w[i] = e
      BY Zenon, <1>3 DEF Placed
    <3>2. t = clock + ttl => Has(u, a, x, t)
      BY Zenon, <2>2, <2>4, <2>6, <3>1 DEF Has
    <3>3. ASSUME Has(u, a, x, t) PROVE t = clock + ttl
      <4>1. PICK j \in DOMAIN w : w[j].domain = d /\ w[j].expires = t
        BY Zenon, <2>4, <2>6, <3>3 DEF Has
      <4>2. i = j
        BY Zenon, <2>2, <2>3, <3>1, <4>1 DEF Once
      <4>. QED  BY Zenon, <2>2, <3>1, <4>1, <4>2
    <3>. QED  BY Zenon, <3>2, <3>3
  <2>7. ASSUME NEW a \in Ip, NEW x \in Domain, NEW t \in Nat, a = ip, x # d
        PROVE  Has(u, a, x, t) <=> Has(c, a, x, t)
    <3>. DEFINE y == [domain |-> x, expires |-> t]
    <3>1. y \in Entry /\ y.domain # e.domain
      BY Zenon, <2>2, <2>7 DEF Entry
    <3>2. (\E i \in DOMAIN w : w[i] = y) <=> \E i \in DOMAIN q : q[i] = y
      BY Zenon, <1>3, <3>1 DEF Placed
    <3>3. (\E i \in DOMAIN w : w[i].domain = x /\ w[i].expires = t) <=> \E i \in DOMAIN w : w[i] = y
      BY <2>3, HasEntry
    <3>4. (\E i \in DOMAIN q : q[i].domain = x /\ q[i].expires = t) <=> \E i \in DOMAIN q : q[i] = y
      BY SMTT(30), <1>1, HasEntry
    <3>. QED  BY Zenon, <2>4, <2>7, <3>2, <3>3, <3>4 DEF Has
  <2>8. ASSUME NEW a \in Ip, NEW x \in Domain, NEW t \in Nat, a # ip
        PROVE  Has(u, a, x, t) <=> Has(c, a, x, t)
    BY Zenon, <2>4, <2>8 DEF Has
  <2>9. Inserted(u, c, ip, name, ttl)
    <3>. SUFFICES ASSUME NEW a \in Ip, NEW x \in Domain, NEW t \in Nat
                  PROVE  Has(u, a, x, t) <=> IF a = ip /\ x = d /\ ttl # 0 THEN t = clock + ttl
                                             ELSE Has(c, a, x, t)
      BY Zenon DEF Inserted
    <3>. QED  BY Zenon, <2>1, <2>6, <2>7, <2>8
  <2>. QED  BY Zenon, <2>5, <2>9
<1>4. CASE ~(ttl = 0 \/ d = "") /\ at = {}
  <2>1. u = [c EXCEPT ![ip] = Append(q, e)]
    BY Zenon, <1>4 DEF Insert
  <2>2. e \in Entry /\ \A i \in DOMAIN q : q[i].domain # e.domain
    BY Zenon, <1>4, <1>F, <1>E
  <2>3. Placed(Append(q, e), q, e)
    BY Zenon, <1>1, <2>2, Pushed
  <2>4. u \in Caches /\ Inserted(u, c, ip, name, ttl)
    <3>. HIDE DEF u, e, d, q
    <3>. QED  BY Zenon, <1>3, <1>4, <2>1, <2>3
  <2>. QED  BY Zenon, <2>4
<1>5. CASE ~(ttl = 0 \/ d = "") /\ at # {}
  <2>1. u = [c EXCEPT ![ip] = [q EXCEPT ![Min(at)] = e]]
    BY Zenon, <1>5 DEF Insert
  <2>2. Min(at) \in at
    <3>1. at \in SUBSET Nat
      BY <1>1, LenProperties
    <3>. HIDE DEF at
    <3>. QED  BY Zenon, <1>5, <3>1, MinIs
  <2>3. e \in Entry /\ Min(at) \in DOMAIN q /\ q[Min(at)].domain = e.domain
    <3>1. e \in Entry /\ e.domain = d
      BY Zenon, <1>5, <1>F, <1>E
    <3>. QED  BY Zenon, <2>2, <3>1
  <2>4. Placed([q EXCEPT ![Min(at)] = e], q, e)
    BY Zenon, <1>1, <2>3, Renewed
  <2>5. u \in Caches /\ Inserted(u, c, ip, name, ttl)
    <3>. HIDE DEF u, e, d, q, at
    <3>. QED  BY Zenon, <1>3, <1>5, <2>1, <2>4
  <2>. QED  BY Zenon, <2>5
<1>. QED  BY Zenon, <1>2, <1>4, <1>5

-----------------------------------------------------------------------------
(***************************************************************************)
(* DomainCache::lookup retains the entries that have not expired.          *)
(***************************************************************************)

\* The list u has the first i entries of es that have not expired, and no other.
Keeps(u, es, i) ==
    /\ u \in Seq(Entry) /\ Once(u)
    /\ \A x : (\E j \in DOMAIN u : u[j] = x) <=>
              \E l \in 1 .. i : es[l] = x /\ es[l].expires > clock

\* The entry i of es after the list u.
Kept(es, i, u) == IF es[i].expires > clock THEN Append(u, es[i]) ELSE u

LEMMA KeepNext ==
    ASSUME NEW es \in Seq(Entry), Once(es), NEW i \in 0 .. Len(es) - 1,
           NEW u, Keeps(u, es, i)
    PROVE  Keeps(Kept(es, i + 1, u), es, i + 1)
<1>. DEFINE e == es[i + 1]
<1>1. /\ u \in Seq(Entry) /\ Once(u)
      /\ \A x : (\E j \in DOMAIN u : u[j] = x) <=>
                \E l \in 1 .. i : es[l] = x /\ es[l].expires > clock
  BY Zenon DEF Keeps
<1>2. /\ e \in Entry /\ i + 1 \in DOMAIN es /\ i + 1 \in 1 .. i + 1
      /\ \A l \in 1 .. i : l \in DOMAIN es /\ l # i + 1 /\ l \in 1 .. i + 1
      /\ \A l \in 1 .. i + 1 : l \in 1 .. i \/ l = i + 1
  BY LenProperties
<1>3. CASE e.expires > clock
  <2>1. Kept(es, i + 1, u) = Append(u, e)
    BY Zenon, <1>3 DEF Kept
  <2>2. \A j \in DOMAIN u : u[j].domain # e.domain
    <3>. SUFFICES ASSUME NEW j \in DOMAIN u, u[j].domain = e.domain PROVE FALSE
      BY Zenon
    <3>1. PICK l \in 1 .. i : es[l] = u[j]
      BY Zenon, <1>1
    <3>. QED  BY Zenon, <1>2, <3>1 DEF Once
  <2>3. Placed(Append(u, e), u, e)
    BY Zenon, <1>1, <1>2, <2>2, Pushed
  <2>. DEFINE w == Append(u, e)
              n == Len(u)
  <2>4. /\ n \in Nat /\ DOMAIN u = 1 .. n /\ DOMAIN w = 1 .. n + 1
        /\ w[n + 1] = e /\ \A j \in 1 .. n : w[j] = u[j]
    BY SMTT(30), <1>1, <1>2, AppendProperties, LenProperties
  <2>. HIDE DEF w, n
  <2>5. /\ n + 1 \in DOMAIN w
        /\ \A j \in DOMAIN u : j \in DOMAIN w /\ w[j] = u[j]
        /\ \A j \in DOMAIN w : j = n + 1 \/ j \in DOMAIN u
    BY <2>4
  <2>6. ASSUME NEW x
        PROVE  (\E j \in DOMAIN w : w[j] = x) <=> (\E j \in DOMAIN u : u[j] = x) \/ x = e
    BY Zenon, <2>4, <2>5
  <2>7. ASSUME NEW x
        PROVE  (\E l \in 1 .. i + 1 : es[l] = x /\ es[l].expires > clock) <=>
                  (\E l \in 1 .. i : es[l] = x /\ es[l].expires > clock) \/ x = e
    <3>. HIDE DEF n
    <3>. QED  BY Zenon, <1>2, <1>3
  <2>8. w \in Seq(Entry) /\ Once(w)
    BY Zenon, <2>3 DEF Placed, w
  <2>9. Keeps(w, es, i + 1)
    BY Zenon, <1>1, <2>6, <2>7, <2>8 DEF Keeps
  <2>. QED  BY Zenon, <2>1, <2>9 DEF w
<1>4. CASE ~(e.expires > clock)
  <2>1. Kept(es, i + 1, u) = u
    BY Zenon, <1>4 DEF Kept
  <2>2. ASSUME NEW x
        PROVE  (\E l \in 1 .. i + 1 : es[l] = x /\ es[l].expires > clock) <=>
                  (\E l \in 1 .. i : es[l] = x /\ es[l].expires > clock)
    BY Zenon, <1>2, <1>4
  <2>. QED  BY Zenon, <1>1, <2>1, <2>2 DEF Keeps
<1>. QED  BY Zenon, <1>3, <1>4

LEMMA RetainedIs ==
    ASSUME NEW ip, entries[ip] \in Seq(Entry), Once(entries[ip])
    PROVE  Keeps(Retained(ip), entries[ip], Len(entries[ip]))
<1>. DEFINE es == entries[ip]
            n == Len(es)
            G == [i \in 1 .. n |-> [u \in Seq(Entry) |-> Kept(es, i, u)]]
            Is(g) == g = [i \in 0 .. n |-> IF i = 0 THEN <<>>
                                           ELSE IF es[i].expires > clock THEN Append(g[i - 1], es[i])
                                           ELSE g[i - 1]]
            e == CHOOSE g : Is(g)
<1>1. n \in Nat /\ DOMAIN es = 1 .. n /\ \A i \in 1 .. n : es[i] \in Entry
  BY Zenon, LenProperties
<1>2. Retained(ip) = e[n]
  BY Zenon DEF Retained
<1>. HIDE DEF es, n
<1>3. G \in [1 .. n -> [Seq(Entry) -> Seq(Entry)]]
  <2>1. \A i \in 1 .. n, u \in Seq(Entry) : Kept(es, i, u) \in Seq(Entry)
    BY Zenon, <1>1, AppendProperties DEF Kept
  <2>. QED  BY Zenon, <2>1
<1>4. <<>> \in Seq(Entry)
  BY Zenon, EmptySeq
<1>5. PICK g : Recurs(g, n, Seq(Entry), <<>>, G)
  <2>. HIDE DEF G
  <2>. QED  BY Zenon, <1>1, <1>3, <1>4, Recursion
<1>6. /\ g \in [0 .. n -> Seq(Entry)] /\ g[0] = <<>>
      /\ \A i \in 1 .. n : g[i] = Kept(es, i, g[i - 1])
  <2>1. g \in [0 .. n -> Seq(Entry)] /\ g[0] = <<>> /\ \A i \in 1 .. n : g[i] = G[i][g[i - 1]]
    <3>. HIDE DEF G
    <3>. QED  BY Zenon, <1>5 DEF Recurs
  <2>2. \A i \in 1 .. n : g[i - 1] \in Seq(Entry)
    BY <1>1, <2>1
  <2>3. \A i \in 1 .. n : G[i][g[i - 1]] = Kept(es, i, g[i - 1])
    BY Zenon, <2>2
  <2>. QED  BY Zenon, <2>1, <2>3
<1>7. Is(g)
  <2>1. \A i \in 0 .. n : i = 0 \/ i \in 1 .. n
    BY <1>1
  <2>2. \A i \in 1 .. n : i # 0
    OBVIOUS
  <2>3. \A i \in 0 .. n : g[i] = IF i = 0 THEN <<>>
                                 ELSE IF es[i].expires > clock THEN Append(g[i - 1], es[i])
                                 ELSE g[i - 1]
    BY Zenon, <1>6, <2>1, <2>2 DEF Kept
  <2>. QED  BY Zenon, <1>6, <2>3
<1>8. Is(e)
  BY Zenon, <1>7
<1>. HIDE DEF e, G
<1>9. e[0] = <<>> /\ \A i \in 1 .. n : e[i] = Kept(es, i, e[i - 1])
  <2>1. 0 \in 0 .. n /\ \A i \in 1 .. n : i \in 0 .. n /\ i # 0
    BY <1>1
  <2>. QED  BY Zenon, <1>8, <2>1 DEF Kept
<1>. HIDE DEF Is
<1>. DEFINE T == {i \in 0 .. n : Keeps(e[i], es, i)}
<1>10. 0 \in T
  <2>1. <<>> \in Seq(Entry) /\ DOMAIN <<>> = {} /\ 1 .. 0 = {}
    BY <1>4
  <2>2. 0 \in 0 .. n
    BY <1>1
  <2>3. Keeps(<<>>, es, 0)
    BY Zenon, <2>1 DEF Keeps, Once
  <2>. QED  BY Zenon, <1>9, <2>2, <2>3
<1>11. ASSUME NEW i \in 0 .. n - 1, i \in T PROVE i + 1 \in T
  <2>1. i + 1 \in 0 .. n /\ i + 1 \in 1 .. n /\ (i + 1) - 1 = i
    BY <1>1
  <2>2. e[i + 1] = Kept(es, i + 1, e[i])
    BY Zenon, <1>9, <2>1
  <2>3. Keeps(Kept(es, i + 1, e[i]), es, i + 1)
    <3>1. es \in Seq(Entry) /\ Once(es) /\ Keeps(e[i], es, i) /\ i \in 0 .. Len(es) - 1
      BY Zenon, <1>11 DEF es, n
    <3>. QED  BY Zenon, <3>1, KeepNext
  <2>. QED  BY Zenon, <2>1, <2>2, <2>3
<1>12. n \in T
  <2>1. 0 .. n \subseteq T
    <3>. HIDE DEF T
    <3>. QED  BY Zenon, <1>1, <1>10, <1>11, UpTo
  <2>2. n \in 0 .. n
    BY <1>1
  <2>. QED  BY Zenon, <2>1, <2>2
<1>. QED  BY Zenon, <1>2, <1>12 DEF es, n

-----------------------------------------------------------------------------
(***************************************************************************)
(* DomainCache::observe_packet leaves, for each address and name, the      *)
(* expiry of the last answer that has one.                                 *)
(***************************************************************************)

\* The record i of a response, applied to the cache c.
Seen(as, i, c) == IF as[i].type = "A" THEN Insert(c, as[i].ip, as[i].name, as[i].ttl) ELSE c

\* Those of the first j records that give the address the name.
Told(as, j, ip, d) ==
    {i \in 1 .. j : /\ as[i].type = "A" /\ as[i].ip = ip
                    /\ Normalize(as[i].name) = d /\ as[i].ttl # 0}

\* i is the last of them.
Latest(as, j, ip, d, i) ==
    i \in Told(as, j, ip, d) /\ \A l \in Told(as, j, ip, d) : l <= i

\* What a cache has after the first j records.
Learnt(c, as, j) ==
    /\ c \in Caches
    /\ \A ip \in Ip, d \in Domain, t \in Nat :
          Has(c, ip, d, t) <=> IF Told(as, j, ip, d) = {} THEN Has(entries, ip, d, t)
                               ELSE \E i : Latest(as, j, ip, d, i) /\ t = clock + as[i].ttl

\* The record j + 1 is the latest, if it gives the address the name.
OneMore(as, j, ip, d) ==
    LET told == as[j + 1].type = "A" /\ as[j + 1].ip = ip
                /\ Normalize(as[j + 1].name) = d /\ as[j + 1].ttl # 0
    IN  /\ ~told => Told(as, j + 1, ip, d) = Told(as, j, ip, d)
        /\ told => /\ Told(as, j + 1, ip, d) # {}
                   /\ \A i : Latest(as, j + 1, ip, d, i) <=> i = j + 1

LEMMA ToldNext ==
    ASSUME NEW as, NEW j \in Nat, NEW ip, NEW d
    PROVE  OneMore(as, j, ip, d)
<1>1. /\ j + 1 \in 1 .. j + 1 /\ \A l \in 1 .. j : l \in 1 .. j + 1
      /\ \A l \in 1 .. j + 1 : l \in 1 .. j \/ l = j + 1
  OBVIOUS
<1>2. /\ \A l \in 1 .. j + 1 : l <= j + 1
      /\ \A l \in 1 .. j + 1 : j + 1 <= l => l = j + 1
  OBVIOUS
<1>. QED  BY Zenon, <1>1, <1>2 DEF Told, Latest, OneMore

LEMMA SeenNext ==
    ASSUME clock \in Nat, NEW as \in Seq(Answer), NEW j \in 0 .. Len(as) - 1,
           NEW c, Learnt(c, as, j)
    PROVE  Learnt(Seen(as, j + 1, c), as, j + 1)
<1>. DEFINE r == as[j + 1]
            u == Seen(as, j + 1, c)
<1>1. r \in Answer /\ j \in Nat
  <2>1. Len(as) \in Nat /\ as \in [1 .. Len(as) -> Answer]
    BY Zenon, LenProperties
  <2>2. j \in Nat /\ j + 1 \in 1 .. Len(as)
    <3>. DEFINE n == Len(as)
    <3>1. n \in Nat /\ j \in 0 .. n - 1
      BY Zenon, <2>1
    <3>2. j + 1 \in 1 .. n /\ j \in Nat
      <4>. HIDE DEF n
      <4>. QED  BY <3>1
    <3>. QED  BY Zenon, <3>2
  <2>. QED  BY Zenon, <2>1, <2>2
<1>2. r.ip \in Ip /\ r.name \in Name /\ r.ttl \in Nat
  BY Zenon, <1>1 DEF Answer
<1>3. c \in Caches
  BY Zenon DEF Learnt
<1>. HIDE DEF r, u
<1>4. u \in Caches
  BY Zenon, <1>2, <1>3, InsertIs DEF Seen, r, u
<1>5. ASSUME NEW ip \in Ip, NEW d \in Domain, NEW t \in Nat
      PROVE  Has(u, ip, d, t) <=> IF r.type = "A" /\ r.ip = ip /\ Normalize(r.name) = d /\ r.ttl # 0
                                  THEN t = clock + r.ttl ELSE Has(c, ip, d, t)
  <2>1. CASE r.type = "A"
    <3>1. u = Insert(c, r.ip, r.name, r.ttl)
      BY Zenon, <2>1 DEF Seen, r, u
    <3>2. Inserted(u, c, r.ip, r.name, r.ttl)
      BY Zenon, <1>2, <1>3, <3>1, InsertIs
    <3>3. Has(u, ip, d, t) <=> IF ip = r.ip /\ d = Normalize(r.name) /\ r.ttl # 0 THEN t = clock + r.ttl
                               ELSE Has(c, ip, d, t)
      BY Zenon, <3>2 DEF Inserted
    <3>. QED  BY Zenon, <2>1, <3>3
  <2>2. CASE r.type # "A"
    <3>1. u = c
      BY Zenon, <2>2 DEF Seen, r, u
    <3>. QED  BY Zenon, <2>2, <3>1
  <2>. QED  BY Zenon, <2>1, <2>2
<1>6. ASSUME NEW ip \in Ip, NEW d \in Domain, NEW t \in Nat
      PROVE  Has(u, ip, d, t) <=>
                IF Told(as, j + 1, ip, d) = {} THEN Has(entries, ip, d, t)
                ELSE \E i : Latest(as, j + 1, ip, d, i) /\ t = clock + as[i].ttl
  <2>. DEFINE told == r.type = "A" /\ r.ip = ip /\ Normalize(r.name) = d /\ r.ttl # 0
  <2>0. OneMore(as, j, ip, d)
    BY Zenon, <1>1, ToldNext
  <2>1. CASE told
    <3>1. Told(as, j + 1, ip, d) # {} /\ \A i : Latest(as, j + 1, ip, d, i) <=> i = j + 1
      BY Zenon, <1>1, <2>1, <2>0 DEF r, OneMore
    <3>2. Has(u, ip, d, t) <=> t = clock + r.ttl
      BY Zenon, <1>5, <2>1
    <3>. QED  BY Zenon, <3>1, <3>2 DEF r
  <2>2. CASE ~told
    <3>1. Told(as, j + 1, ip, d) = Told(as, j, ip, d)
      BY Zenon, <1>1, <2>2, <2>0 DEF r, OneMore
    <3>2. Has(u, ip, d, t) <=> Has(c, ip, d, t)
      BY Zenon, <1>5, <2>2
    <3>3. \A i : Latest(as, j + 1, ip, d, i) <=> Latest(as, j, ip, d, i)
      BY Zenon, <3>1 DEF Latest
    <3>4. Has(c, ip, d, t) <=> IF Told(as, j, ip, d) = {} THEN Has(entries, ip, d, t)
                               ELSE \E i : Latest(as, j, ip, d, i) /\ t = clock + as[i].ttl
      BY Zenon DEF Learnt
    <3>. HIDE DEF told
    <3>. QED  BY Zenon, <3>1, <3>2, <3>3, <3>4
  <2>. QED  BY Zenon, <2>1, <2>2
<1>. QED  BY Zenon, <1>4, <1>6 DEF Learnt, u

LEMMA ObservedIs ==
    ASSUME clock \in Nat, entries \in Caches, NEW as \in Seq(Answer)
    PROVE  Learnt(Observed(as), as, Len(as))
<1>. DEFINE n == Len(as)
            G == [i \in 1 .. n |-> [c \in Caches |-> Seen(as, i, c)]]
            Is(g) == g = [i \in 0 .. n |->
                            IF i = 0 THEN entries
                            ELSE IF as[i].type = "A" THEN Insert(g[i - 1], as[i].ip, as[i].name, as[i].ttl)
                            ELSE g[i - 1]]
            e == CHOOSE g : Is(g)
<1>1. n \in Nat /\ DOMAIN as = 1 .. n /\ \A i \in 1 .. n : as[i] \in Answer
  BY Zenon, LenProperties
<1>2. Observed(as) = e[n]
  BY Zenon DEF Observed
<1>. HIDE DEF n
<1>3. G \in [1 .. n -> [Caches -> Caches]]
  <2>1. \A i \in 1 .. n : as[i].ip \in Ip /\ as[i].name \in Name /\ as[i].ttl \in Nat
    BY Zenon, <1>1 DEF Answer
  <2>2. \A i \in 1 .. n, c \in Caches : Seen(as, i, c) \in Caches
    BY Zenon, <2>1, InsertIs DEF Seen
  <2>. QED  BY Zenon, <2>2
<1>5. PICK g : Recurs(g, n, Caches, entries, G)
  <2>. HIDE DEF G
  <2>. QED  BY Zenon, <1>1, <1>3, Recursion
<1>6. /\ g \in [0 .. n -> Caches] /\ g[0] = entries
      /\ \A i \in 1 .. n : g[i] = Seen(as, i, g[i - 1])
  <2>1. g \in [0 .. n -> Caches] /\ g[0] = entries /\ \A i \in 1 .. n : g[i] = G[i][g[i - 1]]
    <3>. HIDE DEF G
    <3>. QED  BY Zenon, <1>5 DEF Recurs
  <2>2. \A i \in 1 .. n : g[i - 1] \in Caches
    BY <1>1, <2>1
  <2>3. \A i \in 1 .. n : G[i][g[i - 1]] = Seen(as, i, g[i - 1])
    BY Zenon, <2>2
  <2>. QED  BY Zenon, <2>1, <2>3
<1>7. Is(g)
  <2>1. \A i \in 0 .. n : i = 0 \/ i \in 1 .. n
    BY <1>1
  <2>2. \A i \in 1 .. n : i # 0
    OBVIOUS
  <2>3. \A i \in 0 .. n : g[i] = IF i = 0 THEN entries
                                 ELSE IF as[i].type = "A"
                                 THEN Insert(g[i - 1], as[i].ip, as[i].name, as[i].ttl)
                                 ELSE g[i - 1]
    BY Zenon, <1>6, <2>1, <2>2 DEF Seen
  <2>. QED  BY Zenon, <1>6, <2>3
<1>8. Is(e)
  BY Zenon, <1>7
<1>. HIDE DEF e, G
<1>9. e[0] = entries /\ \A i \in 1 .. n : e[i] = Seen(as, i, e[i - 1])
  <2>1. 0 \in 0 .. n /\ \A i \in 1 .. n : i \in 0 .. n /\ i # 0
    BY <1>1
  <2>. QED  BY Zenon, <1>8, <2>1 DEF Seen
<1>. HIDE DEF Is
<1>. DEFINE T == {i \in 0 .. n : Learnt(e[i], as, i)}
<1>10. 0 \in T
  <2>1. 1 .. 0 = {} /\ 0 \in 0 .. n
    BY <1>1
  <2>2. \A ip, d : Told(as, 0, ip, d) = {}
    BY Zenon, <2>1 DEF Told
  <2>3. Learnt(entries, as, 0)
    BY Zenon, <2>2 DEF Learnt
  <2>. QED  BY Zenon, <1>9, <2>1, <2>3
<1>11. ASSUME NEW i \in 0 .. n - 1, i \in T PROVE i + 1 \in T
  <2>1. i + 1 \in 0 .. n /\ i + 1 \in 1 .. n /\ (i + 1) - 1 = i
    BY <1>1
  <2>2. e[i + 1] = Seen(as, i + 1, e[i])
    BY Zenon, <1>9, <2>1
  <2>3. Learnt(Seen(as, i + 1, e[i]), as, i + 1)
    <3>1. Learnt(e[i], as, i) /\ i \in 0 .. Len(as) - 1
      BY Zenon, <1>11 DEF n
    <3>. QED  BY Zenon, <3>1, SeenNext
  <2>. QED  BY Zenon, <2>1, <2>2, <2>3
<1>12. n \in T
  <2>1. 0 .. n \subseteq T
    <3>. HIDE DEF T
    <3>. QED  BY Zenon, <1>1, <1>10, <1>11, UpTo
  <2>2. n \in 0 .. n
    BY <1>1
  <2>. QED  BY Zenon, <2>1, <2>2
<1>. QED  BY Zenon, <1>2, <1>12 DEF n

-----------------------------------------------------------------------------
(***************************************************************************)
(* The cache implements DomainView.                                        *)
(***************************************************************************)

Knowledge == [ip : Ip, domain : Domain, until : Nat]

\* What a cache has that has not expired.
Held(c, now) == {k \in Knowledge : k.until > now /\ Has(c, k.ip, k.domain, k.until)}

KnownOf(c, now) ==
    UNION {{[ip |-> ip, domain |-> c[ip][i].domain, until |-> c[ip][i].expires] :
                i \in {j \in DOMAIN c[ip] : c[ip][j].expires > now}} : ip \in Ip}

LEMMA KnownHeld ==
    ASSUME NEW c \in Caches, NEW now
    PROVE  KnownOf(c, now) = Held(c, now)
<1>1. \A ip \in Ip : \A i \in DOMAIN c[ip] : c[ip][i] \in Entry
  BY Zenon, LenProperties DEF Caches
<1>2. \A x \in Entry : x.domain \in Domain /\ x.expires \in Nat
  BY Zenon DEF Entry
<1>3. ASSUME NEW k \in KnownOf(c, now) PROVE k \in Held(c, now)
  <2>0. PICK ip \in Ip : \E i \in DOMAIN c[ip] :
            /\ c[ip][i].expires > now
            /\ k = [ip |-> ip, domain |-> c[ip][i].domain, until |-> c[ip][i].expires]
    BY Zenon, <1>3 DEF KnownOf
  <2>1. PICK i \in DOMAIN c[ip] :
            /\ c[ip][i].expires > now
            /\ k = [ip |-> ip, domain |-> c[ip][i].domain, until |-> c[ip][i].expires]
    BY Zenon, <2>0
  <2>. DEFINE d == c[ip][i].domain
              t == c[ip][i].expires
  <2>2. d \in Domain /\ t \in Nat /\ Has(c, ip, d, t)
    BY Zenon, <1>1, <1>2 DEF Has
  <2>3. k = [ip |-> ip, domain |-> d, until |-> t] /\ t > now
    BY Zenon, <2>1
  <2>. HIDE DEF d, t
  <2>4. k \in Knowledge /\ k.ip = ip /\ k.domain = d /\ k.until = t
    BY Zenon, <2>2, <2>3 DEF Knowledge
  <2>. QED  BY Zenon, <2>2, <2>3, <2>4 DEF Held
<1>4. ASSUME NEW k \in Held(c, now) PROVE k \in KnownOf(c, now)
  <2>1. k \in Knowledge /\ k.until > now /\ Has(c, k.ip, k.domain, k.until)
    BY Zenon, <1>4 DEF Held
  <2>2. PICK i \in DOMAIN c[k.ip] : c[k.ip][i].domain = k.domain /\ c[k.ip][i].expires = k.until
    BY Zenon, <2>1 DEF Has
  <2>3. k.ip \in Ip /\ k = [ip |-> k.ip, domain |-> k.domain, until |-> k.until]
    BY Zenon, <2>1 DEF Knowledge
  <2>4. i \in {j \in DOMAIN c[k.ip] : c[k.ip][j].expires > now}
    BY Zenon, <2>1, <2>2
  <2>5. k = [ip |-> k.ip, domain |-> c[k.ip][i].domain, until |-> c[k.ip][i].expires]
    BY Zenon, <2>2, <2>3
  <2>6. k \in {[ip |-> k.ip, domain |-> c[k.ip][l].domain, until |-> c[k.ip][l].expires] :
                   l \in {j \in DOMAIN c[k.ip] : c[k.ip][j].expires > now}}
    BY Zenon, <2>4, <2>5
  <2>. QED  BY Zenon, <2>3, <2>6 DEF KnownOf
<1>. QED  BY Zenon, <1>3, <1>4

\* The names that hold for an address are those lookup retains.
LEMMA HeldRetained ==
    ASSUME entries \in Caches, NEW ip \in Ip
    PROVE  /\ [entries EXCEPT ![ip] = Retained(ip)] \in Caches
           /\ Held([entries EXCEPT ![ip] = Retained(ip)], clock) = Held(entries, clock)
           /\ ToSet(Names(Retained(ip))) = {k.domain : k \in {x \in Held(entries, clock) : x.ip = ip}}
<1>. DEFINE es == entries[ip]
            n == Len(es)
            w == Retained(ip)
            u == [entries EXCEPT ![ip] = w]
<1>1. entries \in [Ip -> Seq(Entry)] /\ es \in Seq(Entry) /\ Once(es) /\ \A a \in Ip : Once(entries[a])
  BY Zenon DEF Caches
<1>2. Keeps(w, es, n)
  BY Zenon, <1>1, RetainedIs
<1>3. n \in Nat /\ DOMAIN es = 1 .. n /\ \A i \in 1 .. n : es[i] \in Entry
  BY Zenon, <1>1, LenProperties
<1>. HIDE DEF w, n
<1>4. /\ w \in Seq(Entry) /\ Once(w)
      /\ \A j \in DOMAIN w : \E l \in 1 .. n : es[l] = w[j] /\ es[l].expires > clock
      /\ \A l \in 1 .. n : es[l].expires > clock => \E j \in DOMAIN w : w[j] = es[l]
  BY Zenon, <1>2 DEF Keeps
<1>5. u \in [Ip -> Seq(Entry)] /\ u[ip] = w /\ \A a \in Ip : a # ip => u[a] = entries[a]
  BY Zenon, <1>1, <1>4
<1>6. u \in Caches
  <2>. HIDE DEF u
  <2>. QED  BY Zenon, <1>1, <1>4, <1>5 DEF Caches
<1>7. ASSUME NEW d, NEW t, t > clock
      PROVE  Has(u, ip, d, t) <=> Has(entries, ip, d, t)
  <2>. HIDE DEF u
  <2>1. ASSUME NEW j \in DOMAIN w, w[j].domain = d, w[j].expires = t
        PROVE  \E l \in 1 .. n : es[l].domain = d /\ es[l].expires = t
    BY Zenon, <1>4, <2>1
  <2>2. ASSUME NEW l \in 1 .. n, es[l].domain = d, es[l].expires = t
        PROVE  \E j \in DOMAIN w : w[j].domain = d /\ w[j].expires = t
    BY Zenon, <1>4, <1>7, <2>2
  <2>. QED  BY Zenon, <1>3, <1>5, <2>1, <2>2 DEF Has
<1>8. \A a \in Ip : \A d, t : a # ip => (Has(u, a, d, t) <=> Has(entries, a, d, t))
  <2>. HIDE DEF u
  <2>. QED  BY Zenon, <1>5 DEF Has
<1>9. Held(u, clock) = Held(entries, clock)
  <2>1. \A k \in Knowledge : k.ip \in Ip
    BY Zenon DEF Knowledge
  <2>2. ASSUME NEW k \in Knowledge, k.until > clock
        PROVE  Has(u, k.ip, k.domain, k.until) <=> Has(entries, k.ip, k.domain, k.until)
    <3>. HIDE DEF u
    <3>1. CASE k.ip = ip
      BY Zenon, <1>7, <2>2, <3>1
    <3>2. CASE k.ip # ip
      BY Zenon, <1>8, <2>1, <3>2
    <3>. QED  BY Zenon, <3>1, <3>2
  <2>. HIDE DEF u
  <2>. QED  BY Zenon, <2>2 DEF Held
<1>10. ToSet(Names(w)) = {k.domain : k \in {x \in Held(entries, clock) : x.ip = ip}}
  <2>. DEFINE N == {k.domain : k \in {x \in Held(entries, clock) : x.ip = ip}}
  <2>1. ToSet(Names(w)) = {w[i].domain : i \in DOMAIN w}
    BY Zenon DEF ToSet, Names
  <2>2. ASSUME NEW j \in DOMAIN w PROVE w[j].domain \in N
    <3>1. PICK l \in 1 .. n : es[l] = w[j] /\ es[l].expires > clock
      BY Zenon, <1>2 DEF Keeps
    <3>. DEFINE d == es[l].domain
                t == es[l].expires
    <3>2. d \in Domain /\ t \in Nat
      BY Zenon, <1>3 DEF Entry
    <3>3. Has(entries, ip, d, t) /\ t > clock
      BY Zenon, <1>3, <3>1 DEF Has
    <3>4. w[j].domain = d
      BY Zenon, <3>1
    <3>. HIDE DEF d, t
    <3>. DEFINE k == [ip |-> ip, domain |-> d, until |-> t]
    <3>5. k \in Knowledge /\ k.ip = ip /\ k.domain = d /\ k.until = t
      BY Zenon, <3>2 DEF Knowledge
    <3>. HIDE DEF k
    <3>. QED  BY Zenon, <3>3, <3>4, <3>5 DEF Held
  <2>3. ASSUME NEW x \in Held(entries, clock), x.ip = ip PROVE \E j \in DOMAIN w : w[j].domain = x.domain
    <3>1. x.until > clock /\ Has(entries, ip, x.domain, x.until)
      BY Zenon, <2>3 DEF Held
    <3>2. PICK l \in 1 .. n : es[l].domain = x.domain /\ es[l].expires = x.until
      BY Zenon, <1>3, <3>1 DEF Has
    <3>3. PICK j \in DOMAIN w : w[j] = es[l]
      BY Zenon, <1>4, <3>1, <3>2
    <3>. QED  BY Zenon, <3>2, <3>3
  <2>. QED  BY Zenon, <2>1, <2>2, <2>3
<1>. QED  BY Zenon, <1>6, <1>9, <1>10 DEF w

\* LastFor is the latest of the records that give the address the name.
LEMMA LastForIs ==
    ASSUME NEW as \in Seq(Answer), NEW ip, NEW d
    PROVE  LET i == View!LastFor(Usable(as), ip, d) IN
           /\ i = 0 <=> Told(as, Len(as), ip, d) = {}
           /\ i # 0 => Latest(as, Len(as), ip, d, i)
<1>. DEFINE n == Len(as)
            U == Usable(as)
            at == {i \in DOMAIN U : U[i].ip = ip /\ U[i].domain = d /\ U[i].ttl > 0}
<1>1. n \in Nat /\ DOMAIN as = 1 .. n /\ \A i \in 1 .. n : as[i] \in Answer
  BY Zenon, LenProperties
<1>. HIDE DEF n
<1>2. DOMAIN U = 1 .. n
  BY Zenon, <1>1 DEF Usable
<1>3. \A i \in 1 .. n : /\ U[i].ip = as[i].ip /\ U[i].domain = Normalize(as[i].name)
                        /\ U[i].ttl = IF as[i].type = "A" THEN as[i].ttl ELSE 0
  BY Zenon, <1>1 DEF Usable
<1>4. \A i \in 1 .. n : as[i].ttl \in Nat
  BY Zenon, <1>1 DEF Answer
<1>. HIDE DEF U
<1>5. \A i \in 1 .. n : U[i].ttl > 0 <=> as[i].type = "A" /\ as[i].ttl # 0
  <2>1. \A m \in Nat : m > 0 <=> m # 0
    OBVIOUS
  <2>2. ~(0 > 0)
    OBVIOUS
  <2>. QED  BY Zenon, <1>3, <1>4, <2>1, <2>2
<1>6. at = Told(as, n, ip, d)
  BY Zenon, <1>2, <1>3, <1>5 DEF Told
<1>7. at \in SUBSET (0 .. n) /\ 0 \notin at
  BY <1>1, <1>2
<1>8. View!LastFor(U, ip, d) = IF at = {} THEN 0 ELSE CHOOSE i \in at : \A j \in at : j <= i
  BY Zenon DEF View!LastFor
<1>. HIDE DEF at
<1>9. CASE at = {}
  BY Zenon, <1>6, <1>8, <1>9 DEF n, U
<1>10. CASE at # {}
  <2>1. \E i \in at : \A j \in at : j <= i
    BY Zenon, <1>1, <1>7, <1>10, NatMax
  <2>. DEFINE i == View!LastFor(U, ip, d)
  <2>2. i \in at /\ \A j \in at : j <= i
    BY Zenon, <1>8, <1>10, <2>1
  <2>. HIDE DEF i
  <2>3. i # 0 /\ Latest(as, n, ip, d, i)
    BY Zenon, <1>6, <1>7, <2>2 DEF Latest
  <2>. QED  BY Zenon, <1>6, <1>10, <2>3 DEF n, U, i
<1>. QED  BY Zenon, <1>9, <1>10

\* What is known by the answer i to an address and a name.
Fits(k, as, ip, d, i) ==
    /\ k \in Knowledge /\ k.ip = ip /\ k.domain = d
    /\ k.until = clock + as[i].ttl /\ k.until > clock

\* What the view knows after a response.
Learning(held, as) ==
    LET U == Usable(as) IN
    {k \in held : View!LastFor(U, k.ip, k.domain) = 0}
    \cup {[ip |-> U[i].ip, domain |-> U[i].domain, until |-> clock + U[i].ttl] :
            i \in {View!LastFor(U, ip, d) : ip \in Ip, d \in Domain} \ {0}}

LEMMA Learns ==
    ASSUME clock \in Nat, entries \in Caches, NEW as \in Seq(Answer)
    PROVE  Held(Observed(as), clock) = Learning(Held(entries, clock), as)
<1>. DEFINE n == Len(as)
            U == Usable(as)
            F(ip, d) == View!LastFor(U, ip, d)
            Rec(i) == [ip |-> U[i].ip, domain |-> U[i].domain, until |-> clock + U[i].ttl]
            A == {k \in Held(entries, clock) : F(k.ip, k.domain) = 0}
            B == {Rec(i) : i \in {F(ip, d) : ip \in Ip, d \in Domain} \ {0}}
            u == Observed(as)
<1>1. n \in Nat /\ DOMAIN as = 1 .. n /\ \A i \in 1 .. n : as[i] \in Answer
  BY Zenon, LenProperties
<1>2. Learnt(u, as, n)
  BY Zenon, ObservedIs
<1>. HIDE DEF n, u
<1>3. \A i \in 1 .. n : /\ U[i].ip = as[i].ip /\ U[i].domain = Normalize(as[i].name)
                        /\ U[i].ttl = IF as[i].type = "A" THEN as[i].ttl ELSE 0
  BY Zenon, <1>1 DEF Usable
<1>4. \A i \in 1 .. n : as[i].ttl \in Nat
  BY Zenon, <1>1 DEF Answer
<1>5. \A ip, d : /\ F(ip, d) = 0 <=> Told(as, n, ip, d) = {}
                 /\ F(ip, d) # 0 => Latest(as, n, ip, d, F(ip, d))
  BY Zenon, LastForIs DEF n
<1>. HIDE DEF U, F
\* The record of a latest answer.
<1>6. ASSUME NEW ip \in Ip, NEW d \in Domain, NEW i, Latest(as, n, ip, d, i)
      PROVE  Fits(Rec(i), as, ip, d, i)
  <2>1. i \in 1 .. n /\ as[i].type = "A" /\ as[i].ip = ip /\ Normalize(as[i].name) = d /\ as[i].ttl # 0
    BY Zenon, <1>6 DEF Latest, Told
  <2>2. U[i].ip = ip /\ U[i].domain = d /\ U[i].ttl = as[i].ttl /\ as[i].ttl \in Nat /\ as[i].ttl # 0
    BY Zenon, <1>3, <1>4, <2>1
  <2>3. clock + U[i].ttl \in Nat /\ clock + U[i].ttl > clock
    <3>1. \A a, m \in Nat : m # 0 => a + m \in Nat /\ a + m > a
      OBVIOUS
    <3>. QED  BY Zenon, <2>2, <3>1
  <2>. QED  BY Zenon, <2>2, <2>3 DEF Knowledge, Fits
<1>. HIDE DEF Rec
<1>7. \A ip, d, i, j : Latest(as, n, ip, d, i) /\ Latest(as, n, ip, d, j) => i = j
  <2>. SUFFICES ASSUME NEW ip, NEW d, NEW i, NEW j, Latest(as, n, ip, d, i), Latest(as, n, ip, d, j)
                PROVE  i = j
    BY Zenon
  <2>1. i <= j /\ j <= i /\ i \in 1 .. n /\ j \in 1 .. n
    BY Zenon DEF Latest, Told
  <2>. QED  BY <2>1
<1>8. \A k \in Knowledge : k.ip \in Ip /\ k.domain \in Domain /\ k.until \in Nat
  BY Zenon DEF Knowledge
<1>9. ASSUME NEW k \in Held(u, clock) PROVE k \in A \cup B
  <2>1. k \in Knowledge /\ k.until > clock /\ Has(u, k.ip, k.domain, k.until)
    BY Zenon, <1>9 DEF Held
  <2>2. CASE Told(as, n, k.ip, k.domain) = {}
    <3>1. Has(entries, k.ip, k.domain, k.until)
      BY Zenon, <1>2, <1>8, <2>1, <2>2 DEF Learnt
    <3>2. F(k.ip, k.domain) = 0
      BY Zenon, <1>5, <2>2
    <3>3. k \in Held(entries, clock)
      BY Zenon, <2>1, <3>1 DEF Held
    <3>4. k \in A
      BY Zenon, <3>2, <3>3
    <3>. HIDE DEF A, B
    <3>. QED  BY Zenon, <3>4
  <2>3. CASE Told(as, n, k.ip, k.domain) # {}
    <3>1. PICK i : Latest(as, n, k.ip, k.domain, i) /\ k.until = clock + as[i].ttl
      BY Zenon, <1>2, <1>8, <2>1, <2>3 DEF Learnt
    <3>2. F(k.ip, k.domain) # 0 /\ Latest(as, n, k.ip, k.domain, F(k.ip, k.domain))
      BY Zenon, <1>5, <2>3
    <3>3. i = F(k.ip, k.domain)
      BY Zenon, <1>7, <3>1, <3>2
    <3>4. /\ Rec(i) \in Knowledge /\ Rec(i).ip = k.ip /\ Rec(i).domain = k.domain
          /\ Rec(i).until = clock + as[i].ttl
      <4>1. Fits(Rec(i), as, k.ip, k.domain, i)
        BY Zenon, <1>6, <1>8, <2>1, <3>1
      <4>. QED  BY Zenon, <4>1 DEF Fits
    <3>5. \A x, y \in Knowledge : x.ip = y.ip /\ x.domain = y.domain /\ x.until = y.until => x = y
      BY DEF Knowledge
    <3>6. k = Rec(i)
      BY Zenon, <2>1, <3>1, <3>4, <3>5
    <3>7. i \in {F(ip, d) : ip \in Ip, d \in Domain} \ {0}
      BY SMTT(30), <1>8, <2>1, <3>2, <3>3
    <3>8. k \in B
      BY <3>6, <3>7
    <3>. HIDE DEF A, B
    <3>. QED  BY Zenon, <3>8
  <2>. QED
    <3>. HIDE DEF A, B
    <3>. QED  BY Zenon, <2>2, <2>3
<1>10. ASSUME NEW k \in A PROVE k \in Held(u, clock)
  <2>1. /\ k \in Knowledge /\ k.until > clock /\ Has(entries, k.ip, k.domain, k.until)
        /\ F(k.ip, k.domain) = 0
    BY Zenon, <1>10 DEF Held
  <2>2. Told(as, n, k.ip, k.domain) = {}
    BY Zenon, <1>5, <2>1
  <2>3. Has(u, k.ip, k.domain, k.until)
    BY Zenon, <1>2, <1>8, <2>1, <2>2 DEF Learnt
  <2>. QED  BY Zenon, <2>1, <2>3 DEF Held
<1>11. ASSUME NEW ip \in Ip, NEW d \in Domain, F(ip, d) # 0 PROVE Rec(F(ip, d)) \in Held(u, clock)
  <2>. DEFINE i == F(ip, d)
  <2>1. Latest(as, n, ip, d, i) /\ Told(as, n, ip, d) # {}
    BY Zenon, <1>5, <1>11
  <2>. HIDE DEF i
  <2>2. Fits(Rec(i), as, ip, d, i)
    BY Zenon, <1>6, <2>1
  <2>3. Rec(i) \in Knowledge /\ Rec(i).until \in Nat
    BY Zenon, <1>8, <2>2 DEF Fits
  <2>4. Has(u, ip, d, Rec(i).until)
    BY Zenon, <1>2, <2>1, <2>2, <2>3 DEF Learnt, Fits
  <2>5. Rec(i) \in Held(u, clock)
    BY Zenon, <2>2, <2>4 DEF Held, Fits
  <2>. QED  BY Zenon, <2>5 DEF i
<1>12. \A k \in B : k \in Held(u, clock)
  BY <1>11
<1>13. Held(u, clock) = A \cup B
  <2>. HIDE DEF A, B
  <2>. QED  BY Zenon, <1>9, <1>10, <1>12
<1>. QED  BY <1>13 DEF u, U, F, Rec, Learning

\* The inductive invariant: time within its bound, and in the cache lists of
\* entries, each name once per address.
CacheInv == clock \in 0 .. MaxClock /\ entries \in Caches

\* The cache before the first response, and of a new connection.
LEMMA EmptyCache ==
    /\ [ip \in Ip |-> <<>>] \in Caches
    /\ \A now : Held([ip \in Ip |-> <<>>], now) = {}
<1>. DEFINE c == [ip \in Ip |-> <<>>]
<1>1. <<>> \in Seq(Entry) /\ DOMAIN <<>> = {}
  BY EmptySeq
<1>2. c \in [Ip -> Seq(Entry)] /\ \A ip \in Ip : c[ip] = <<>>
  BY Zenon, <1>1
<1>3. \A k \in Knowledge : k.ip \in Ip
  BY Zenon DEF Knowledge
<1>. HIDE DEF c
<1>4. c \in Caches
  BY Zenon, <1>1, <1>2 DEF Caches, Once
<1>5. ASSUME NEW now, NEW k \in Held(c, now) PROVE FALSE
  BY Zenon, <1>1, <1>2, <1>3, <1>5 DEF Held, Has
<1>. QED  BY Zenon, <1>4, <1>5 DEF c

LEMMA CacheInit == Init => CacheInv
BY EmptyCache, RouterAssumption DEF Init, CacheInv

LEMMA CacheNext == CacheInv /\ [Next]_vars => CacheInv'
<1>. SUFFICES ASSUME CacheInv, [Next]_vars PROVE CacheInv'
  BY Zenon
<1>. USE DEF CacheInv
<1>0. clock \in Nat /\ MaxClock \in Nat
  BY RouterAssumption
<1>1. CASE Start
  BY Zenon, <1>1 DEF Start
<1>2. CASE Reconnect
  BY Zenon, <1>2, EmptyCache DEF Reconnect
<1>3. ASSUME NEW as \in Responses, Observe(as) PROVE CacheInv'
  <2>1. as \in Seq(Answer)
    BY Zenon, RouterAssumption
  <2>2. Observed(as) \in Caches
    BY Zenon, <1>0, <2>1, ObservedIs DEF Learnt
  <2>. QED  BY Zenon, <1>3, <2>2 DEF Observe
<1>4. ASSUME NEW p \in Packets, Route(p) PROVE CacheInv'
  <2>1. CASE HasContext(p)
    <3>1. p.dst_ip \in Ip
      BY Zenon, <2>1, RouterAssumption DEF HasContext
    <3>2. [entries EXCEPT ![p.dst_ip] = Retained(p.dst_ip)] \in Caches
      BY Zenon, <3>1, HeldRetained
    <3>. QED  BY Zenon, <1>4, <2>1, <3>2 DEF Route
  <2>2. CASE ~HasContext(p)
    BY Zenon, <1>4, <2>2 DEF Route
  <2>. QED  BY Zenon, <2>1, <2>2
<1>5. CASE Tick
  <2>1. entries' \in Caches
    BY Zenon, <1>5 DEF Tick
  <2>2. clock' \in 0 .. MaxClock
    BY SMTT(30), <1>0, <1>5 DEF Tick
  <2>. QED  BY Zenon, <2>1, <2>2
<1>6. CASE UNCHANGED vars
  BY Zenon, <1>6 DEF vars
<1>. QED  BY Zenon, <1>1, <1>2, <1>3, <1>4, <1>5, <1>6 DEF Next

\* Each name is once in the list of an address, whatever responses and lookups
\* came before: insert replaces the entry of a name it has.
THEOREM CacheHolds == Spec => []CacheInv
BY CacheInit, CacheNext, PTL DEF Spec

\* What the view knows is what the cache holds, before a step and after it.
LEMMA KnownIs == CacheInv => Known = Held(entries, clock)
<1>1. Known = KnownOf(entries, clock)
  BY Zenon DEF Known, KnownOf
<1>. QED  BY Zenon, <1>1, KnownHeld DEF CacheInv

LEMMA KnownThen == CacheInv' => Known' = Held(entries', clock')
<1>1. Known' = KnownOf(entries', clock')
  BY Zenon DEF Known, KnownOf
<1>. QED  BY Zenon, <1>1, KnownHeld DEF CacheInv

LEMMA ViewInit == Init => View!Init
<1>. SUFFICES ASSUME Init PROVE View!Init
  BY Zenon
<1>1. Known = {}
  BY Zenon, CacheInit, KnownIs, EmptyCache DEF Init
<1>2. ToSet(domains) = {} /\ clock = 0
  BY DEF Init, ToSet
<1>. QED  BY Zenon, <1>1, <1>2 DEF View!Init

LEMMA ViewNext ==
    CacheInv /\ CacheInv' /\ [Next]_vars => [View!Next]_<<Known, clock, ToSet(domains)>>
<1>. SUFFICES ASSUME CacheInv, CacheInv', [Next]_vars
              PROVE  View!Next \/ UNCHANGED <<Known, clock, ToSet(domains)>>
  BY Zenon
<1>0. /\ Known = Held(entries, clock) /\ Known' = Held(entries', clock')
      /\ clock \in Nat /\ entries \in Caches
  <2>1. clock \in Nat /\ entries \in Caches
    BY RouterAssumption DEF CacheInv
  <2>. QED  BY Zenon, <2>1, KnownIs, KnownThen
<1>1. CASE UNCHANGED <<entries, clock, domains>>
  <2>1. entries' = entries /\ clock' = clock /\ domains' = domains
    BY Zenon, <1>1
  <2>2. Known' = Known
    BY Zenon, <1>0, <2>1
  <2>3. ToSet(domains)' = ToSet(domains)
    BY Zenon, <2>1 DEF ToSet
  <2>. QED  BY Zenon, <2>1, <2>2, <2>3
<1>2. CASE Reconnect
  <2>1. Known' = {} /\ clock' = clock
    BY Zenon, <1>0, <1>2, EmptyCache DEF Reconnect
  <2>2. ToSet(domains)' = {}
    BY <1>2 DEF Reconnect, ToSet
  <2>. QED  BY Zenon, <2>1, <2>2 DEF View!Next, View!Forget
<1>3. ASSUME NEW as \in Responses, Observe(as) PROVE View!Next
  <2>1. as \in Seq(Answer)
    BY Zenon, RouterAssumption
  <2>2. entries' = Observed(as) /\ clock' = clock /\ domains' = domains
    BY Zenon, <1>3 DEF Observe
  <2>3. View!Learn(Usable(as))
    <3>1. Held(entries', clock') = Held(Observed(as), clock)
      BY Zenon, <2>2
    <3>2. ToSet(domains)' = ToSet(domains)
      BY Zenon, <2>2 DEF ToSet
    <3>3. Held(Observed(as), clock) = Learning(Held(entries, clock), as)
      BY Zenon, <1>0, <2>1, Learns
    <3>4. Known' = Learning(Known, as)
      BY Zenon, <1>0, <3>1, <3>3
    <3>. QED  BY <2>2, <3>2, <3>4 DEF View!Learn, Learning
  <2>4. Usable(as) \in {Usable(r) : r \in Responses}
    BY Zenon
  <2>. QED  BY Zenon, <2>3, <2>4 DEF View!Next
<1>4. ASSUME NEW p \in Packets, Route(p), HasContext(p) PROVE View!Next
  <2>. DEFINE ip == p.dst_ip
  <2>1. ip \in Ip
    BY Zenon, <1>4, RouterAssumption DEF HasContext
  <2>2. /\ entries' = [entries EXCEPT ![ip] = Retained(ip)] /\ clock' = clock
        /\ domains' = Names(Retained(ip))
    BY Zenon, <1>4 DEF Route
  <2>. HIDE DEF ip
  <2>3. Known' = Known
    BY Zenon, <1>0, <2>1, <2>2, HeldRetained
  <2>4. ToSet(domains)' = {k.domain : k \in {x \in Known : x.ip = ip}}
    <3>1. ToSet(domains)' = ToSet(Names(Retained(ip)))
      BY Zenon, <2>2 DEF ToSet
    <3>. QED  BY Zenon, <1>0, <2>1, <3>1, HeldRetained
  <2>5. View!Ask(ip)
    BY Zenon, <2>2, <2>3, <2>4 DEF View!Ask
  <2>. QED  BY Zenon, <2>1, <2>5 DEF View!Next
<1>5. CASE Tick
  <2>1. clock < MaxClock /\ clock' = clock + 1 /\ entries' = entries /\ domains' = domains
    BY Zenon, <1>5 DEF Tick
  <2>2. \A k \in Knowledge : k.until > clock + 1 <=> k.until > clock /\ k.until > clock + 1
    <3>1. \A k \in Knowledge : k.until \in Nat
      BY Zenon DEF Knowledge
    <3>2. \A t \in Nat : t > clock + 1 => t > clock
      BY <1>0
    <3>. QED  BY Zenon, <3>1, <3>2
  <2>3. Known' = {k \in Known : k.until > clock + 1}
    <3>1. Held(entries, clock + 1) = {k \in Held(entries, clock) : k.until > clock + 1}
      BY Zenon, <2>2 DEF Held
    <3>. QED  BY Zenon, <1>0, <2>1, <3>1
  <2>4. ToSet(domains)' = ToSet(domains)
    BY Zenon, <2>1 DEF ToSet
  <2>. QED  BY Zenon, <2>1, <2>3, <2>4 DEF View!Next, View!Tick
<1>6. ASSUME NEW p \in Packets, Route(p), ~HasContext(p) PROVE UNCHANGED <<entries, clock, domains>>
  BY Zenon, <1>6 DEF Route
<1>7. Start => UNCHANGED <<entries, clock, domains>>
  BY Zenon DEF Start
<1>8. UNCHANGED vars => UNCHANGED <<entries, clock, domains>>
  BY Zenon DEF vars
<1>. QED  BY Zenon, <1>1, <1>2, <1>3, <1>4, <1>5, <1>6, <1>7, <1>8 DEF Next

\* The domain cache gives out exactly the names whose latest answer has not run
\* out: it implements DomainView, with the eviction that lookup does unseen.
THEOREM ViewImplemented == Spec => ViewSpec
<1>1. CacheInv /\ CacheInv' /\ [Next]_vars => [View!Next]_<<Known, clock, ToSet(domains)>>
  BY Zenon, ViewNext
<1>. QED  BY <1>1, ViewInit, CacheHolds, PTL DEF Spec, ViewSpec, View!Spec
=============================================================================
