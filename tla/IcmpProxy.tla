----------------------------- MODULE IcmpProxy -----------------------------
(***************************************************************************)
(* The ICMP half of the transparent proxy: handle_inbound_icmp hands each  *)
(* echo request to the session task of its key, and the session forwards   *)
(* it from a raw socket under an identifier of its own and restores the    *)
(* client's identifier in the replies.  A raw socket receives every reply  *)
(* of the target it is connected to, whoever asked.                        *)
(***************************************************************************)
EXTENDS Integers, Sequences, FiniteSets

CONSTANTS
    Key,            \* IcmpSessionKey: client, target and client identifier
    TargetOf,       \* the target of each key
    Session,        \* session tasks
    None,           \* no session
    IdentSpace,     \* number of proxy identifiers (65536)
    FirstIdent,     \* initial value of NEXT_ICMP_PROXY_IDENT (0x4000)
    MaxRequests,    \* bound: echo requests from the TUN stack
    MaxFaults       \* bound: timeouts, and socket calls that fail

ASSUME IcmpAssumption ==
    /\ None \notin Session
    /\ Key # {}
    /\ IdentSpace \in Nat \ {0}
    /\ FirstIdent \in 0 .. IdentSpace - 1
    /\ {MaxRequests, MaxFaults} \subseteq Nat

VARIABLES
    upstreamIsV4,   \* translate_ipv4 succeeds: the upstream, if set, is IPv4
    table,      \* sessions: the task each key maps to, or None
    pc,         \* where each task is
    key,        \* the key a task was spawned for
    chan,       \* requests in a task's channel
    ident,      \* proxy_ident of a task
    replies,    \* replies a task's reader thread has passed on
    nextIdent,  \* NEXT_ICMP_PROXY_IDENT
    hand,       \* what handle_inbound_icmp holds: a request and a task, or None
    requests,   \* history: the key of each request, in order
    inflight,   \* requests forwarded, as the target sees them, unanswered
    answered,   \* history: replies written to the TUN stack
    active,     \* stats.active_icmp
    faults      \* timeouts and failures so far

tasks == <<pc, key, chan, ident, replies>>
vars == <<upstreamIsV4, table, tasks, nextIdent, hand, requests, inflight,
          answered, active, faults>>

Init ==
    /\ upstreamIsV4 \in BOOLEAN
    /\ table = [k \in Key |-> None]
    /\ pc = [s \in Session |-> "unused"]
    /\ key = [s \in Session |-> CHOOSE k \in Key : TRUE]
    /\ chan = [s \in Session |-> <<>>]
    /\ ident = [s \in Session |-> 0]
    /\ replies = [s \in Session |-> <<>>]
    /\ nextIdent = FirstIdent
    /\ hand = None
    /\ requests = <<>>
    /\ inflight = {}
    /\ answered = <<>>
    /\ active = 0
    /\ faults = 0

-----------------------------------------------------------------------------
\* handle_inbound_icmp

\* The task to spawn next: which of the unused ones makes no difference.
Fresh == CHOOSE s \in Session : pc[s] = "unused"

\* A request is received and the session of its key looked up, or inserted and
\* spawned, under the lock.
FindSession(k) ==
    /\ hand = None
    /\ Len(requests) < MaxRequests
    /\ requests' = Append(requests, k)
    /\ \/ /\ table[k] # None
          /\ hand' = [request |-> Len(requests'), to |-> table[k]]
          /\ UNCHANGED <<table, pc, key>>
       \/ /\ table[k] = None
          /\ \E s \in Session : pc[s] = "unused"
          /\ table' = [table EXCEPT ![k] = Fresh]
          /\ pc' = [pc EXCEPT ![Fresh] = "starting"]
          /\ key' = [key EXCEPT ![Fresh] = k]
          /\ hand' = [request |-> Len(requests'), to |-> Fresh]
    /\ UNCHANGED <<upstreamIsV4, chan, ident, replies, nextIdent, inflight, answered,
                   active, faults>>

\* A variant that leaves the entry of a task that is gone.
HandOver_KeepsEntry ==
    /\ hand # None
    /\ hand' = None
    /\ IF pc[hand.to] = "done" THEN UNCHANGED chan
       ELSE chan' = [chan EXCEPT ![hand.to] = Append(@, hand.request)]
    /\ UNCHANGED <<upstreamIsV4, table, pc, key, ident, replies, nextIdent, requests,
                   inflight, answered, active, faults>>

\* tx.send: to a task that is gone it fails, the request is lost and the key's
\* entry, whichever it is by now, is removed.
HandOver ==
    /\ hand # None
    /\ hand' = None
    /\ IF pc[hand.to] = "done"
       THEN /\ table' = [table EXCEPT ![requests[hand.request]] = None]
            /\ UNCHANGED chan
       ELSE /\ chan' = [chan EXCEPT ![hand.to] = Append(@, hand.request)]
            /\ UNCHANGED table
    /\ UNCHANGED <<upstreamIsV4, pc, key, ident, replies, nextIdent, requests, inflight,
                   answered, active, faults>>

-----------------------------------------------------------------------------
\* handle_icmp_session

Goto(s, at) == pc' = [pc EXCEPT ![s] = at]

Fault == faults < MaxFaults /\ faults' = faults + 1

\* An IPv6 upstream server ends the task before it counts itself, and leaves
\* its entry in the table.
Refuse(s) ==
    /\ pc[s] = "starting" /\ ~upstreamIsV4
    /\ Goto(s, "done")
    /\ UNCHANGED <<upstreamIsV4, table, key, chan, ident, replies, nextIdent, hand,
                   requests, inflight, answered, active, faults>>

\* Variants: a counter that does not wrap, and one that does not advance.
NextIdent_Wide(n) == n + 1
NextIdent_Same(n) == n

\* next_icmp_proxy_ident: fetch_add on a u16 wraps.
NextIdent(n) == (n + 1) % IdentSpace

\* The task counts itself and opens its socket, or fails to.
Open(s) ==
    /\ pc[s] = "starting" /\ upstreamIsV4
    /\ active' = active + 1
    /\ \/ /\ Goto(s, "loop")
          /\ ident' = [ident EXCEPT ![s] = nextIdent]
          /\ nextIdent' = NextIdent(nextIdent)
          /\ UNCHANGED faults
       \/ Goto(s, "closing") /\ Fault /\ UNCHANGED <<ident, nextIdent>>
    /\ UNCHANGED <<upstreamIsV4, table, key, chan, replies, hand, requests, inflight,
                   answered>>

\* forward_icmp_request: the request leaves under the proxy's identifier.
Forward(s) ==
    /\ pc[s] = "loop" /\ chan[s] # <<>>
    /\ chan' = [chan EXCEPT ![s] = Tail(@)]
    /\ \/ /\ inflight' = inflight \cup {[target |-> TargetOf[key[s]], ident |-> ident[s],
                                         request |-> Head(chan[s])]}
          /\ UNCHANGED <<pc, faults>>
       \/ Goto(s, "closing") /\ Fault /\ UNCHANGED inflight
    /\ UNCHANGED <<upstreamIsV4, table, key, ident, replies, nextIdent, hand, requests,
                   answered, active>>

\* rewrite_icmp_echo_reply refuses a reply with another identifier, and the
\* error ends the session; otherwise the reply goes to the TUN stack.
Relay(s) ==
    /\ pc[s] = "loop" /\ replies[s] # <<>>
    /\ replies' = [replies EXCEPT ![s] = Tail(@)]
    /\ IF Head(replies[s]).ident # ident[s]
       THEN Goto(s, "closing") /\ UNCHANGED <<answered, faults>>
       ELSE \/ /\ answered' = Append(answered, [to |-> key[s], request |-> Head(replies[s]).request])
               /\ UNCHANGED <<pc, faults>>
            \/ Goto(s, "closing") /\ Fault /\ UNCHANGED answered
    /\ UNCHANGED <<upstreamIsV4, table, key, chan, ident, nextIdent, hand, requests,
                   inflight, active>>

\* The other ends of the loop: sixty seconds without an event or a reader that
\* failed, and a channel that is empty and has no sender left.
LoopEnds(s) ==
    /\ pc[s] = "loop"
    /\ \/ Fault
       \/ /\ chan[s] = <<>> /\ table[key[s]] # s
          /\ hand = None \/ hand.to # s
          /\ UNCHANGED faults
    /\ Goto(s, "closing")
    /\ UNCHANGED <<upstreamIsV4, table, key, chan, ident, replies, nextIdent, hand,
                   requests, inflight, answered, active>>

\* A variant that leaves its entry behind.
Remove_KeepsEntry(s) ==
    /\ pc[s] = "closing"
    /\ Goto(s, "leaving")
    /\ UNCHANGED <<upstreamIsV4, table, key, chan, ident, replies, nextIdent, hand,
                   requests, inflight, answered, active, faults>>

\* sessions.lock().await.remove(&key)
Remove(s) ==
    /\ pc[s] = "closing"
    /\ table' = [table EXCEPT ![key[s]] = None]
    /\ Goto(s, "leaving")
    /\ UNCHANGED <<upstreamIsV4, key, chan, ident, replies, nextIdent, hand, requests,
                   inflight, answered, active, faults>>

\* A variant that does not count itself out.
Leave_NoCount(s) ==
    /\ pc[s] = "leaving"
    /\ Goto(s, "done")
    /\ chan' = [chan EXCEPT ![s] = <<>>]
    /\ replies' = [replies EXCEPT ![s] = <<>>]
    /\ UNCHANGED <<upstreamIsV4, table, key, ident, nextIdent, hand, requests, inflight,
                   answered, active, faults>>

\* The task counts itself out and drops its channel.
Leave(s) ==
    /\ pc[s] = "leaving"
    /\ active' = active - 1
    /\ Goto(s, "done")
    /\ chan' = [chan EXCEPT ![s] = <<>>]
    /\ replies' = [replies EXCEPT ![s] = <<>>]
    /\ UNCHANGED <<upstreamIsV4, table, key, ident, nextIdent, hand, requests, inflight,
                   answered, faults>>

-----------------------------------------------------------------------------
\* The target answers a request; every socket connected to it gets the reply.
TargetReplies ==
    \E r \in inflight :
        /\ inflight' = inflight \ {r}
        /\ replies' = [s \in Session |->
                        IF pc[s] = "loop" /\ TargetOf[key[s]] = r.target
                        THEN Append(replies[s], r) ELSE replies[s]]
        /\ UNCHANGED <<upstreamIsV4, table, pc, key, chan, ident, nextIdent, hand,
                       requests, answered, active, faults>>

SessionStep(s) ==
    \/ Refuse(s) \/ Open(s) \/ Forward(s) \/ Relay(s) \/ LoopEnds(s) \/ Remove(s) \/ Leave(s)

Next ==
    \/ \E k \in Key : FindSession(k)
    \/ HandOver
    \/ \E s \in Session : SessionStep(s)
    \/ TargetReplies

Spec == Init /\ [][Next]_vars

\* The runtime polls every task that can move, and the target answers.
Fairness ==
    /\ WF_vars(HandOver)
    /\ WF_vars(TargetReplies)
    /\ \A s \in Session : WF_vars(SessionStep(s))

FairSpec == Spec /\ Fairness

-----------------------------------------------------------------------------
\* Every variable has its type, and nothing is in the channel of a task that
\* was not spawned.
TypeOK ==
    /\ table \in [Key -> Session \cup {None}]
    /\ pc \in [Session -> {"unused", "starting", "loop", "closing", "leaving", "done"}]
    /\ key \in [Session -> Key]
    /\ ident \in [Session -> 0 .. IdentSpace - 1]
    /\ nextIdent \in 0 .. IdentSpace - 1
    /\ hand = None \/ hand \in [request : 1 .. MaxRequests, to : Session]
    /\ requests \in Seq(Key)
    /\ \A s \in Session : pc[s] = "unused" => chan[s] = <<>> /\ replies[s] = <<>>

\* Though every session sees every reply of its target, a reply reaches the
\* client that sent the request, under its own identifier, and only once.
RepliesGoHome ==
    /\ \A i \in DOMAIN answered : answered[i].to = requests[answered[i].request]
    /\ \A i, j \in DOMAIN answered : answered[i].request = answered[j].request => i = j

\* active_icmp counts the tasks between their first and their last step, on
\* every path out of a session.
ActiveIsExact ==
    active = Cardinality({s \in Session : pc[s] \in {"loop", "closing", "leaving"}})

\* A session that ends, and did not begin with an IPv6 upstream, leaves no
\* entry behind: a key never maps to a task that is gone.
NoDeadEntry ==
    upstreamIsV4 => \A k \in Key : table[k] # None => pc[table[k]] \notin {"unused", "done"}

\* The entry that the early return for an IPv6 upstream leaves behind blocks
\* its key for one request only: after a request was held for a task that is
\* gone, no key maps to that task.
DeadEntryGoes ==
    \A s \in Session :
        (hand # None /\ hand.to = s /\ pc[s] = "done") ~> (\A k \in Key : table[k] # s)

\* Direct traffic is connected locally: an echo request that was forwarded, to
\* a target that answers, is answered when nothing fails or times out.
ForwardedIsAnswered ==
    \A n \in 1 .. MaxRequests :
        (\E r \in inflight : r.request = n)
            ~> (\E i \in DOMAIN answered : answered[i].request = n)
=============================================================================
