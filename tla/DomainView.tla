----------------------------- MODULE DomainView -----------------------------
(***************************************************************************)
(* What the domain cache promises: at any time an address is known by      *)
(* exactly the names whose latest DNS answer has not yet run out.          *)
(***************************************************************************)
EXTENDS Integers, Sequences

CONSTANTS Ip, Domain, Answers, MaxClock

VARIABLES
    known,      \* names that hold, as records of ip, domain and expiry
    clock,      \* now
    answer      \* the names given for the last address asked about

\* The position of the last usable answer for ip and d in a response, or 0.
LastFor(as, ip, d) ==
    LET at == {i \in DOMAIN as : as[i].ip = ip /\ as[i].domain = d /\ as[i].ttl > 0}
    IN  IF at = {} THEN 0 ELSE CHOOSE i \in at : \A j \in at : j <= i

Init == known = {} /\ clock = 0 /\ answer = {}

\* The last answer for an address and a name replaces what was known.
Learn(as) ==
    /\ known' = {k \in known : LastFor(as, k.ip, k.domain) = 0}
                \cup {[ip |-> as[i].ip, domain |-> as[i].domain, until |-> clock + as[i].ttl] :
                        i \in {LastFor(as, ip, d) : ip \in Ip, d \in Domain} \ {0}}
    /\ UNCHANGED <<clock, answer>>

Ask(ip) ==
    /\ answer' = {k.domain : k \in {x \in known : x.ip = ip}}
    /\ UNCHANGED <<known, clock>>

Tick ==
    /\ clock < MaxClock
    /\ clock' = clock + 1
    /\ known' = {k \in known : k.until > clock + 1}
    /\ UNCHANGED answer

\* A new connection starts with an empty cache.
Forget == known' = {} /\ answer' = {} /\ UNCHANGED clock

Next == Forget \/ (\E as \in Answers : Learn(as)) \/ (\E ip \in Ip : Ask(ip)) \/ Tick

Spec == Init /\ [][Next]_<<known, clock, answer>>
=============================================================================
