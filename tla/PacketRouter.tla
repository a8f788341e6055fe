---------------------------- MODULE PacketRouter ----------------------------
(***************************************************************************)
(* From the configuration file to the routing decisions of the TUN task.   *)
(* The file is loaded and its rules validated; each connection then builds *)
(* a rules engine and an empty domain cache.  DNS responses on their way   *)
(* to the TUN device fill the cache, and every packet read from the device *)
(* is matched against the rules, the names known for its destination       *)
(* included.                                                               *)
(***************************************************************************)
EXTENDS RuleConfig

CONSTANTS
    Files,          \* configuration files: rule lines, and whether geoip_path is set
    NoFile,
    Ip,             \* IPv4 addresses
    Private,        \* those is_private_ip accepts
    Country,        \* the codes the GeoIP database has for an address
    Name,           \* names as a DNS response spells them
    Below,          \* the names that end in a dot and the given suffix
    Containing,     \* the names that contain the given keyword
    Packets,        \* packets read from the TUN device
    Responses,      \* answer sections of DNS responses
    NoPort,         \* the port of a packet that has none
    MaxClock        \* bound on time

Domain == {Normalize(n) : n \in Name} \ {""}

\* A record of an answer section; only those of type A have an address.
Answer == [type : STRING, name : Name, ip : Ip, ttl : Nat]

ASSUME RouterAssumption ==
    /\ \A f \in Files : f.rules \in Seq(Seq(STRING))
    /\ \A p \in Packets : p.version = 4 =>
            p.dst_ip \in Ip /\ {p.src_port, p.dst_port} \subseteq Nat \cup {NoPort}
    /\ Responses \subseteq Seq(Answer)
    /\ MaxClock \in Nat

VARIABLES
    file,       \* the configuration file
    engine,     \* the rules engine of the connection, if there is one
    entries,    \* DomainCache.entries: absent addresses map to <<>>
    clock,      \* Instant::now, in the unit of the TTLs
    domains,    \* the domains of the last packet that was matched
    routed      \* the last packet read and where it went

vars == <<file, engine, entries, clock, domains, routed>>

NoRoute == [to |-> "None"]

\* No engine yet, and the end of a start that was refused.
NotStarted == [state |-> "none"]

Refused == [state |-> "refused"]

Engine(rules, db) == [state |-> "ready", rules |-> rules, db |-> db]

Ready == engine.state = "ready"

Init ==
    /\ file \in Files \cup {NoFile}
    /\ engine = NotStarted
    /\ entries = [ip \in Ip |-> <<>>]
    /\ clock = 0
    /\ domains = <<>>
    /\ routed = NoRoute

\* AppConfig::load_from_file on a missing file: the defaults, with no rules, are
\* used and written.
Defaults == [rules |-> <<>>, geoip |-> FALSE]

\* GeoIpMatcher::load: a database that cannot be opened is only logged.
Databases(f) == IF f.geoip THEN BOOLEAN ELSE {FALSE}

\* AppConfig::load and RulesEngine::from_config, with a new domain cache.
Start ==
    /\ engine = NotStarted
    /\ file' = IF file = NoFile THEN Defaults ELSE file
    /\ LET parsed == {rs \in ParseRules(file'.rules) : Validate(rs)}
       IN  \/ parsed = {} /\ engine' = Refused
          \/ \E rs \in parsed, db \in Databases(file') : engine' = Engine(rs, db)
    /\ UNCHANGED <<entries, clock, domains, routed>>

\* The next attempt: run_connected_client builds a new engine from the rules in
\* memory, and tun_io_task starts with an empty cache.
Reconnect ==
    /\ Ready
    /\ \E db \in Databases(file) : engine' = Engine(engine.rules, db)
    /\ entries' = [ip \in Ip |-> <<>>]
    /\ domains' = <<>>
    /\ routed' = NoRoute
    /\ UNCHANGED <<file, clock>>

\* A variant that does not look for an entry of the same name.
Insert_Pushes(cache, ip, name, ttl) ==
    IF ttl = 0 \/ Normalize(name) = "" THEN cache
    ELSE [cache EXCEPT ![ip] = Append(@, [domain |-> Normalize(name), expires |-> clock + ttl])]

\* DomainCache::insert
Insert(cache, ip, name, ttl) ==
    LET d == Normalize(name)
        e == [domain |-> d, expires |-> clock + ttl]
        at == {i \in DOMAIN cache[ip] : cache[ip][i].domain = d}
    IN  IF ttl = 0 \/ d = "" THEN cache
        ELSE IF at = {} THEN [cache EXCEPT ![ip] = Append(@, e)]
        ELSE [cache EXCEPT ![ip][Min(at)] = e]

\* A variant that keeps an entry in the instant it expires.
Retained_OneMore(ip) == SelectSeq(entries[ip], LAMBDA e : e.expires >= clock)

\* DomainCache::lookup: what it retains, and the names it returns.
Retained(ip) ==
    LET es == entries[ip]
        kept[i \in 0 .. Len(es)] ==
            IF i = 0 THEN <<>>
            ELSE IF es[i].expires > clock THEN Append(kept[i - 1], es[i])
            ELSE kept[i - 1]
    IN  kept[Len(es)]

Names(es) == [i \in DOMAIN es |-> es[i].domain]

\* The loop of observe_packet: the A records, under the name each has.
Observed(as) ==
    LET cache[i \in 0 .. Len(as)] ==
            IF i = 0 THEN entries
            ELSE IF as[i].type = "A" THEN Insert(cache[i - 1], as[i].ip, as[i].name, as[i].ttl)
            ELSE cache[i - 1]
    IN  cache[Len(as)]

\* observe_packet on a DNS response
Observe(as) ==
    /\ Ready
    /\ entries' = Observed(as)
    /\ UNCHANGED <<file, engine, clock, domains, routed>>

\* matches_domain, matches_domain_suffix and matches_domain_keyword: any name.
MatchesDomain(f, w, ds) ==
    \E i \in DOMAIN ds :
        CASE f = "domain" -> ds[i] = w
          [] f = "domain_suffix" -> ds[i] = w \/ ds[i] \in Below[w]
          [] f = "domain_keyword" -> ds[i] \in Containing[w]

\* matches_ip: a text that is no network is no address either.
MatchesIp(w, ip) == w \in DOMAIN Network /\ ip \in Network[w]

\* matches_port: a packet without ports satisfies no range.
MatchesPort(w, port) == port # NoPort /\ \E r \in ParsePortRange(w) : port \in r

MatchesProtocol(w, proto) == proto \in ProtocolFromStr(w)

\* GeoIpMatcher::matches: PRIVATE needs no database.
MatchesGeoip(w, ip) ==
    IF Upper(w) = "PRIVATE" THEN ip \in Private ELSE engine.db /\ Upper(w) \in Country[ip]

\* Matcher::matches: every condition the rule sets.
Matches(rule, p, ds) ==
    \A f \in DOMAIN rule.when :
        LET w == rule.when[f] IN
        CASE f = "src_ip_cidr" -> MatchesIp(w, p.src_ip)
          [] f = "dst_ip_cidr" -> MatchesIp(w, p.dst_ip)
          [] f \in PortField -> MatchesPort(w, p[f])
          [] f = "proto" -> MatchesProtocol(w, p.proto)
          [] f \in DomainField -> MatchesDomain(f, w, ds)
          [] f = "geoip" -> MatchesGeoip(w, p.dst_ip)

\* A variant in which a later rule overrides an earlier one.
MatchPacket_Last(p, ds) ==
    LET i == SelectLastInSeq(engine.rules, LAMBDA r : Matches(r, p, ds))
    IN  IF i = 0 THEN "Direct" ELSE engine.rules[i].action

\* RulesEngine::match_packet
MatchPacket(p, ds) ==
    LET i == SelectInSeq(engine.rules, LAMBDA r : Matches(r, p, ds))
    IN  IF i = 0 THEN "Direct" ELSE engine.rules[i].action

\* PacketContext::from_ip_packet gives a context for IPv4 packets only.
HasContext(p) == p.version = 4

\* handle_packet_route: a packet that is not IPv4 is sent to the transport
\* without consulting the rules or the cache.
Route(p) ==
    /\ Ready
    /\ IF HasContext(p)
       THEN LET kept == Retained(p.dst_ip) IN
            /\ entries' = [entries EXCEPT ![p.dst_ip] = kept]
            /\ domains' = Names(kept)
            /\ routed' = [to |-> MatchPacket(p, Names(kept)), packet |-> p]
       ELSE /\ routed' = [to |-> "Proxy", packet |-> p]
            /\ UNCHANGED <<entries, domains>>
    /\ UNCHANGED <<file, engine, clock>>

Tick ==
    /\ clock < MaxClock
    /\ clock' = clock + 1
    /\ UNCHANGED <<file, engine, entries, domains, routed>>

Next ==
    \/ Start \/ Reconnect
    \/ \E as \in Responses : Observe(as)
    \/ \E p \in Packets : Route(p)
    \/ Tick

Spec == Init /\ [][Next]_vars

-----------------------------------------------------------------------------
\* Every variable has its type, and the cache lists a name once per address.
TypeOK ==
    /\ file \in Files \cup {NoFile, Defaults}
    /\ engine.state \in {"none", "refused", "ready"}
    /\ clock \in 0 .. MaxClock
    /\ routed = NoRoute \/ (routed.to \in Action /\ routed.packet \in Packets)
    /\ \A ip \in Ip :
        /\ \A i \in DOMAIN entries[ip] :
                entries[ip][i].domain \in Domain /\ entries[ip][i].expires \in Nat
        /\ IsInjective(Names(entries[ip]))

\* The cache implements the view it promises: expired entries that were not
\* yet evicted are never given out, and a refresh replaces the earlier expiry.
Known ==
    UNION {{[ip |-> ip, domain |-> entries[ip][i].domain, until |-> entries[ip][i].expires] :
                i \in {j \in DOMAIN entries[ip] : entries[ip][j].expires > clock}} : ip \in Ip}

\* The response as the view sees it, with no time to live where it has no address.
Usable(as) ==
    [i \in DOMAIN as |-> [ip |-> as[i].ip, domain |-> Normalize(as[i].name),
                          ttl |-> IF as[i].type = "A" THEN as[i].ttl ELSE 0]]

View ==
    INSTANCE DomainView
    WITH known <- Known, answer <- ToSet(domains), Answers <- {Usable(as) : as \in Responses}

ViewSpec == View!Spec

\* Every condition of a running engine has a text the matcher reads: matches_ip,
\* matches_port and matches_protocol never fall into their error branches, which
\* would turn a rule off without a word, and a domain is spelt as the cache
\* spells it.
EngineIsUnderstood ==
    Ready => \A i \in DOMAIN engine.rules :
        LET when == engine.rules[i].when IN
        /\ \A f \in DOMAIN when \cap CidrField : when[f] \in DOMAIN Network
        /\ \A f \in DOMAIN when \cap PortField : \E r \in ParsePortRange(when[f]) : r # {}
        /\ \A f \in DOMAIN when \cap {"proto"} : ProtocolFromStr(when[f]) # {}
        /\ \A f \in DOMAIN when \cap DomainField : Normalize(when[f]) = when[f]

\* Rules that save_to_file writes are read back as the same rules.
SavedIsSame ==
    Ready =>
        LET lines == [i \in DOMAIN engine.rules |-> Display(engine.rules[i])]
        IN  ParseRules(lines) = {engine.rules}

\* What a line of the configuration says of an IPv4 packet whose destination has
\* the given names, as the table of match types describes it.
Says(line, p, names) ==
    LET word == Upper(line[1])
        v == line[2]
        ends == Split(v)
        Within(port) ==
            port # NoPort /\ Number[ends[1]] <= port /\ port <= Number[ends[Len(ends)]]
    IN  CASE word = "MATCH" -> TRUE
          [] word = "SRC-IP-CIDR" -> p.src_ip \in Network[v]
          [] word = "DST-IP-CIDR" -> p.dst_ip \in Network[v]
          [] word = "SRC-PORT" -> Within(p.src_port)
          [] word = "DST-PORT" -> Within(p.dst_port)
          [] word = "PROTO" -> p.proto = Lower(v)
          [] word = "DOMAIN" -> Normalize(v) \in names
          [] word = "DOMAIN-SUFFIX" -> names \cap ({Normalize(v)} \cup Below[Normalize(v)]) # {}
          [] word = "DOMAIN-KEYWORD" -> names \cap Containing[Normalize(v)] # {}
          [] word = "GEOIP" -> IF Upper(v) = "PRIVATE" THEN p.dst_ip \in Private
                               ELSE engine.db /\ Upper(v) \in Country[p.dst_ip]

\* The first line of the file that accepts an IPv4 packet decides, by the names
\* that hold when the packet is read: an expired name never routes a packet, and
\* no line means direct.
RoutedByView ==
    [][\A p \in Packets : p.version = 4 /\ Route(p) =>
        LET now == {k.domain : k \in {x \in Known : x.ip = p.dst_ip}}
            hit == {i \in DOMAIN file.rules : Says(file.rules[i], p, now)}
        IN  \/ hit = {} /\ routed'.to = "Direct"
            \/ \E i \in hit :
                  /\ \A j \in hit : i <= j
                  /\ routed'.to \in ParseAction(Last(file.rules[i]))]_vars
=============================================================================
