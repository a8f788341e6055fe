--------------------------- MODULE MCPacketRouter ---------------------------
(* Instances of PacketRouter for TLC. *)
EXTENDS PacketRouter

\* The words of the files and of the DNS responses that conversions change.
UpperOf == ("dst-port" :> "DST-PORT") @@ ("cn" :> "CN") @@ ("private" :> "PRIVATE")

LowerOf ==
    ("ICMP" :> "icmp") @@ ("Direct" :> "direct") @@ ("Proxy" :> "proxy")
        @@ ("Reject" :> "reject") @@ ("DROP" :> "drop")

NormalOf == ("WWW.x" :> "www.x") @@ ("www.x." :> "www.x") @@ ("X" :> "x") @@ ("..." :> "")

DashesOf ==
    ("20-25" :> <<"20", "25">>) @@ ("25-20" :> <<"25", "20">>)
        @@ ("20-25-80" :> <<"20", "25", "80">>) @@ ("20-" :> <<"20", "">>)

NumberOf == ("20" :> 20) @@ ("25" :> 25) @@ ("80" :> 80)

NetworkOf == ("net1" :> {1}) @@ ("net3" :> {3}) @@ ("all" :> {1, 2, 3})

CountryOf == (1 :> {"CN", "US"}) @@ (2 :> {"US"}) @@ (3 :> {})

BelowOf == ("x" :> {"www.x"}) @@ ("www.x" :> {})

ContainingOf == ("cdn" :> {"cdn"})

Load(lines, db) == [rules |-> lines, geoip |-> db]

\* A line of most kinds, in several spellings, the one for an address before the
\* ones for names, and a catch-all.
Mixed ==
    Load(<<<<"dst-port", "20-25", "DROP">>,
           <<"DOMAIN", "www.x.", "proxy">>,
           <<"DOMAIN-KEYWORD", "cdn", "Reject">>,
           <<"GEOIP", "cn", "direct">>,
           <<"PROTO", "ICMP", "proxy">>,
           <<"DST-IP-CIDR", "net3", "proxy">>,
           <<"MATCH", "reject">>>>, TRUE)

\* The other kinds, and no catch-all.
Rest ==
    Load(<<<<"SRC-PORT", "25", "reject">>,
           <<"DOMAIN-SUFFIX", "X", "proxy">>,
           <<"GEOIP", "private", "reject">>,
           <<"SRC-IP-CIDR", "net3", "direct">>>>, FALSE)

\* A first line that is refused, each in its own way, before one that is fine.
Refusable ==
    {<<"", "x", "direct">>, <<"IP", "net1", "direct">>, <<"MATCH", "x", "direct">>,
     <<"PROTO", "tcp">>, <<"PROTO", "", "direct">>, <<"PROTO", "tcp", "allow">>,
     <<"PROTO", "sctp", "direct">>, <<"DOMAIN", "...", "direct">>,
     <<"DOMAIN", "a/b", "direct">>, <<"GEOIP", "a b", "direct">>,
     <<"SRC-IP-CIDR", "net", "direct">>, <<"SRC-PORT", "25-20", "direct">>,
     <<"DST-PORT", "20-25-80", "direct">>, <<"DST-PORT", "20-", "direct">>,
     <<"DST-PORT", "99999", "direct">>}

SomeFiles == {Mixed, Rest} \cup {Load(<<bad, <<"MATCH", "proxy">>>>, FALSE) : bad \in Refusable}

A(n, ip, ttl) == [type |-> "A", name |-> n, ip |-> ip, ttl |-> ttl]

\* Responses with one or two A records: refreshes, another spelling of a name,
\* a zero TTL, one address under two names, one name at two addresses, and an
\* alias before the address of the name it stands for.
SomeResponses ==
    {<<A("www.x", 1, 2)>>, <<A("WWW.x", 1, 1)>>, <<A("www.x", 1, 0)>>, <<A("...", 2, 1)>>,
     <<A("cdn", 1, 1), A("cdn", 2, 2)>>, <<A("www.x", 2, 1), A("www.x", 2, 2)>>,
     <<[type |-> "CNAME", name |-> "www.x", ip |-> 2, ttl |-> 2], A("cdn", 2, 1)>>}

Packet(ip, port) ==
    [version |-> 4, src_ip |-> 3, dst_ip |-> ip, src_port |-> port, dst_port |-> port,
     proto |-> IF port = NoPort THEN "icmp" ELSE "tcp"]

V6 == [version |-> 6]

SomePackets == {Packet(1, 80), Packet(2, 80), Packet(2, NoPort), Packet(3, 25), V6}
=============================================================================
