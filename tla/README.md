# TLA+ models of easynet

easynet is a VPN: clients and a server exchange IP packets between TUN devices
over TCP, UDP or WebSocket, and a client routes each packet by rules into the
tunnel, to a local transparent proxy, or nowhere. These modules model its
concurrent and stateful parts. TLC checks them on small instances, TLAPS proves
the safety properties for every value of the constants. `PROJECT.json` maps each
definition to the lines it models and lists runs, mutants, hazards, findings and
theorems. Paths below are relative to `src/src/`.

    tlc -workers 2 -config sessions_table.cfg MCServerSessions
    tlapm ServerSessionsProofs.tla

## The system

| Part | Source | State | Operations | Talks to |
|---|---|---|---|---|
| session table | `server.rs` | `SESSIONS` (mutex), `NEXT_CLIENT_ID` | `handle_handshake`, `handle_disconnect`, `handle_tun_packet`, `cleanup_expired_sessions` | connection tasks, TUN task |
| connection tasks | `transport/tcp.rs`, `transport/ws.rs` | a bounded channel for each connection | the `select!` loop | session table |
| UDP server | `transport/udp.rs`, `server.rs` | the session table, keyed by socket address | `transport_io_task` | clients, over datagrams |
| client process | `client.rs`, `config.rs`, `tun_device.rs` | loaded configuration, state file, retry delay | start, attempt, handshake, save, retry | server |
| task pipelines | `common.rs`, `transport/*.rs`, `server.rs` | TUN, transport and proxy tasks, four bounded channels; on TCP and WebSocket servers one more channel for each connection | the `select!` loops, `handle_tun_packet`, the `select!` over the tasks | device, peers, proxy |
| codec | `codec/codec.rs` | decoder state, read buffer | `encode`, `decode` | TCP stream |
| rules, domain cache | `rules/`, `common.rs` | the engine, names of addresses with expiry | `from_config`, `observe_packet`, `lookup`, `match_packet` | TUN task |
| UDP proxy | `transparent_proxy/udp_proxy.rs` | session map (mutex), unbounded channels, counter | inbound task, session tasks | user-space stack, sockets |
| ICMP proxy | `transparent_proxy/icmp_proxy.rs` | the same, identifier counter, raw sockets | inbound task, session tasks | the same |
| TCP proxy | `transparent_proxy/tcp_proxy.rs` | a counter | one task per connection | the same |
| proxy life cycle | `transparent_proxy/mod.rs` | the `select!` over the three inbound loops | start, first loop to end | TUN task |
| rule parsing | `rules/rule.rs`, `config.rs` | the configuration file | `parse_compact`, `validate`, `Display` | start-up |

What is hard here: awaits with the session lock held; a session that changes
between the lookup and the insert of one handshake, with the answer sent in
between; disconnects that run after the session was taken over; lost, late and
duplicated UDP handshakes; a crash between truncating and writing the state
file; bounded channels in a circle; session tasks that end while datagrams are
being handed to them; raw sockets that see each other's replies; expiry that is
noticed only on lookup; frames cut at any byte.

What should be true: addresses are unique and stay with their session; a
registered client can be reached, and an ended one leaves nothing behind;
handshakes end; an id is on disk before it is used; packets are neither lost
nor overtaken; when one task fails the others stop; the proxy tables name
exactly the tasks that serve; the codec is a message stream; packets are routed
by the first rule that matches what is currently known.

## Modules

**`ServerSessions`** (run as `MCServerSessions`). `sessions` is `SESSIONS` and
`nextId` is `NEXT_CLIENT_ID`; `hs[c]` holds the locals of `handle_handshake`, `pc[c]` is where the task
of connection `c` waits, `queue[c]` is its channel, `tun` is the task in
`handle_tun_packet`. An action is the code from one await to the next. The lock
is held across an await only in `handle_tun_packet`, so `LockFree` is "the TUN
task is not sending". The TCP and WebSocket loops are the same code and one
process here. `told` and `num` are history: what a peer was
told, and which number an id was made with. Session ids are
UUIDs and are drawn fresh. `AddressOf` is the `u8` cast with the width as
`OctetSpace`.

**`Datagrams`, `UdpServer`, `ClientProcess`**, composed in **`UdpTunnel`** (run as
`MCUdpTunnel`). The network is the set of datagrams ever sent: one that is
never received is lost, one received again is duplicated, and order is free.
Each attempt binds a new socket, so an address is a client and an attempt. The
server handles a handshake in one step, as `transport_io_task` does between
datagrams. Data and keepalives change nothing in the table; clients send no
disconnects. The server forgets everything when its process restarts. A client is
a process that may be killed at every step; `EmptyFile` and `WriteFile` are the
two effects of `fs::write` on the state file.

**`Pipeline`** runs **`TunTask`** (`tun_io_task` and the proxy seen from its
channels) with one of two transport sides. **`IoTask`** is the loop of a client or
of the UDP server: `io` is where it waits and what it holds. **`ConnectionTasks`**
is the accept loop, the connection tasks and `handle_tun_packet` (`pump`) of a TCP
or WebSocket server; a handshake or disconnect is there only a need for the
session lock, which `pump` keeps while it waits for room. `mode` is what the
process runs, and `main` the function with the `select!` over the tasks. Tasks
are spawned: when `select!` returns an error the others run on, and when the
process exits none does. The table of `ServerSessions` is reduced to `open`, the
connections with a session: `pump` may find any of them, or none.

**`UdpProxy`**. The inbound task, split at its lock sections, and
session tasks: open, loop, remove the entry, leave. `hand[s]` is the datagram
taken and not yet sent; `relayed` and `count` number the datagrams.

**`TransparentProxy`** composes `UdpProxy` and **`TcpProxy`** (accept, count,
connect, copy) under the `select!` of `run_transparent_proxy`, which the
stand-alone binary has too. `Stop` is an error of the TCP or ICMP loop: the UDP
loop is cancelled at the await it is in, and the spawned tasks run on.

**`IcmpProxy`** (`MCIcmpProxy`). The same shape with identifiers and raw sockets:
`TargetReplies` puts a reply into the channel of every session of the target.
`Refuse` is the early return for an IPv6 upstream (both kinds are initial states). The identifier counter is
modulo `IdentSpace` (2^16 in the code).

**`ByteCodec`** (`MCByteCodec`) implements **`MessageStream`**. The wire and the
read buffer are sequences of byte positions; `Deliver` moves any number of
bytes. A header stands for its four length bytes, the body for the bytes of the
protobuf message, which is taken to be injective.

**`RuleConfig`** is the text side of the rules: a line is the sequence of its
comma separated words, and `ParseCompact`, `Validate` and `Display` work on words.
What the string functions do to a word (letter case, final dots, numbers,
networks) is given as data for the words of an instance.

**`PacketRouter`** (`MCPacketRouter`) loads a file of such lines (`Start`: refused,
defaulted when there is none, or an engine) and routes packets, across reconnects
that empty the domain cache. It implements **`DomainView`**: the cache holds
entries with expiry and drops them on lookup; the abstract state is the set of
names that have not expired.

## Runs

| Run | Result | Bounds |
|---|---|---|
| `sessions_table` | `UniqueVirtualIP`, `OneAddressPerSession`, `FewOrphanSessions`, `RouteIsCurrent`, `RegisteredIsRoutable`, `NoStrayRemoval` hold | 2 connections with 2 handshakes each, 2 ids, 2 octets, 1 packet, channel of 1, expiry 1, time up to 1 |
| `sessions_deadlock` | `HandshakeFinishes` is violated | 2 connections, 2 packets for a channel of 1, no clock |
| `udp_two_clients` | `DistinctTunnelAddresses` holds | 2 clients, 1 attempt each, 1 restart, 1 hour |
| `udp_recovery` | `PersistedBeforeUse`, `RunningIsRegistered`, `RestartKeepsAddress` hold | 1 client, 3 attempts, 1 restart, 1 hour |
| `udp_reconnect` | `ReconnectKeepsAddress` is violated | 2 attempts |
| `udp_proxy` | `TableIsServing`, `ActiveIsExact`, `TcpActiveIsExact`, `RelayedInOrder`, `ChannelDrains`, `SessionsEndAfterStop` hold | 2 pairs, 2 session tasks, 3 datagrams, 2 TCP connections |
| `icmp_proxy` | `RepliesGoHome`, `ActiveIsExact`, `NoDeadEntry`, `DeadEntryGoes` hold | 2 keys of one target, 3 tasks, 3 requests, 2 errors, 3 identifiers |
| `icmp_answered` | `ForwardedIsAnswered` is violated | 2 tasks, 2 requests, no errors |
| `codec_stream` | `NeverFails`, `InStep`, `StreamSpec`, `AllReceived` hold | 4 messages of size 0, 1, the limit and above it |
| `router_view` | `EngineIsUnderstood`, `SavedIsSame`, `ViewSpec`, `RoutedByView` hold | the addresses, names, files and packets of `MCPacketRouter`, time up to 2 |
| `pipeline` | `NothingLost`, `ClientOrderKept`, `DeviceOrderKept`, `FailureSpreads` hold | client, UDP server, TCP server with 2 connections; channels of 1, 2 packets each way, 1 reply of the proxy |
| `pipeline_keepalive` | `KeepaliveGoesOn` is violated | a client, channels of 1, 2 packets each way |

One passing run of each specification also checks its `TypeOK`, which bounds channels,
octets, identifiers and the decoder's length field.

Why these bounds are enough for the interesting cases. Two connections let one
take a session over, or get a new address, while the other still has to insert,
to disconnect or to be swept; two octets make the counter wrap at once. Expiry 1
puts a sweep between any two steps of a handshake. Three attempts let a datagram
of one attempt arrive after its successor was answered and the process was
restarted. A second handshake lets a connection own two sessions, of which its
disconnect removes one. Two session tasks for two keys let the keys be served side
by side, or give one of them a successor while its predecessor ends; three in
`icmp_proxy` do both at once. A channel of one is full at once. On the TCP server
the two packets of clients are a total over both connections (`MaxGot`), and no
packet goes to the proxy (`Direct`): its branches are those that the client and the
UDP server run. The codec's four sizes are the
empty body, a short one, the largest that `encode` accepts and one it refuses.
Symmetry is used only in runs without liveness properties.

`CHECK_DEADLOCK FALSE` is set where the bounds on packets, attempts or time end
every behaviour, and in the runs that look for a property other than deadlock.

### Disagreements with the documentation

Four runs state what the repository's `README.md` says and are violated:

- line 11, sessions survive reconnects: `sessions_deadlock` (a reconnecting client
  is never answered once the router waits with the lock held) and `udp_reconnect`
  (a retry does not present the id it was last given);
- line 13, keepalives every 3 seconds: `pipeline_keepalive`;
- line 10, direct traffic is connected locally: `icmp_answered`.

The model also shows, without a run of its own, that keepalives do not extend a
session (`Expired` reads the time of the handshake), that a late UDP handshake
moves a session to a closed socket, that a client with a token refuses the answer
of a server without one, that packets other than IPv4 skip the rules (`Route`),
and that an address reached through a CNAME is known by the alias target only.

Seen while modelling, and covered by no property: a system clock that is set back
makes every session expire (`server.rs:288`); names of addresses that are never looked
up again stay in the domain cache (`domain_cache.rs:33`); a failed bind panics in its
task and the server returns `Ok` (`tcp.rs:182`); TLS and WebSocket handshakes run
inside the accept loop, so a slow one delays the next (`ws.rs:388`); a silent TCP
relay is never given up (`tcp_proxy.rs:47`). No document of the repository says what
should happen in these cases.

## Fairness

- `ServerSessions`: strong fairness of each connection task's steps, weak
  fairness of the TUN task's. tokio polls every task that is ready, its mutex
  queues waiters in order, and `select!` picks ready branches at random, so a
  branch that is ready again and again is taken. Nothing is assumed of peers,
  except that a write to a peer ends.
- `Pipeline`: weak fairness of what each task can do without a packet from
  outside: the TUN task, the transport task, the keepalive timer, the proxy's
  capture thread, the final `select!`. What passes under it passes under the strong
  fairness that a random choice of ready branches would justify, and the
  counterexample of `pipeline_keepalive` needs no unfair choice: it ends with both
  tasks waiting at full channels. Not fair are the arrival of packets and
  failures; of connection tasks and `handle_tun_packet` nothing is assumed.
- `TransparentProxy`: weak fairness of the inbound loop after it received a
  datagram, and of each session task, its end with an empty channel included:
  targets fall silent, and then the idle timeout fires. TCP relays are not fair,
  as `copy_bidirectional` has no timeout.
- `IcmpProxy`: the tasks make progress; errors and timeouts are bounded by
  `MaxFaults`, and the target is assumed to answer.
- `ByteCodec`: bytes on the wire are delivered and the decoder is polled.

The violations of `sessions_deadlock`, `pipeline_keepalive` and `icmp_answered`
happen under this fairness.

## Proofs

All theorems hold for any sets of connections, clients, ids, keys, files and
packets, and any bounds, capacities and widths. Of the constants they assume what
the modules state in their ASSUMEs, which TLC evaluates on every run: markers such
as `NoId` are not members of the sets they are markers for, counts are naturals,
widths and capacities are positive. `WordsAssumption` of `RuleConfig` says what the
rules rely on in the string functions: converting a word twice is converting it
once, the keywords are in capitals, and an action is displayed under a name that
the parser knows.

| Module | Proves | Of |
|---|---|---|
| `ServerSessionsProofs` | `TypeOK`, `OneAddressPerSession`, `UniqueVirtualIP`, `RouteIsCurrent`, `NoStrayRemoval`, `FewOrphanSessions`, `RegisteredIsRoutable` | `ServerSessions` |
| `UdpTunnelProofs` | `TypeOK`, `PersistedBeforeUse`, `DistinctTunnelAddresses`, `RunningIsRegistered`, `RestartKeepsAddress` | `UdpTunnel` and its parts |
| `PipelineProofs` | `TypeOK`, `NothingLost`, `ClientOrderKept`, `DeviceOrderKept` | `Pipeline` and its parts |
| `TransparentProxyProofs` | `TypeOK`, `TableIsServing`, `RelayedInOrder`, `ActiveIsExact`, `TcpActiveIsExact`; that `ProxySpec` implies `Spec` of `UdpProxy` | `UdpProxy`, `TransparentProxy` |
| `IcmpProxyProofs` | `TypeOK`, `NoDeadEntry`, `ActiveIsExact`; `RepliesGoHome` while the spawned tasks are no more than the identifiers | `IcmpProxy` |
| `ByteCodecProofs` | `TypeOK`, `NeverFails`, `InStep`, `StreamSpec` | `ByteCodec` |
| `DomainCacheProofs` | `ViewSpec` | the domain cache of `PacketRouter` |
| `PacketRouterProofs` | `TypeOK`, `EngineIsUnderstood`, `SavedIsSame`, `RoutedByView` | `RuleConfig`, `PacketRouter` |

Few of these are inductive as they stand. What each needed:

**Addresses of sessions.** A handshake carries an address in locals while the
table changes. `AddressInv` ties every place that holds an id and an address
(table, locals of a pending handshake, what a peer was told) to the number `num`
the id was made with: numbers are below `nextId`, no two ids share one, and the
address is `AddressOf` of the number. That one id has one address follows at
once; that one address has one id follows while the numbers in use are fewer than
the octets, by a lemma on `%`. `RouteIsCurrent` rests on `LockFree`: every action
that changes the table is disabled while the TUN task sends.

**Life of sessions.** `StepEffect` sorts the steps into seven effects on the table
and on what peers were told, and every invariant is then shown to survive these.
`CountInv` counts the sessions of a connection: a handshake under way has not
added its session yet, so there is one less than `shakes`, and the disconnect
finds one to remove. `RouteInv` adds that what is about to be inserted is what the
peer was told, and carries the conclusion through the next handshake of the same
connection. The three theorems have the hypothesis `DistinctPeers`, that no two
connections come from one peer address, because
`handle_disconnect` finds a session by that address (`server.rs`). Connections
that are open together never share one, and in the model `Accept` sees to that; but
a peer that returns from the port of a connection whose task has not yet ended
can lose its new session to the old task's disconnect, so without the hypothesis
the statements are false. The runs use distinct addresses as well.

**UDP tunnel.** `OwnInv`: an id, wherever it is (configuration, file, a datagram
that is still in the network, the table), belongs to one client. `BearInv`: an id
goes with the address of the number it was drawn with. `DrawnInv`: in one life of
the server numbers are distinct. `KeptInv`: until an hour or a restart passes,
nothing that was answered has left the table. `SocketInv` and `IdInv` deal with late
datagrams: sockets are used once, a request of the current one has the id the
process loaded, and a client that was given another id had presented one that the
server has lost.

**Pipelines.** `NothingLost` is inductive with the types. The order on a TCP server is
not: `TakenInv` says that the packets `handle_tun_packet` took, those queued and the
one the TUN task holds come in this order, and `GivenInv` that each was given to at
most one connection, whose delivered, queued and pending packets come in this order.

**UDP and TCP proxy.** `MainInv` says what the inbound task knows between its lock
sections: the channel it holds belongs to its key, and the table has that entry or
none. So neither removal can hit a successor, as only the inbound task inserts.
The counters need that tasks between their increment and decrement form a finite
set. The theorems about the UDP proxy carry over to the composition, where a
`select!` may cancel the inbound task at any await, as each of its steps is one of
`UdpProxy` or leaves the UDP variables alone.

**ICMP proxy.** Entries belong to their tasks; with an IPv4 upstream or none a task
that has ended has no entry, though replies of other sessions arrive at its socket
and the identifier counter wraps. `RepliesGoHome` is false once the counter has gone
round, as two sessions of one target may then have one identifier; so `RepliesHome`
has the hypothesis that no more tasks were spawned than there are identifiers (2^16
in the code). The counter is drawn in another order than tasks are spawned, so
`ReturnInv` speaks of the set of tasks that have drawn: `Numbered` says that they have
the first identifiers, one each while these last. `HomeInv` says whose a request is
wherever it is: in the hand of the inbound task, in a channel, at the target, in a
socket. `OnceInv` says that it moves through these places once: it waits in one of
them, is forwarded once, answered once in each socket, and relayed by one task.

**Codec.** `CodecInv` is `InStep` with the types and the fact that only messages within
the limit were sent. A frame is taken off the front of the encoding of the messages
still owed, and one is added at its end, so the encoding has to be taken apart at
both ends: `Encoded` of a sequence is the frame of its first message and the
encoding of the rest, and of a longer sequence the encoding of the shorter one and
a frame. From the types of the bytes the decoder recognises a header, and the length in
it says where the body ends. `StreamSpec` then follows step by step: `Send` and the
decoding of a body are the abstract steps, all others stutter.

**Domain cache.** `CacheInv`: each name of an address occurs once in its list. This is why
overwriting the first entry found is enough to renew a name. The loop
of `observe_packet` and the filter of `lookup` are recursive functions; that the
names held after the loop are those of `DomainView` is shown record by record, and
that the filter drops only expired entries shows that a lookup is a stutter of the view.

**Rules.** `RulesInv`: the rules of a running engine are the lines of its file, parsed
one by one and valid. `SavedIsSame` then is a fact about one line, that
`ParseCompact` undoes `Display`; `EngineIsUnderstood` follows from `Validate`.
`RoutedByView` joins the two sides: the first line that accepts a packet with the names
the lookup returned decides (the matcher, which works on parsed rules, is
compared with `Says`, which reads the words of the line), and these names are those
the view knows (`LookedUp`).

**Recursion and induction.** What the recursive functions of the codec and the cache
compute is proved from the well-foundedness of `<` on the naturals: a set
of naturals that is not empty has a least member, so a set that has 0 and the
successor of each member below `n` has all numbers up to `n`; and a recursive
definition on `0 .. n` has a solution, since one on `0 .. k` can be extended to
`0 .. k + 1`. Each use is stated for a set and not for a predicate, as the provers
cannot instantiate one.

Only model-checked, and why: all liveness properties (`ChannelDrains`,
`SessionsEndAfterStop`, `DeadEntryGoes`, `AllReceived`, `FailureSpreads`), which are
outside the prover's logic. All other properties of passing runs are proved. Two
kinds of them have a hypothesis that the runs satisfy: `DistinctPeers` for the life of
sessions, and enough identifiers for `RepliesGoHome`.

## Not modelled

- TLS, the WebSocket upgrade and URL parsing in `transport/ws.rs`; the user-space
  IP stack; route and interface commands: library calls and I/O.
- Inside a word of a rule: splitting at commas, CIDR arithmetic, suffix tests and the
  GeoIP database are data of the instance. The other sections of the configuration
  are values without operations.
- The bytes of a TCP relay, and which addresses the proxy's filters refuse: a
  filtered connection, datagram or request is simply dropped.
- Command lines and interface set-up in `main.rs` and `bin/transparent-proxy.rs`.
- A server's tasks together with the full session table: `ServerSessions` and
  `Pipeline` meet in the lock and in the connection's channel, and each keeps the
  other side nondeterministic, as their product is out of TLC's reach.

## Plan

Done, in this order: `ServerSessions` and its proofs; `UdpTunnel` and its parts;
`UdpProxy` and its proofs; `ByteCodec`; `PacketRouter`; `IcmpProxy`; the pipelines of
client and servers; `TcpProxy` and `TransparentProxy`; `RuleConfig`; several
handshakes on one connection; the proofs about the proxies, the tunnel, the
pipelines, the sessions, the rules, the codec and the domain cache.

Open: sessions of peers that reuse an address.
