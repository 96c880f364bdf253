# A TLA+ verification project for reticulum_network_rs

The repository is a Rust port of the Reticulum network stack: a sans-I/O node
(`crates/reticulum-node`), pure codecs and cryptography (`reticulum-core`,
`reticulum-interface`), a tokio runtime around the node (`reticulum-tokio`), an
embedded runtime (`reticulum-embedded`), LXMF messaging (`reticulum-lxmf`), a
mobile binding (`reticulum-ffi`), a daemon and a terminal UI. This directory
models the parts that carry state and concurrency, model-checks them on small
instances and proves every safety property of the runs for every instance.

Paths below are relative to the repository; `node.rs` is
`crates/reticulum-node/src/node.rs`, `driver.rs` is
`crates/reticulum-tokio/src/driver.rs`.

## 1. Inventory

| Component | State | Operations | Talks to |
|---|---|---|---|
| Link sessions (`node.rs`, `link_state.rs`, `core/link.rs`) | `LinkEntry` per link: status, derived key, last activity, last keepalive; `seen_packets` | `establish_link`, `link_send`, `close_link`, handlers of LINKREQUEST, LRPROOF and link packets, `tick` | the peer node, through packets; the application, through events |
| Resource transfer (`resource_state.rs`, `node.rs`) | `OutboundResource`, `InboundResource` (parts, hashmap, window, outstanding, retries, last request) | `send_resource`, handlers of ADV, REQ, HMU, RESOURCE, PRF, ICL, RCL, the retry part of `tick` | a link; events |
| Announces, paths, transport (`node.rs`, `path_table.rs`) | path table, `seen_announces`, `cached_announces`, `seen_packets`, pending receipts | `send_announce`, `request_path`, `send_single_message`, handlers of announces, path requests, data and proofs, pruning and `tick` | other nodes over every interface |
| Driver and interface tasks (`driver.rs`, `tcp.rs`) | the node, one outbound sender per interface, five kinds of bounded channels | `Driver::run` (a `select!` over commands, inbound, registrations, timer), `drain_outbound`, `emit`, `run_interface`, the accept loop | node, sockets, application |
| Stream framing (`hdlc.rs`, `kiss.rs`, `tcp.rs`, `serial.rs`, `uart.rs`) | read buffers and decoder flags | `frame`, `deframe`, `recv_packet`, `take_packet`, reader thread, `KissStreamDecoder::push` | a byte stream; the interface task |
| GROUP and PLAIN destinations (`node.rs`) | none of their own | `send_group_message`, `send_plain_message` | other nodes |
| LXMF (`reticulum-lxmf`, `driver.rs`) | known sources, `pending_direct` | pack, unpack, stamps, propagation framing, direct and opportunistic sending, `emit_node_events` | links, driver |
| Auto interface (`auto.rs`) | peer table, announce timer, three sockets | `announce`, `process_discovery`, `recv_packet`, `send_packet` | interface task; other hosts of the local network |
| IFAC, UDP interface | key; socket | per-packet transformation; socket I/O | interface tasks |
| Embedded UART loop (`uart.rs`) | node, decoder | `pump_inbound`, `run_uart` | a UART |
| FFI client (`reticulum-ffi`) | Configuring / Connected / Closed under a mutex, the event handler under a lock, a shared runtime | register, connect, announce, send, disconnect, set and clear the handler, `run_events` with callbacks | driver; threads and callbacks of the application |
| TUI, daemon, command line | roster, configuration | event loops | driver |
| Cryptography, packet codec (`reticulum-core`) | none | pure functions | everything |

What is hard here:

* **Delivery.** Packets are lost, duplicated, delayed and reordered; the node
  recognises a duplicate by its hash for 60 s only, and some packets
  (keepalives, resource parts) are legitimately sent again byte for byte.
* **Timers and crashes.** Nothing is persistent; closing a link tells the peer
  nothing; the stale timer, keepalives, request retries, receipts and path
  expiry race with packets that are still under way.
* **Distributed tables.** Path tables are built from announces that race along
  ways of different length, from cached announces quoted in path responses,
  and from entries that may have expired.
* **Bounded channels.** Driver, interface tasks and application wait for room
  in each other's channels.
* **Threads and callbacks.** Methods of the FFI client are called from any thread
  and from its own callbacks, and whichever call ends last stops the runtime.
* **Streams.** TCP and serial streams are cut anywhere, overflow, and lose bytes.

What makes each part correct is stated as the properties of section 4. The
full list of hazards, each with its line and the properties that cover it, is
in `PROJECT.json`.

## 2. Modules

| Module | Models | Checked by | Proofs |
|---|---|---|---|
| `Session` | what a link promises: the abstract specification of links | as a property of `MCLink` | |
| `Link` | one link between two nodes over an unreliable medium | `MCLink` | `LinkProofs` |
| `Resource` | one resource transfer over an established link | `MCResource` | `ResourceProofs` |
| `Transport` | announces, paths, requests, forwarding and receipts for one destination in a network | `MCTransport` | `TransportProofs` |
| `Driver` | driver task, interface tasks, accept loop, application, channels | `MCDriver` | `DriverProofs` |
| `Framing` | HDLC and KISS framing and the three stream readers | `MCFraming` | `FramingProofs` |
| `Lxmf` | LXMF letters of several nodes, in their drivers and routers, on the links of `Session` | `MCLxmf` | `LxmfProofs` |
| `Client` | the FFI client with its threads, runtime and callbacks | `MCClient` | `ClientProofs` |
| `Auto` | the Auto interfaces of the hosts of a local network | `MCAuto` | `AutoProofs` |

The modules meet where the code does. `Link` implements `Session` (a refinement
that TLC checks and `LinkProofs` proves, `ImplementsSession`), and `Lxmf`
extends `Session`, so that letters are checked over what a link promises instead of over its packets. `Driver` treats the
node as a source of events and outbound packets; `Client` treats the driver of
`Driver` as something that takes commands, emits events and may end; `Auto` runs
inside the `run_interface` of `Driver`. `Resource` takes the Active link of `Link`
as given (and lets it close), and the media of `Transport` are what interface
tasks with `Framing` provide. Links share nothing with each other but the clock,
transfers nothing but their link, and paths to different destinations do not
interact in the code, so `Link`, `Resource` and `Transport` treat one of them.

**Worlds.** `Link`, `Resource` and `Lxmf` have a variable `world` that is chosen in
the initial state and never changes: a record of what the surroundings may do in
this behaviour (how late packets arrive, whether anything is lost, how often
processes restart). One run then covers several environments, and a property says
in which of them it holds.

### Session
Each end of a session is Absent, Pending, Active or Closed. Actions: `request`,
`accept`, `confirm`, `send`, `deliver`, `close`, `crash`. `deliver` is the promise:
only to an Active end, only what the peer sent, and only once if the medium is
`exact`, that is, if no copy of a packet outlives the receiver's memory of packet
hashes. It does not promise that anything is delivered, nor an order.

### Link
`status`, `key`, `activity` and `keepalive` are the fields of the `LinkEntry`
at each end ("Absent": no entry), `seen` is `seen_packets`, `net` the packets
under way. A timestamp is kept as its age, capped at the largest threshold it is
compared with, which makes the state finite without bounding the clock. Actions:
`establish_link`, `link_send`, `close_link`, `handle_link_request`,
`handle_link_proof`, `handle_link_data` (each including the dedup of
`handle_inbound`), `link_send_unheard`, `tick_stale`, `tick_keepalive`, `Elapse`, `Restart`, and
`foreign_teardown` for a peer of another implementation that sends LINKCLOSE,
which this one handles but never sends. `link_send_unheard` is a `link_send`
of a message that never reaches an Active peer; applications may send such messages for
ever, while `Msgs` bounds the ones that are told apart. A packet in `net` may be received any
number of times until it is `world.lifetime` old, or never. A key is a model value,
one for each ephemeral key of the responder; a sealed packet carries the key it
was sealed with and opens only under it. A keepalive carries nothing, so all
keepalives of one end are the same packet, as in the code. The refinement mapping
(`S`) takes the status for the phase, and history for what was sent and handed
over; a medium is exact if lifetimes stay within the dedup window.

### Resource
`inbound` has the fields of `InboundResource`; parts are numbers, `HashOf` their
map hashes. `on_part`, `next_request`, `retry_due`, `on_request`, `finalize`
translate the functions of those names. Sealed packets are unique and leave `net`
when handled; RESOURCE parts are not sealed again, so a retransmission equals the
original and `seen` decides. `close_link` and `foreign_cancel` are enabled in
a troubled world; a tick has entropy (the driver's timer) or not (the tick inside
closing a link), `zero` says that the clock still reads 0. `resent` and `starved`
are history: what was really requested again since the last window was filled.

### Transport
An interface is the medium behind it, a set of nodes. `paths[n]` has at most one
entry; `cached` and `announces` are `cached_announces` and `seen_announces`.
Handlers are whole: `handle_announce` contains the dedup, the path-table update,
the cache and the rebroadcast; `handle_data` the dedup, delivery with the proof,
or forwarding. An announce is identified by its number; its timestamp bytes are any
value of `Stamps`, because `send_announce` fills them at random. `packets[n]` is
`seen_packets`, each entry with its age: an entry is forgotten after
`PACKET_HASH_TTL_SECS`, also while copies of its packet are under way. `forwards` is
history: how often each message was forwarded.

### Driver
The driver task is at its `select!` when it has nothing to emit (`todo`) and
nothing to send (`outq`); otherwise it is inside a handler, awaiting a channel.
A handler of the node is a choice of how many events and packets it produces.
An interface task is idle at its own `select!`, writes a packet to its peer
(`run_outbound` takes the packet, `run_write` is the end of `send_packet`, if there is
one), or waits to send into the inbound channel. The application is one loop that receives events and makes
calls, as in the TUI and the daemon. `keep_alive` is the field of that name.

### Framing
Bytes are named for what the framing makes of them, among them the ones that a
mask or an escape turns into each other. `Lines` gives the streams considered,
each with its reader, buffer size and packets. A TCP read returns any number of
bytes. A byte lost on a serial line is an action of its own (`Lose`); each byte under
way carries the number of its packet, so that `hit` says which packets were damaged.
The loops of `frame` and `deframe` are recursive functions (`Loop`, from which
`Escaped`, `hdlc_run` and `kiss_run` are made), so that they can be reasoned about.

### Lxmf
`known` is `source_identities` of each node's router, `pending` the
`pending_direct` of its driver, `queue` the node events that `emit_node_events` has
still to work off, `log` what the application was told. A driver is at its select
only when its queue is empty (`AtSelect`). Commands (`LxmfSendDirect`,
`LxmfSendOpportunistic`, `EstablishLink`, `LinkSend`, `CloseLink`, `AnnounceAll`) and
arriving packets conjoin the action of `Session` with what the driver does; a letter
is sent by the round of `emit_node_events` that meets its LinkEstablished. `Crash`
ends all sessions of a node at once. `bound` is history: which link each accepted
letter was given.

### Client
`state`, `handler` and `lock` are the fields of `ReticulumClient`; `call` is where
each thread is in its method, `arcs` who holds a clone of the `Arc<Runtime>`. Only
`connect_tcp` keeps the mutex for longer than a step. A call that returns drops its
clone; the last one (`returns`) shuts the runtime down and waits (`dropped`) until
driver and `run_events` have stopped (`stop_driver`, `stop_events`), which a callback
that is running delays. The driver is cut down: it takes commands and what the network
causes (`command`, `inbound`) only when it has no event to emit (`todo`) and no packet
to send (`outq`), and it may wait in `drain_outbound` for room in the interface's
channel. A callback may change the handler, take the mutex, or call a
blocking method, which panics inside the runtime (`nested_panics`). What tokio does
is marked external in the map.

### Auto
Hosts are addresses; `hears` says whose multicasts reach whom. `process_discovery`
enters a peer and, for a multicast, answers it; its last argument says whether the answer is sent, fails, or is dropped because
`run_interface` drops the `recv_packet` between the two. `send_packet` goes through
the peers in order. A socket operation that fails ends the interface (`ends`): a
`send_to` of the announce, of an answer or of a packet, or a `recv_from`; so does a
packet above `AUTO_HW_MTU`, which the node does not prevent.
The network loses, repeats and reorders datagrams; hosts restart.

## 3. Runs

`tlc -config <cfg> <module>`; each takes from seconds to under three minutes.

| Run | Instance | Shows |
|---|---|---|
| `link` | two possible keys, one message, thresholds 2 and 4 against a dedup window of 1; three worlds: copies that outlive the window, a prompt medium without loss, one restart | TypeOK, KeyAgreement, EventProtocol: late and duplicated handshake packets never give the ends different keys, nor disturb the order of events. NoSpuriousStale: in the prompt world the stale timer never closes a link. ImplementsSession: every step is a step of `Session` or none, restarts included. HalfOpenEnds: an end that is alone closes, once its application stops sending |
| `resource` | 2 hashes per hashmap segment, window 1 to 3; two worlds: 3 parts with any loss, teardown, ticks without entropy and a clock from 0; 5 parts with at most MAX_RETRIES losses and prompt delivery | TypeOK, NeverIdle, CompleteMeansDelivered, OneOutcome, DedupHarmless, FailsAfterRetries, ReceiverEnds, and in the second world TransferCompletes |
| `transport_circle` | destination, one neighbour, behind it a ring; lossy, paths expire, `seen_packets` forgets after one step of the clock, hop limit 5, one path request | TypeOK, ForwardsBounded, DeliveredMeansReceived |
| `transport_live` | diamond with a short cut, two announces in either order of timestamps, hop limit 2 | RoutesDescend, MessagesArrive, PathsSpread |
| `transport_shared` | a leaf and two transports on a shared medium | violates MessagesArrive, see section 6 |
| `driver_safety` | two interfaces, one of them registered later, all calls, capacities 1, bursts of 2 | TypeOK (no channel overflows), EndIsReported |
| `driver_exits` | two interfaces, fairness | ExitsWhenAlone, TasksEnd |
| `driver_wedge` | one interface, capacities 2 | violates ReturnsToSelect, see section 6 |
| `framing` | two TCP streams, serial lines and UARTs with up to two damaged packets; three packets each | TypeOK (bounded memory), Intact, Recovers |
| `lxmf` | two nodes; two worlds: two letters to one destination, over two links; a letter and bytes that are no letter crossing on one link, with a restart and second announces | TypeOK, OneFate, LinkTakesLetter, KnownByAnnounce, DirectArrives |
| `client` | two threads, six calls in all (those of callbacks included), three events of the network, channels of capacity 1 | TypeOK, Served, QuietWhenClosed, OneLateCallback, CallsReturn |
| `auto` | two hosts of a group and a stranger, multicast both ways or one way, two restarts | TypeOK, OwnGroup, PeeringConverges |

CHECK_DEADLOCK is off where the system may stop: transfers finish, drivers return, interfaces end, applications make no more calls.

**Why the bounds are enough.** Link: one message per end and two keys suffice
for two ends to disagree, and the thresholds keep the order of the code's
(dedup < keepalive < stale). Resource: three parts need a hashmap update, a
window that grows and one that shrinks; five need two updates. Transport: four
nodes are the fewest with a ring that does not contain the destination; five hops
let a message go once round it and on, and with a memory of one step of the clock its
transports have forgotten it by then: one of them forwards it twice. (In
the code path entries live longer than that memory; the run passes with an expiry of 2
too, and the theorem covers every ratio of the two.) Driver: capacity 1 makes every wait
happen; two interfaces let one end while the driver is busy with the other.
Lxmf: two links in one direction
let a second letter to the same destination wait beside the first. Client: the longest
scenarios are connect, set a handler, send and a callback's call, with one event in the
callback, one in the channel and one the driver holds; and a failed connect before
them. Auto: peering concerns two hosts; the third shows that strangers do not matter.
Framing: three packets give a frame before and after a damaged one, and two
damaged ones that lose the flags between them and merge; a damaged packet may lose
any of its bytes; the TCP buffer of 7 is just large enough for the largest frame but for
its last byte and a chunk of 3, and 4 is not.

**Fairness.** Link: the clock advances and the one-second interval of the driver
keeps ticking; nothing is assumed of the medium or the application. Resource:
the same for `ReceiverEnds`; `TransferCompletes` also needs the medium to deliver
what it does not lose. Transport: the medium delivers. Driver: a task that can run
does (weak fairness); branches of a `select!` get strong fairness, because tokio
picks among the ready ones at random; nothing is assumed of sockets, of the accept
loop, or of the application except that it keeps receiving events. A write to a peer
may stall for ever (`run_write` has no fairness): `TasksEnd` says, as its premise, that
none does (`WritesEnd`), and `ReturnsToSelect` is violated even then.
`ExitsWhenAlone` is stated for an application that is never stuck in a call.
Lxmf: applications take their events and link packets arrive in the end (which
`DirectArrives` needs; closing and crashes are possible at any time). Client: threads
and tasks are scheduled, a TCP connect succeeds or fails, callbacks return; nothing is
assumed of `drain_outbound`, which may wait for ever (section 6): `CallsReturn` is stated
for behaviours in which it does not. Auto: the
interval fires; a branch of the `select!` and a datagram that is sent again and again
get their turn (strong fairness), for discovery only.

## 4. Properties

* `KeyAgreement` - until a process restarts, an initiator with a key has the
  responder's.
* `EventProtocol` - established first and once, data only then, closed last and once.
* `ImplementsSession` - `Link` implements `Session`: among other things no plaintext is
  delivered twice, unsent or to an end that is not Active, also across restarts.
* `NoSpuriousStale` - in a prompt world the stale timer closes no link in use.
* `HalfOpenEnds` - an end that is alone notices it once its application stops sending;
  while it sends it does not, since `link_send` restarts the timer that would tell it.
* `NeverIdle` - a receiver waits for parts it asked for and still lacks, or for a
  hashmap update; otherwise it would never ask again.
* `DedupHarmless` - a part the dedup would refuse is one the receiver has.
* `CompleteMeansDelivered`, `OneOutcome`, `FailsAfterRetries`, `ReceiverEnds`,
  `TransferCompletes` - what is reported is true, once, and happens.
* `RoutesDescend` - the next hop of a path is the destination or has a shorter
  path itself, so tables contain no circle until paths expire.
* `ForwardsBounded` - even when tables contain a circle and transports have forgotten that
  they had the message, it is forwarded fewer than `PATHFINDER_MAX_HOPS` times.
* `DeliveredMeansReceived`, `MessagesArrive`, `PathsSpread`.
* `EndIsReported` - the end of an interface task that the driver still lists is
  always in the inbound channel, although `drain_outbound` drops dead senders.
* `ExitsWhenAlone`, `ReturnsToSelect` - see the runs.
* `TasksEnd` - when the driver has returned, every interface task ends, from wherever it
  waits, provided that its write does not stall for ever.
* `Intact` - what comes out of a stream is accounted for: each packet delivered stands for
  one sent, in the order of sending and none twice, and is that packet unless bytes of it
  were lost.
* `Recovers` - once the stream is read, every packet that lost nothing and fits has
  come out, and at most one mangled packet for each damaged one.
* `OneFate` - until its process ends, a letter accepted for direct delivery either waits
  under its own link or was sent once, on that link.
* `LinkTakesLetter` - when the driver comes to a LinkEstablished, the link is still Active and
  takes the letter that waits for it; `pending_direct` has let go of it by then.
* `KnownByAnnounce` - a letter is shown as an LxmfMessage exactly if an announce of its
  source was reported before; otherwise it is handed over raw, not lost.
* `DirectArrives` - an accepted letter arrives unless its link or a process ends.
* `Served` - a registration answered Ok is kept until the driver runs, also when connects
  fail; only a runtime that cannot be built costs the client its node.
* `QuietWhenClosed` - after disconnect, with no call under way, nothing runs any more.
* `OneLateCallback` - a replaced handler is called at most once more.
* `CallsReturn` - unless the driver gets stuck in `drain_outbound`, every call returns: none
  waits for itself by way of mutex, channels and callback.
* `OwnGroup`, `PeeringConverges` - hosts of a group become each other's peers as soon as
  one can hear the other, and nobody else does.

Every property of a passing run is shown to depend on the code by a mutant: an
operator with the comment "Mutant of", which changes one definition the way a
plausible bug would, and under which TLC finds the property violated.

## 5. Proofs

`tlapm <module>` for each of the eight modules with theorems. Everything is proved for
every value of the constants that satisfies the named assumptions of the models:
counts are natural numbers, durations and capacities positive, null values distinct,
tables have the domains their names say. Two assumptions say more.
`TimerAssumption` (`Link`) is what the keepalive timing of `node.rs` rests on: the
keepalive interval and two dedup windows (360 s and twice 60 s) fit into the stale time (720 s). `CollisionAssumption` (`Resource`) is the collision
guard of `OutboundResource::new`; the proofs do not use it, so that safety of a
transfer does not depend on map hashes being distinct. The inductive invariants below
were checked by TLC on the instances of section 3 before they were proved, except that of
`Framing`, which says that there are certain values and leaves TLC nothing to enumerate.

Each proof has the same layout: facts about the operators; for each part of the invariant
a lemma that goes through the actions; the invariant; the properties as its
consequences. Where many actions touch a variable in the same few ways, a lemma first
reduces every step to one of those ways (in `LinkProofs`: `NetStep`,
`KeyStep`, `EventStep`, and `SendMove`, `DeliverMove`, `OtherMove` for the refinement).

**Link** (`TypeCorrect`, `KeysAgree`, `EventsInOrder`). The invariant is
`IInv == TypeOK /\ PacketsOK /\ KeylessUntilActive /\ OneKey /\ EventsFit /\ EventProtocol`.
`KeyAgreement` alone is not inductive: a proof under way must lead to the
responder's key (`OneKey`), the responder must have no key before it makes one
(`KeylessUntilActive`), and packets must have the shape their handlers expect
(`PacketsOK`). `EventProtocol` needs that an Active end has not reported
LinkClosed and has reported LinkEstablished, and one that is Absent or Pending
nothing (`EventsFit`); that data opens under the receiver's key follows from
`OneKey`.

**Timers of a link** (`StaysOpen`: `NoSpuriousStale`). `TInv` speaks of calm behaviours: a
prompt medium, no restart, nobody asked for the end. The initiator's keepalive timer drives
everything: at each moment either a keepalive is due (under way and not yet seen), or
the responder's activity is younger than the keepalive timer and a dedup window,
and the initiator's than the timer and two windows (`InTime`), because an answer leaves
only if the keepalive before it has been forgotten. `TimerAssumption` puts that below
the stale time. `Handshake` says the same of the time before the link is up.

**A link implements a session** (`LinkImplementsSession`). The initial states map to
initial states, and each step to a step of `Session` or to none. All steps but
`deliver` follow from `IInv` and the order of the handshake (`AskedFirst`); `deliver` must
be of something sent (`DataSent`, `HandedSent`) and, on an exact medium, not handed over
before. That is `HandedOnce`: a copy still under way of what was handed over is remembered
for at least as long as it can arrive, or does not open, since a process that forgot it
has forgotten the key too. It needs that a plaintext travels in one packet
(`OnePacket`) and that an initiator that may yet take a key was handed nothing
(`NothingYet`).

**Transport** (`TypeCorrect`, `RoutesLead`, `TravelEnds`,
`ReceiptsTruthful`). The invariant is `TypeOK /\ NetOK /\ Fresh /\ AnnouncesLead
/\ RoutesDescend /\ OneTraveller /\ ForwardsBounded /\ DeliveredMeansReceived`. Routes descend
because an announce promises to its receiver what a path promises to its owner:
the sender of a rebroadcast or path response has itself a path of fewer hops
(`AnnouncesLead`), and path lengths never grow while paths do not expire
(`PathStep`, `LeadsStep`). `ForwardsBounded` does not rest on
what a node remembers: of each message at most one copy addressed to a transport is
under way at any time, and the hops it carries are the times it was forwarded
(`OneTraveller`), which the hop limit bounds. A proof under way is for a received
message (`NetOK`).

**Resource** (`TypeCorrect`, `ReceiverNeverIdle`, `CompleteIsDelivered`, `OutcomesOnce`,
`DedupNeverHarms`, `FailureAfterRetries`). The invariant `RInv` joins the properties
with what packets under way may say. `Known`: the map is known up to some part, requests
name known hashes, a part under way is known and the first of its hash, an update
continues the map, and what is filed for a part has its hash. So a part that was
remembered is one that could be filed, which is `DedupHarmless`, and after any
window either something known is missing or an update was asked for, which is
`NeverIdle`. `Start`: while the advertisement is under way nothing else has happened, so
it never starts a transfer again. `Outcomes` ties the reports to the entries
`outbound_resources` and `inbound_resources`, `Delivered` the proof under way to the data, and
`Counted` the retries to requests really sent.

**Driver** (`TypeCorrect`, `EndsReported`). `TypeOK` with the capacities and
`EndIsReported` are inductive together: a task sends its report before it is done, and
the report leaves the channel only when the driver unregisters the interface.

**Lxmf** (`TypeCorrect`, `LettersHaveOneFate`, `LettersAreTaken`, `ShownIfAnnounced`). The
invariant `LInv`: events that wait in a driver are still true when it comes to them
(`QueueFits`), because commands and packets are taken only when the queue is empty; a
letter is bound to one link, a link that is asked for then, and to no other (`BoundOnce`);
what waits was accepted and what is sent was handed in (`PendingBound`, `SentUsed`); and
the router knows exactly the announced sources (`KnownHeard`). The sessions of `Lxmf` are
those of `Session`, which `LinkImplementsSession` relates to the code of links.

**Client** (`TypeCorrect`, `RegistrationsServed`, `ClosedIsQuiet`, `LateCallbackOnce`). The
invariant `CInv`: only `connect_tcp` holds the mutex from step to step (`LockFits`); nothing
runs before the client is connected and the channels of an ended driver are empty
(`DriverFits`); a runtime that has not stopped is kept by the state or a call, or is being
stopped by a call that waits for it (`RuntimeFits`), from which `QuietWhenClosed`
follows; a thread waits for each queued send (`SendsAwaited`).

**Auto** (`TypeCorrect`, `GroupsApart`). `OwnGroup` is inductive with `TypeOK`: an entry is made
only after the token matched, and packets are taken from entered peers only.

**Framing** (`RoundTrip`, `TypeCorrect`, `IntactCorrect`, `RecoversCorrect`). What `frame` and
`deframe` compute needs induction over bytes. The induction theorems of the library take a
predicate, which the provers cannot instantiate; `NatInduct` and `SeqInduct` take a set
instead, and are proved from the finiteness of intervals (a one-to-one map of a finite set
into itself is onto). With them `Loop` is known by its value on the empty sequence and on an
extended one (`LoopEmpty`, `LoopAppend`), and `RoundTrip` follows: `deframe` undoes `frame`
for every packet.

The invariant `IInv` of the stream says that there are tagged bytes `head` which the reader
holds, an account `at` of what was delivered, and the number `m` of the last packet accounted
for, such that `head` followed by the wire is a sound `Stream`: all data bytes belong to
packets after `m` (`Later`), a flag separates those of different packets (`Ordered`), what
is between two flags is a whole frame if its packet lost nothing (`Clean`), and such a packet
is ended by its own flag (`Ended`, `Closed`). `Pending` says that what still has to arrive is
under way, `Counted` is the account. `head` is the buffer of the TCP and serial readers
(`Mirrors`); of the UART decoder it is everything since the last flag, and `Decodes` says
that flags and buffer are what a decoder of the whole frame would have reached. `InPlace` is
the TCP reader that always starts at a flag while its buffer is roomy. `CutStream`,
`SendStream` and `LoseStream` show that dropping what was read, writing a frame and losing a
byte keep a stream sound; `Intact` and `Recovers` follow from `Counted` and `Pending`.
Any number of packets may be damaged.

**Only model-checked.** Liveness (`HalfOpenEnds`, `ReceiverEnds`, `TransferCompletes`,
`MessagesArrive`, `PathsSpread`, `ExitsWhenAlone`, `TasksEnd`, `DirectArrives`, `CallsReturn`,
`PeeringConverges`), which the prover does not handle; every
other property of a passing run is a theorem.

## 6. What the models show about the code

Two runs show the code at odds with the repository's documents; both quote the
line in `PROJECT.json`.

* `driver_wedge`: `drain_outbound` awaits room in an interface's channel while
  the task of that interface awaits room in the inbound channel, which only the
  driver empties. With both full neither moves again, and the timer that the
  plan of milestone 3 asks for is not served. The same happens between `emit` and an
  application that awaits a reply in the loop that receives events (give the run
  `Calls = {"Ask"}` to see it). A driver that is stuck this way answers nobody: every call
  of an FFI client then waits for ever (the premise of `CallsReturn`).
* `transport_shared`: the packet hash is recorded before the transport looks at
  whom a packet is addressed to, and covers neither hops nor transport id. On
  a shared medium a transport that overhears an earlier hop then drops the copy
  that is addressed to it.

Further behaviour of the code that the models have and that bounds what the
properties say:

* Pending links are never expired (`tick_inner` looks at Active ones only).
* A retry is counted although a tick without entropy cannot send it (`starved` in
  `FailsAfterRetries`), and a request made when the clock reads 0 is never retried
  (`stamped` in `ReceiverEnds`).
* Map hashes are compared only within the collision guard when a resource is
  made, but looked up in the whole map (`CollisionAssumption`).
* Timestamp bytes of announces are random, so which of two announces with equal
  hops makes the path is chance (`Stamps`).
* A path request is answered only from cached announces, by the destination's
  own node too; and an announce first heard as a path response is not rebroadcast
  (`PathsSpread` is checked without requests).
* A delivery proof travels one hop: a transport drops it.
* After a responder restart a late LINKREQUEST can leave two ends with different
  keys that keep each other alive with unauthenticated keepalives (`KeyAgreement` is
  stated without restarts).
* A letter whose link is closed before it is established stays in `pending_direct`;
  the application, which got the link id, is told of nothing.
* A letter that arrives before the announce of its source comes out as raw link data and
  is not looked at again (`KnownByAnnounce`).
* When the driver has ended by itself, `disconnect` fails and the client stays
  Connected: it can be neither closed nor connected again (`enqueue`). A command
  accepted just before `disconnect` may be dropped with the runtime (`stop_driver`).
* A callback that calls `announce`, `send` or `disconnect` panics in `block_on`; if its
  clone of the runtime was the last one, the runtime is stopped without being waited for
  (the exception in `QuietWhenClosed`).
* Peers of the Auto interface never expire, and one socket operation that fails ends the
  interface for all of them.
* The node checks no sizes: a message above the MTU of an interface makes its `send_packet`
  fail, and so ends the interface.
* An end of a link that keeps sending never notices that its peer is gone
  (`HalfOpenEnds`).
* A transport forgets a message after 60 s and forwards it again if it comes back later;
  only the hop limit ends that (`ForwardsBounded`).
* An interface task that writes to a stalled peer does not notice that the driver has
  returned (`WritesEnd`).

## 7. Not modelled, and the plan

Not modelled: cryptography and packet codec (pure functions tested against
vectors of the reference implementation), IFAC and UDP sockets (no state), LXMF stamps
and propagation containers (codecs; no command of the driver uses them), argument and
configuration parsing, rendering and the TUI's roster, generated bindings. `run_uart`
and its timer, GROUP and PLAIN destinations are left for later.

1. Done: `Link`, `Resource`, `Transport`, `Driver`, `Framing`, `Lxmf`, `Client`, `Auto`;
   `Session` as the abstract specification of `Link` and the ground of `Lxmf`; proofs of
   every safety property and of the refinement.
2. Models after that: a reliable transfer as the abstract specification of `Resource`;
   `run_uart`; GROUP and PLAIN destinations in `Transport`.
