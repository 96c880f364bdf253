---------------------------- MODULE Transport -----------------------------
(***************************************************************************)
(* Announces, the path table, path requests, forwarding and delivery       *)
(* receipts for one SINGLE destination in a network of nodes, from         *)
(* crates/reticulum-node/src/node.rs and path_table.rs.  Paths to          *)
(* different destinations do not influence each other.                     *)
(*                                                                         *)
(* An interface is named by the medium behind it, the set of the nodes     *)
(* attached: two for a TCP connection, more for a UDP broadcast or a radio *)
(* channel, on which every other node hears what one sends.  A transport   *)
(* id is the node's name.  Copies are lost and reordered, and each is      *)
(* handled once; what a second copy would meet is the dedup below.  An     *)
(* announce is identified by its random_hash, here the number of the       *)
(* send_announce call, and a message by its sender: each sends one.        *)
(* Ages are as in module Link.  Nothing bounds how long a copy is under    *)
(* way, so that the 60 s of seen_packets may be over when it arrives.      *)
(***************************************************************************)
EXTENDS Naturals, FiniteSets, Sequences

CONSTANTS
  Nodes, Media,          \* the network: media are sets of nodes
  Origin,                \* the node whose local destination this is
  Transports,            \* the nodes with transport_enabled
  PATHFINDER_MAX_HOPS,
  PATH_EXPIRY_SECS,
  PACKET_HASH_TTL_SECS,
  Stamps,                \* values of the last five bytes of a random_hash
  MaxAnnounces, MaxRequests,  \* bounds on send_announce and request_path
  Requesters,            \* the nodes that call request_path
  Senders,               \* the nodes that send a message
  Lossy, Ageing,         \* TRUE: packets may be lost; time passes
  prove,                 \* the destination's proof strategy
  NoNode

ASSUME TransportAssumption ==
  /\ IsFiniteSet(Nodes) /\ Media \subseteq SUBSET Nodes
  /\ Origin \in Nodes /\ Transports \subseteq Nodes /\ Senders \cup Requesters \subseteq Nodes \ {Origin}
  /\ {PATHFINDER_MAX_HOPS, PATH_EXPIRY_SECS, PACKET_HASH_TTL_SECS} \subseteq Nat \ {0}
  /\ Stamps \subseteq Nat
  /\ MaxAnnounces \in Nat /\ MaxRequests \in Nat
  /\ Lossy \in BOOLEAN /\ Ageing \in BOOLEAN /\ prove \in BOOLEAN
  /\ NoNode \notin Nodes

VARIABLES
  stamps,     \* the timestamp bytes of each announce so far
  paths,      \* the path table entry of each node; the empty set: none
  cached,     \* cached_announces: the random_hash kept by each node; 0: none
  announces,  \* seen_announces: the random_hashes remembered, with their ages
  packets,    \* seen_packets: the messages each node remembers, with their ages
  net,        \* packets under way
  requests,   \* request_path calls so far
  sent,       \* nodes that have sent their message
  receipts,   \* nodes whose receipt is pending
  received,   \* messages the destination has emitted as Event::Message
  delivered,  \* nodes that have emitted Event::Delivered
  forwards    \* how often each message has been forwarded, by whomsoever

vars == <<stamps, paths, cached, announces, packets, net, requests, sent,
          receipts, received, delivered, forwards>>
messages == <<packets, sent, receipts, received, delivered, forwards>>
routes == <<stamps, paths, cached, announces>>

Interfaces(n) == {i \in Media : n \in i}

(* The copies of a packet that the others on an interface get.             *)
Heard(n, i, p) == {[to |-> m, via |-> i, packet |-> p] : m \in i \ {n}}

(* A HEADER_1 packet has no next hop.                                      *)
Announce(id, hops, next, context) ==
  [kind |-> "ANNOUNCE", id |-> id, hops |-> hops, next |-> next, context |-> context]

PathRequest(n, tag) ==
  [kind |-> "REQUEST", requester |-> IF n \in Transports THEN n ELSE NoNode, tag |-> tag]

Data(src, hops, next) == [kind |-> "DATA", src |-> src, hops |-> hops, next |-> next]

Proof(src) == [kind |-> "PROOF", src |-> src]

Entry(i, next, hops, id) ==
  [interface |-> i, next |-> next, hops |-> hops, id |-> id, age |-> 0]

Expired(entry) == entry.age >= PATH_EXPIRY_SECS

(* The entry after PathTable::prune.                                       *)
Live(n) == {entry \in paths[n] : ~Expired(entry)}

(* Mutant of update: the longer route is preferred.                        *)
update_longer(n, entry) ==
  \A old \in paths[n] :
    \/ Expired(old)
    \/ entry.hops > old.hops
    \/ entry.hops = old.hops /\ stamps[entry.id] > stamps[old.id]

(* PathTable::update: is the entry taken?                                  *)
update(n, entry) ==
  \A old \in paths[n] :
    \/ Expired(old)
    \/ entry.hops < old.hops
    \/ entry.hops = old.hops /\ stamps[entry.id] > stamps[old.id]

---------------------------------------------------------------------------
Init ==
  /\ stamps = <<>>
  /\ paths = [n \in Nodes |-> {}]
  /\ cached = [n \in Nodes |-> 0]
  /\ announces = [n \in Nodes |-> {}]
  /\ packets = [n \in Nodes |-> {}]
  /\ net = {}
  /\ requests = 0
  /\ sent = {} /\ receipts = {} /\ received = {} /\ delivered = {}
  /\ forwards = [s \in Senders |-> 0]

(* send_announce on one interface.  All ten bytes of the random_hash are   *)
(* random, and the last five of them are what receivers take for a time.   *)
send_announce(i) ==
  /\ i \in Interfaces(Origin)
  /\ Len(stamps) < MaxAnnounces
  /\ \E t \in Stamps : stamps' = Append(stamps, t)
  /\ cached' = [cached EXCEPT ![Origin] = Len(stamps')]
  /\ net' = net \cup Heard(Origin, i, Announce(Len(stamps'), 0, NoNode, "NONE"))
  /\ UNCHANGED <<paths, announces, requests, messages>>

request_path(n) ==
  /\ requests < MaxRequests
  /\ requests' = requests + 1
  /\ net' = net \cup UNION {Heard(n, i, PathRequest(n, requests')) : i \in Interfaces(n)}
  /\ UNCHANGED <<routes, messages>>

(* Mutant of NextHop: a distant destination is addressed like a neighbour. *)
NextHopLocal(entry) == NoNode

(* The transport that a message along a path is addressed to, with a       *)
(* HEADER_2, when the destination is more than one hop away.               *)
NextHop(entry) == IF entry.hops > 1 THEN entry.next ELSE NoNode

(* A distant destination without a next transport cannot be addressed.     *)
Usable(entry) == entry.hops > 1 => entry.next # NoNode

(* send_single_message, with a receipt.  Expired paths are dropped first.  *)
send_single_message(n) ==
  /\ n \notin sent
  /\ \E entry \in Live(n) :
       /\ Usable(entry)
       /\ net' = net \cup Heard(n, entry.interface, Data(n, 0, NextHop(entry)))
  /\ sent' = sent \cup {n}
  /\ receipts' = receipts \cup {n}
  /\ paths' = [paths EXCEPT ![n] = Live(n)]
  /\ UNCHANGED <<stamps, cached, announces, requests, packets, received, delivered, forwards>>

(* Mutant of Rebroadcast: the announce keeps its HEADER_1.                 *)
RebroadcastHeader1(n, i, p, hops) ==
  IF n \in Transports /\ hops < PATHFINDER_MAX_HOPS /\ p.context # "PATH_RESPONSE"
  THEN UNION {Heard(n, j, Announce(p.id, hops, NoNode, "NONE")) : j \in Interfaces(n) \ {i}}
  ELSE {}

(* Mutant of Rebroadcast: the hop limit is one short.                      *)
RebroadcastShort(n, i, p, hops) ==
  IF n \in Transports /\ hops + 1 < PATHFINDER_MAX_HOPS /\ p.context # "PATH_RESPONSE"
  THEN UNION {Heard(n, j, Announce(p.id, hops, n, "NONE")) : j \in Interfaces(n) \ {i}}
  ELSE {}

(* An announce that a transport has taken goes out on every other          *)
(* interface, in the transport's name.                                     *)
Rebroadcast(n, i, p, hops) ==
  IF n \in Transports /\ hops < PATHFINDER_MAX_HOPS /\ p.context # "PATH_RESPONSE"
  THEN UNION {Heard(n, j, Announce(p.id, hops, n, "NONE")) : j \in Interfaces(n) \ {i}}
  ELSE {}

(* handle_announce, after the hop limit of handle_inbound_inner.  The      *)
(* destination's own node ignores it, and so does a node that remembers    *)
(* its random_hash; it is remembered before the path table decides.        *)
handle_announce(n, i, p, rest) ==
  /\ p.kind = "ANNOUNCE"
  /\ LET hops == p.hops + 1
         entry == Entry(i, p.next, hops, p.id)
         new == /\ n # Origin /\ p.hops < PATHFINDER_MAX_HOPS
                /\ \A a \in announces[n] : a.id # p.id
     IN \/ /\ new
           /\ announces' = [announces EXCEPT ![n] = @ \cup {[id |-> p.id, age |-> 0]}]
           /\ \/ /\ update(n, entry)
                 /\ paths' = [paths EXCEPT ![n] = {entry}]
                 /\ cached' = [cached EXCEPT ![n] = p.id]
                 /\ net' = rest \cup Rebroadcast(n, i, p, hops)
              \/ /\ ~update(n, entry)
                 /\ net' = rest
                 /\ UNCHANGED <<paths, cached>>
        \/ /\ ~new
           /\ net' = rest
           /\ UNCHANGED <<paths, cached, announces>>
  /\ UNCHANGED <<stamps, requests, messages>>

(* seen_path_requests: once a node has handled a request, the copies that  *)
(* its other interfaces bring are dropped.                                 *)
Unseen(n, p, rest) == {copy \in rest : copy.to # n \/ copy.packet # p}

(* handle_path_request: the destination's node, or a transport with a      *)
(* path, live or not, answers from its cached announce, unless the path    *)
(* leads through the requester.                                            *)
handle_path_request(n, i, p, rest) ==
  /\ p.kind = "REQUEST"
  /\ net' = Unseen(n, p, rest) \cup
       IF cached[n] = 0 THEN {}
       ELSE IF n = Origin THEN Heard(n, i, Announce(cached[n], 0, NoNode, "PATH_RESPONSE"))
       ELSE IF n \notin Transports THEN {}
       ELSE UNION {Heard(n, i, Announce(cached[n], entry.hops, n, "PATH_RESPONSE")) :
               entry \in {entry \in paths[n] : p.requester = NoNode \/ entry.next # p.requester}}
  /\ UNCHANGED <<routes, requests, messages>>

(* handle_inbound_inner: every message heard is remembered for a while.    *)
Remember(n, src) == [packets EXCEPT ![n] = @ \cup {[src |-> src, age |-> 0]}]

Remembers(n, src) == \E m \in packets[n] : m.src = src

(* Mutant of Relay: the hop that was counted on arrival is not passed on.  *)
RelaySame(p, entry) == Data(p.src, p.hops, NextHop(entry))

(* What a transport passes on: the message, with one hop more.             *)
Relay(p, entry) == Data(p.src, p.hops + 1, NextHop(entry))

(* Mutant of Proofs: every node that hears a message proves it.            *)
ProofsEarly(n, i, p, mine) == IF prove THEN Heard(n, i, Proof(p.src)) ELSE {}

(* The destination's node proves what it has emitted, if its strategy says *)
(* so, to the interface it came from.                                      *)
Proofs(n, i, p, mine) ==
  IF prove /\ n = Origin /\ mine THEN Heard(n, i, Proof(p.src)) ELSE {}

(* handle_data: one addressed to another transport is ignored; the         *)
(* destination's node emits the message; a transport that was addressed    *)
(* passes it on along its live path, but never to where it came from.      *)
handle_data(n, i, p, rest) ==
  /\ p.kind = "DATA"
  /\ UNCHANGED <<stamps, cached, announces, requests, sent, receipts, delivered>>
  /\ \/ /\ p.hops >= PATHFINDER_MAX_HOPS \/ Remembers(n, p.src)
        /\ net' = rest
        /\ UNCHANGED <<paths, packets, received, forwards>>
     \/ /\ p.hops < PATHFINDER_MAX_HOPS /\ ~Remembers(n, p.src)
        /\ packets' = Remember(n, p.src)
        /\ LET mine == p.next = NoNode \/ (n \in Transports /\ p.next = n)
               relayed == mine /\ n # Origin /\ p.next # NoNode /\ p.hops + 1 < PATHFINDER_MAX_HOPS
               onward == {entry \in Live(n) : relayed /\ entry.interface # i /\ Usable(entry)}
           IN /\ received' = IF n = Origin /\ mine THEN received \cup {p.src} ELSE received
              /\ paths' = IF relayed THEN [paths EXCEPT ![n] = Live(n)] ELSE paths
              /\ forwards' = IF onward = {} THEN forwards
                             ELSE [forwards EXCEPT ![p.src] = @ + 1]
              /\ net' = rest \cup Proofs(n, i, p, mine) \cup
                   UNION {Heard(n, entry.interface, Relay(p, entry)) : entry \in onward}

(* handle_delivery_proof: a pending receipt is settled; nobody else cares, *)
(* and nobody passes a proof on.                                           *)
handle_delivery_proof(n, p, rest) ==
  /\ p.kind = "PROOF"
  /\ net' = rest
  /\ LET mine == n = p.src /\ n \in receipts
     IN /\ receipts' = IF mine THEN receipts \ {n} ELSE receipts
        /\ delivered' = IF mine THEN delivered \cup {n} ELSE delivered
  /\ UNCHANGED <<routes, requests, packets, sent, received, forwards>>

(* tick_inner: a receipt that has waited RECEIPT_TIMEOUT_SECS is dropped.  *)
tick_receipt(n) ==
  /\ Ageing
  /\ n \in receipts
  /\ receipts' = receipts \ {n}
  /\ UNCHANGED <<routes, requests, packets, sent, received, delivered, forwards, net>>

---------------------------------------------------------------------------
(* The environment.                                                        *)

Lose(copy) ==
  /\ Lossy
  /\ net' = net \ {copy}
  /\ UNCHANGED <<routes, requests, messages>>

(* What is left of a dedup memory one unit of time later, when maybe_prune *)
(* has dropped what is ttl old.                                            *)
Older(memory, ttl) == {[m EXCEPT !.age = @ + 1] : m \in {m \in memory : m.age + 1 < ttl}}

(* Time passes: paths and the dedup memories grow old.                     *)
Elapse ==
  /\ Ageing
  /\ paths' = [n \in Nodes |-> {[entry EXCEPT !.age = IF @ < PATH_EXPIRY_SECS THEN @ + 1 ELSE @] :
                                 entry \in paths[n]}]
  /\ announces' = [n \in Nodes |-> Older(announces[n], PATH_EXPIRY_SECS)]
  /\ packets' = [n \in Nodes |-> Older(packets[n], PACKET_HASH_TTL_SECS)]
  /\ UNCHANGED <<stamps, cached, requests, sent, receipts, received, delivered, forwards, net>>

Receive(copy) ==
  LET n == copy.to
      i == copy.via
      p == copy.packet
      rest == net \ {copy}
  IN \/ handle_announce(n, i, p, rest)
     \/ handle_path_request(n, i, p, rest)
     \/ handle_data(n, i, p, rest)
     \/ handle_delivery_proof(n, p, rest)

Next ==
  \/ \E i \in Media : send_announce(i)
  \/ \E n \in Requesters : request_path(n)
  \/ \E n \in Senders : send_single_message(n)
  \/ \E copy \in net : Receive(copy)
  \/ \E n \in Senders : tick_receipt(n)
  \/ \E copy \in net : Lose(copy)
  \/ Elapse

Spec == Init /\ [][Next]_vars

(* The medium gets on with it.                                             *)
FairSpec == Spec /\ WF_vars(\E copy \in net : Receive(copy))

---------------------------------------------------------------------------
(* Properties.                                                             *)

PathEntry ==
  [interface : Media, next : Nodes \cup {NoNode}, hops : 1 .. PATHFINDER_MAX_HOPS,
   id : 1 .. MaxAnnounces, age : 0 .. PATH_EXPIRY_SECS]

SeenAnnounce == [id : 1 .. MaxAnnounces, age : 0 .. PATH_EXPIRY_SECS]

SeenPacket == [src : Senders, age : 0 .. PACKET_HASH_TTL_SECS]

(* Type correctness; a node has at most one path, on an interface of its   *)
(* own, not through itself, and when it is longer than one hop with a next *)
(* transport, without which send_single_message and handle_data fail.      *)
TypeOK ==
  /\ stamps \in Seq(Stamps) /\ Len(stamps) <= MaxAnnounces
  /\ paths \in [Nodes -> SUBSET PathEntry]
  /\ cached \in [Nodes -> 0 .. MaxAnnounces]
  /\ announces \in [Nodes -> SUBSET SeenAnnounce]
  /\ packets \in [Nodes -> SUBSET SeenPacket]
  /\ forwards \in [Senders -> Nat]
  /\ requests \in 0 .. MaxRequests
  /\ sent \subseteq Senders
  /\ receipts \subseteq sent /\ received \subseteq sent /\ delivered \subseteq sent
  /\ \A n \in Nodes : cached[n] <= Len(stamps)
  /\ \A n \in Nodes : \A entry \in paths[n] :
       /\ paths[n] = {entry}
       /\ n \in entry.interface /\ n # entry.next
       /\ entry.id <= Len(stamps)
       /\ Usable(entry)

(* What an announce promises to those who hear it on interface i, and a    *)
(* path to its owner: within hops - 1 further hops there is a way.         *)
Leads(i, next, hops) ==
  IF hops = 1 THEN Origin \in i
  ELSE next \in i /\ \E onward \in paths[next] : onward.hops < hops

(* Routes descend: until paths expire, the next node on a path is the      *)
(* destination's own or has a path of fewer hops itself.  So following the *)
(* path tables reaches the destination and never runs in a circle, however *)
(* announces of different age race each other.                             *)
RoutesDescend ==
  ~Ageing => \A n \in Nodes : \A entry \in paths[n] :
    Leads(entry.interface, entry.next, entry.hops)

(* Every message's travel ends.  Expired paths and path responses can lead *)
(* routes into a circle, and a message that takes longer than the memory   *)
(* of seen_packets for one round is passed on by the same transports once  *)
(* more; the hops it carries stop it even then, because no two copies of   *)
(* it are ever under way to be forwarded.                                  *)
ForwardsBounded == \A s \in Senders : forwards[s] < PATHFINDER_MAX_HOPS

(* Event::Delivered means that the destination has the message, even when  *)
(* the receipt was about to expire.                                        *)
DeliveredMeansReceived == delivered \subseteq received

(* In a network that loses nothing, while paths last, every message that   *)
(* send_single_message accepts reaches its destination.                    *)
MessagesArrive == \A s \in Senders : s \in sent ~> s \in received

(* One announce gives a path to every node that transports connect.        *)
PathsSpread == (Len(stamps) > 0) ~> \A n \in Nodes \ {Origin} : paths[n] # {}
===========================================================================
