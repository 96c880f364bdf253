-------------------------- MODULE TransportProofs --------------------------
(***************************************************************************)
(* Theorems about module Transport, for every network, every choice of     *)
(* transports and every bound: type correctness, descending routes, an end *)
(* to forwarding and truthful receipts, from one inductive invariant.      *)
(***************************************************************************)
EXTENDS Transport, TLAPS

AnnounceOK(copy) ==
  /\ copy.packet.id \in 1 .. Len(stamps)
  /\ copy.packet.hops \in 0 .. PATHFINDER_MAX_HOPS
  /\ copy.packet.next \in (Nodes \cup {NoNode}) \ {copy.to}
  /\ copy.packet.hops > 0 => copy.packet.next # NoNode

(* A copy under way is addressed to a node on its medium and carries what  *)
(* its sender could know.                                                  *)
CopyOK(copy) ==
  /\ copy.via \in Media /\ copy.to \in copy.via
  /\ copy.packet.kind \in {"ANNOUNCE", "REQUEST", "DATA", "PROOF"}
  /\ copy.packet.kind = "ANNOUNCE" => AnnounceOK(copy)
  /\ copy.packet.kind = "DATA" => copy.packet.src \in sent
  /\ copy.packet.kind = "PROOF" => copy.packet.src \in received

NetOK == \A copy \in net : CopyOK(copy)

(* While no time passes no path grows old.                                 *)
Fresh == ~Ageing => \A n \in Nodes : \A entry \in paths[n] : entry.age = 0

(* Announces under way lead to the destination as paths do.                *)
AnnouncesLead ==
  ~Ageing => \A copy \in net : copy.packet.kind = "ANNOUNCE" =>
    Leads(copy.via, copy.packet.next, copy.packet.hops + 1)

(* A copy that the node it comes to may pass on.                           *)
Addressed(copy) == copy.packet.kind = "DATA" /\ copy.packet.next = copy.to

(* A message travels as one copy, which carries how often it has been      *)
(* forwarded.                                                              *)
OneTraveller ==
  /\ \A c, d \in net : Addressed(c) /\ Addressed(d) /\ c.packet.src = d.packet.src => c = d
  /\ \A c \in net : Addressed(c) => c.packet.hops = forwards[c.packet.src]
  /\ \A s \in Senders \ sent : forwards[s] = 0

IInv == /\ TypeOK
        /\ NetOK
        /\ Fresh
        /\ AnnouncesLead
        /\ RoutesDescend
        /\ OneTraveller
        /\ ForwardsBounded
        /\ DeliveredMeansReceived

---------------------------------------------------------------------------
(* Lemmas about the operators of Transport.                                *)

(* The copies of a packet go to the others on the interface.               *)
LEMMA HeardFact ==
  ASSUME NEW n, NEW i, NEW p, NEW copy \in Heard(n, i, p)
  PROVE  copy.to \in i /\ copy.to # n /\ copy.via = i /\ copy.packet = p
BY DEF Heard

(* Two copies of one broadcast go to different nodes.                      *)
LEMMA HeardSame ==
  ASSUME NEW n, NEW i, NEW p, NEW c \in Heard(n, i, p), NEW d \in Heard(n, i, p), c.to = d.to
  PROVE  c = d
BY DEF Heard

(* Media connect nodes.                                                    *)
LEMMA MediaFact == \A i \in Media : \A n \in i : n \in Nodes
BY TransportAssumption

(* Dropping expired paths takes paths away, and none while time stands     *)
(* still.                                                                  *)
LEMMA LiveFact ==
  ASSUME NEW n \in Nodes
  PROVE  /\ Live(n) \subseteq paths[n]
         /\ Fresh /\ ~Ageing => Live(n) = paths[n]
<1>1. Live(n) \subseteq paths[n]
  BY DEF Live
<1>2. ASSUME Fresh, ~Ageing PROVE \A entry \in paths[n] : ~Expired(entry)
  BY <1>2, TransportAssumption DEF Fresh, Expired
<1> QED
  BY <1>1, <1>2 DEF Live

(* What a rebroadcast or a path response carries: more hops than none, and *)
(* the transport's own name.                                               *)
LEMMA RebroadcastFact ==
  ASSUME NEW n \in Nodes, NEW i, NEW p, NEW hops \in Nat, NEW copy \in Rebroadcast(n, i, p, hops)
  PROVE  /\ copy.via \in Media /\ n \in copy.via /\ copy.to \in copy.via /\ copy.to # n
         /\ copy.packet = Announce(p.id, hops, n, "NONE")
         /\ hops < PATHFINDER_MAX_HOPS
<1> DEFINE q == Announce(p.id, hops, n, "NONE")
<1>1. PICK j \in Interfaces(n) : copy \in Heard(n, j, q)
  BY DEF Rebroadcast
<1>2. hops < PATHFINDER_MAX_HOPS
  BY DEF Rebroadcast
<1>3. copy.to \in j /\ copy.to # n /\ copy.via = j /\ copy.packet = q
  <2> HIDE DEF q
  <2> QED
    BY <1>1, HeardFact
<1>4. j \in Media /\ n \in j
  BY DEF Interfaces
<1> QED
  BY <1>2, <1>3, <1>4

---------------------------------------------------------------------------
(* What a step may do.                                                     *)

(* The histories only grow.                                                *)
Grows == /\ Len(stamps) <= Len(stamps') /\ Len(stamps') \in Nat
         /\ sent \subseteq sent' /\ received \subseteq received'

(* A well-formed copy stays well formed.                                   *)
LEMMA CopyStep ==
  ASSUME Grows, Len(stamps) \in Nat, NEW copy, CopyOK(copy)
  PROVE  CopyOK(copy)'
BY DEF Grows, CopyOK, AnnounceOK

(* Every step keeps the type invariant.                                    *)
LEMMA TypeStep == TypeOK /\ NetOK /\ [Next]_vars => TypeOK'
<1> SUFFICES ASSUME TypeOK, NetOK, [Next]_vars PROVE TypeOK'
  OBVIOUS
<1> USE TransportAssumption
<1>1. ASSUME NEW i \in Media, send_announce(i) PROVE TypeOK'
  <2>1. PICK t \in Stamps : stamps' = Append(stamps, t)
    BY <1>1 DEF send_announce
  <2>2. stamps' \in Seq(Stamps) /\ Len(stamps') = Len(stamps) + 1 /\ Len(stamps) \in Nat
    BY <2>1 DEF TypeOK
  <2>3. Len(stamps') <= MaxAnnounces
    BY <1>1, <2>2 DEF send_announce, TypeOK
  <2>4. cached' \in [Nodes -> 0 .. MaxAnnounces] /\ \A n \in Nodes : cached'[n] <= Len(stamps')
    BY <1>1, <2>2, <2>3 DEF send_announce, TypeOK
  <2>5. \A n \in Nodes : \A entry \in paths[n] : entry.id <= Len(stamps')
    <3> TAKE n \in Nodes
    <3> TAKE entry \in paths[n]
    <3>1. entry.id <= Len(stamps) /\ entry.id \in Nat
      BY DEF TypeOK, PathEntry
    <3> QED
      BY <2>2, <3>1
  <2> QED
    BY <1>1, <2>2, <2>3, <2>4, <2>5 DEF send_announce, TypeOK, messages, Usable
<1>2. ASSUME NEW n \in Requesters, request_path(n) PROVE TypeOK'
  BY <1>2 DEF request_path, TypeOK, routes, messages, Usable
<1>3. ASSUME NEW n \in Senders, send_single_message(n) PROVE TypeOK'
  <2>1. n \in Nodes /\ Live(n) \subseteq paths[n]
    BY LiveFact
  <2>2. paths' \in [Nodes -> SUBSET PathEntry]
    BY <1>3, <2>1 DEF send_single_message, TypeOK
  <2>3. \A m \in Nodes : paths'[m] \subseteq paths[m]
    BY <1>3, <2>1 DEF send_single_message, TypeOK
  <2>4. ASSUME NEW m \in Nodes, NEW entry \in paths'[m]
        PROVE  /\ paths'[m] = {entry}
               /\ m \in entry.interface /\ m # entry.next
               /\ entry.id <= Len(stamps)
               /\ Usable(entry)
    BY <2>3, <2>4 DEF TypeOK
  <2> QED
    BY <1>3, <2>2, <2>4 DEF send_single_message, TypeOK, Usable
<1>4. ASSUME NEW copy \in net, Receive(copy) PROVE TypeOK'
  <2> DEFINE n == copy.to
             i == copy.via
             p == copy.packet
             rest == net \ {copy}
  <2>0. n \in Nodes /\ i \in Media /\ n \in i /\ CopyOK(copy)
    BY MediaFact DEF NetOK, CopyOK
  <2>1. CASE handle_announce(n, i, p, rest)
    <3> DEFINE hops == p.hops + 1
               entry == Entry(i, p.next, hops, p.id)
    <3>0. p.id \in 1 .. Len(stamps) /\ p.hops \in Nat /\ p.next \in Nodes \cup {NoNode} /\ p.next # n
          /\ (p.hops > 0 => p.next # NoNode)
      BY <2>0, <2>1 DEF handle_announce, CopyOK, AnnounceOK
    <3>1. CASE announces' = announces /\ paths' = paths /\ cached' = cached
      BY <2>1, <3>1 DEF handle_announce, TypeOK, messages, Usable
    <3>2. CASE announces' # announces \/ paths' # paths \/ cached' # cached
      <4>1. /\ p.hops < PATHFINDER_MAX_HOPS
            /\ announces' = [announces EXCEPT ![n] = @ \cup {[id |-> p.id, age |-> 0]}]
            /\ \/ paths' = [paths EXCEPT ![n] = {entry}] /\ cached' = [cached EXCEPT ![n] = p.id]
               \/ paths' = paths /\ cached' = cached
        BY <2>1, <3>2 DEF handle_announce
      <4>a. Len(stamps) \in Nat /\ Len(stamps) <= MaxAnnounces
        BY DEF TypeOK
      <4>2. hops \in 1 .. PATHFINDER_MAX_HOPS /\ p.id \in 1 .. MaxAnnounces /\ 0 \in 0 .. PATH_EXPIRY_SECS
        BY <3>0, <4>1, <4>a, SMTT(30)
      <4>3. entry \in PathEntry /\ [id |-> p.id, age |-> 0] \in SeenAnnounce
        BY <2>0, <3>0, <4>2 DEF Entry, PathEntry, SeenAnnounce
      <4>4. n \in entry.interface /\ n # entry.next /\ entry.id <= Len(stamps) /\ Usable(entry)
        BY <2>0, <3>0, <4>2 DEF Entry, Usable
      <4>5. announces' \in [Nodes -> SUBSET SeenAnnounce]
        BY <2>0, <4>1, <4>3 DEF TypeOK
      <4> HIDE DEF entry, hops
      <4>6. CASE paths' = [paths EXCEPT ![n] = {entry}] /\ cached' = [cached EXCEPT ![n] = p.id]
        <5>1. paths' \in [Nodes -> SUBSET PathEntry]
          BY <2>0, <4>3, <4>6 DEF TypeOK
        <5>2. cached' \in [Nodes -> 0 .. MaxAnnounces] /\ \A m \in Nodes : cached'[m] <= Len(stamps)
          BY <2>0, <3>0, <4>2, <4>6 DEF TypeOK
        <5>3. \A m \in Nodes : paths'[m] = IF m = n THEN {entry} ELSE paths[m]
          BY <2>0, <4>6 DEF TypeOK
        <5>4. ASSUME NEW m \in Nodes, NEW x \in paths'[m]
              PROVE  /\ paths'[m] = {x}
                     /\ m \in x.interface /\ m # x.next
                     /\ x.id <= Len(stamps)
                     /\ Usable(x)
          <6>1. CASE m = n
            BY <5>3, <5>4, <6>1, <4>4
          <6>2. CASE m # n
            BY <5>3, <5>4, <6>2 DEF TypeOK
          <6> QED
            BY <6>1, <6>2
        <5> QED
          BY <2>1, <4>5, <5>1, <5>2, <5>4 DEF handle_announce, TypeOK, messages, Usable
      <4>7. CASE paths' = paths /\ cached' = cached
        BY <2>1, <4>5, <4>7 DEF handle_announce, TypeOK, messages, Usable
      <4> QED
        BY <4>1, <4>6, <4>7
    <3> QED
      BY <3>1, <3>2
  <2>2. CASE handle_path_request(n, i, p, rest)
    BY <2>2 DEF handle_path_request, TypeOK, routes, messages, Usable
  <2>3. CASE handle_data(n, i, p, rest)
    <3>0. p.src \in sent /\ p.src \in Senders /\ Live(n) \subseteq paths[n]
      BY <2>0, <2>3, LiveFact DEF handle_data, CopyOK, TypeOK
    <3>1. /\ packets' \in [Nodes -> SUBSET SeenPacket]
          /\ forwards' \in [Senders -> Nat]
          /\ received' \subseteq sent
          /\ paths' = paths \/ paths' = [paths EXCEPT ![n] = Live(n)]
      <4> DEFINE add == [forwards EXCEPT ![p.src] = @ + 1]
      <4>0. /\ forwards \in [Senders -> Nat] /\ packets \in [Nodes -> SUBSET SeenPacket]
            /\ received \subseteq sent
        BY DEF TypeOK
      <4>1. add \in [Senders -> Nat]
        BY <3>0, <4>0
      <4>2. Remember(n, p.src) \in [Nodes -> SUBSET SeenPacket]
        BY <2>0, <3>0, <4>0 DEF Remember, SeenPacket
      <4>3. /\ forwards' = forwards \/ forwards' = add
            /\ packets' = packets \/ packets' = Remember(n, p.src)
            /\ received' = received \/ received' = received \cup {p.src}
            /\ paths' = paths \/ paths' = [paths EXCEPT ![n] = Live(n)]
        BY <2>3 DEF handle_data
      <4> HIDE DEF add
      <4>4. received' \subseteq sent
        BY <3>0, <4>0, <4>3
      <4>5. forwards' \in [Senders -> Nat] /\ packets' \in [Nodes -> SUBSET SeenPacket]
        BY <4>0, <4>1, <4>2, <4>3
      <4> QED
        BY <4>3, <4>4, <4>5
    <3>2. paths' \in [Nodes -> SUBSET PathEntry] /\ \A m \in Nodes : paths'[m] \subseteq paths[m]
      <4>1. CASE paths' = paths
        BY <4>1 DEF TypeOK
      <4>2. CASE paths' = [paths EXCEPT ![n] = Live(n)]
        BY <2>0, <3>0, <4>2 DEF TypeOK
      <4> QED
        BY <3>1, <4>1, <4>2
    <3>3. ASSUME NEW m \in Nodes, NEW x \in paths'[m]
          PROVE  /\ paths'[m] = {x}
                 /\ m \in x.interface /\ m # x.next
                 /\ x.id <= Len(stamps)
                 /\ Usable(x)
      BY <3>2, <3>3 DEF TypeOK
    <3> QED
      BY <2>3, <3>1, <3>2, <3>3 DEF handle_data, TypeOK, Usable
  <2>4. CASE handle_delivery_proof(n, p, rest)
    BY <2>4 DEF handle_delivery_proof, TypeOK, routes, Usable
  <2> QED
    BY <1>4, <2>1, <2>2, <2>3, <2>4 DEF Receive
<1>5. ASSUME NEW n \in Senders, tick_receipt(n) PROVE TypeOK'
  BY <1>5 DEF tick_receipt, TypeOK, routes, Usable
<1>6. ASSUME NEW copy \in net, Lose(copy) PROVE TypeOK'
  BY <1>6 DEF Lose, TypeOK, routes, messages, Usable
<1>7. CASE Elapse
  <2> DEFINE older(entry) == [entry EXCEPT !.age = IF @ < PATH_EXPIRY_SECS THEN @ + 1 ELSE @]
  <2>1. \A entry \in PathEntry :
          /\ older(entry) \in PathEntry
          /\ older(entry).interface = entry.interface /\ older(entry).next = entry.next
          /\ older(entry).hops = entry.hops /\ older(entry).id = entry.id
    BY DEF PathEntry
  <2>2. paths' = [m \in Nodes |-> {older(entry) : entry \in paths[m]}]
    BY <1>7 DEF Elapse
  <2>3. paths' \in [Nodes -> SUBSET PathEntry]
    BY <2>1, <2>2 DEF TypeOK
  <2>4. announces' \in [Nodes -> SUBSET SeenAnnounce] /\ packets' \in [Nodes -> SUBSET SeenPacket]
    <3>1. \A x \in SeenAnnounce : x.age + 1 < PATH_EXPIRY_SECS => [x EXCEPT !.age = @ + 1] \in SeenAnnounce
      BY DEF SeenAnnounce
    <3>2. \A x \in SeenPacket : x.age + 1 < PACKET_HASH_TTL_SECS => [x EXCEPT !.age = @ + 1] \in SeenPacket
      BY DEF SeenPacket
    <3>3. \A m \in Nodes : /\ Older(announces[m], PATH_EXPIRY_SECS) \subseteq SeenAnnounce
                          /\ Older(packets[m], PACKET_HASH_TTL_SECS) \subseteq SeenPacket
      BY <3>1, <3>2 DEF Older, TypeOK
    <3> QED
      BY <1>7, <3>3 DEF Elapse
  <2>5. ASSUME NEW m \in Nodes, NEW x \in paths'[m]
        PROVE  /\ paths'[m] = {x}
               /\ m \in x.interface /\ m # x.next
               /\ x.id <= Len(stamps)
               /\ Usable(x)
    <3>1. PICK entry \in paths[m] : x = older(entry)
      BY <2>2, <2>5
    <3>2. entry \in PathEntry /\ paths[m] = {entry}
      BY DEF TypeOK
    <3> QED
      BY <2>1, <2>2, <3>1, <3>2 DEF TypeOK, Usable
  <2> QED
    BY <1>7, <2>3, <2>4, <2>5 DEF Elapse, TypeOK, Usable
<1>8. CASE UNCHANGED vars
  BY <1>8 DEF vars, TypeOK, Usable
<1> QED
  BY <1>1, <1>2, <1>3, <1>4, <1>5, <1>6, <1>7, <1>8 DEF Next

(* Every step only adds to the histories.                                  *)
LEMMA GrowStep == TypeOK /\ [Next]_vars => Grows
<1> SUFFICES ASSUME TypeOK, [Next]_vars PROVE Grows
  OBVIOUS
<1>0. Len(stamps) \in Nat /\ stamps \in Seq(Stamps)
  BY DEF TypeOK
<1>1. ASSUME NEW i \in Media, send_announce(i) PROVE Grows
  <2>1. PICK t \in Stamps : stamps' = Append(stamps, t)
    BY <1>1 DEF send_announce
  <2> QED
    BY <1>0, <1>1, <2>1 DEF send_announce, messages, Grows
<1>2. ASSUME NEW n \in Requesters, request_path(n) PROVE Grows
  BY <1>0, <1>2 DEF request_path, routes, messages, Grows
<1>3. ASSUME NEW n \in Senders, send_single_message(n) PROVE Grows
  BY <1>0, <1>3 DEF send_single_message, Grows
<1>4. ASSUME NEW copy \in net, Receive(copy) PROVE Grows
  <2>1. ASSUME NEW n, NEW i, NEW p, NEW rest, handle_data(n, i, p, rest) PROVE Grows
    BY <1>0, <2>1 DEF handle_data, Grows
  <2> QED
    BY <1>0, <1>4, <2>1 DEF Receive, handle_announce, handle_path_request, handle_delivery_proof,
       routes, messages, Grows
<1>5. ASSUME NEW n \in Senders, tick_receipt(n) PROVE Grows
  BY <1>0, <1>5 DEF tick_receipt, routes, Grows
<1>6. ASSUME NEW copy \in net, Lose(copy) PROVE Grows
  BY <1>0, <1>6 DEF Lose, routes, messages, Grows
<1>7. CASE Elapse
  BY <1>0, <1>7 DEF Elapse, Grows
<1>8. CASE UNCHANGED vars
  BY <1>0, <1>8 DEF vars, Grows
<1> QED
  BY <1>1, <1>2, <1>3, <1>4, <1>5, <1>6, <1>7, <1>8 DEF Next

(* An announce comes from the destination's node itself, with no hops, or  *)
(* from a transport that now has a path of just as many.                   *)
AnnounceSent(copy) ==
  /\ copy.packet.id \in 1 .. Len(stamps')
  /\ \/ /\ copy.packet.hops = 0 /\ copy.packet.next = NoNode
        /\ Origin \in copy.via
     \/ /\ copy.packet.next \in copy.via /\ copy.packet.next # copy.to
        /\ \E entry \in paths'[copy.packet.next] : entry.hops = copy.packet.hops

CopySent(copy) ==
  /\ copy.via \in Media /\ copy.to \in copy.via
  /\ \/ copy.packet.kind = "ANNOUNCE" /\ AnnounceSent(copy)
     \/ copy.packet.kind = "REQUEST"
     \/ copy.packet.kind = "DATA" /\ copy.packet.src \in sent'
     \/ copy.packet.kind = "PROOF" /\ copy.packet.src \in received'

(* Every copy that a step adds to the medium.                              *)
LEMMA SentStep ==
  ASSUME TypeOK, NetOK, [Next]_vars, NEW copy \in net', copy \notin net
  PROVE  CopySent(copy)
<1> USE TransportAssumption
<1>0. Len(stamps) \in Nat
  BY DEF TypeOK
<1>1. ASSUME NEW i \in Media, send_announce(i) PROVE CopySent(copy)
  <2> DEFINE q == Announce(Len(stamps'), 0, NoNode, "NONE")
  <2>1. q.kind = "ANNOUNCE" /\ q.id = Len(stamps') /\ q.hops = 0 /\ q.next = NoNode
    BY DEF Announce
  <2>2. copy \in Heard(Origin, i, q)
    BY <1>1 DEF send_announce
  <2>3. Len(stamps') \in 1 .. Len(stamps')
    <3>1. PICK t \in Stamps : stamps' = Append(stamps, t)
      BY <1>1 DEF send_announce
    <3>2. Len(stamps') = Len(stamps) + 1
      BY <3>1 DEF TypeOK
    <3> QED
      BY <1>0, <3>2
  <2>4. Origin \in i
    BY <1>1 DEF send_announce, Interfaces
  <2> HIDE DEF q
  <2>5. copy.to \in i /\ copy.via = i /\ copy.packet = q
    BY <2>2, HeardFact
  <2> QED
    BY <2>1, <2>3, <2>4, <2>5 DEF CopySent, AnnounceSent
<1>2. ASSUME NEW n \in Requesters, request_path(n) PROVE CopySent(copy)
  <2> DEFINE q == PathRequest(n, requests')
  <2>1. q.kind = "REQUEST"
    BY DEF PathRequest
  <2>2. PICK i \in Interfaces(n) : copy \in Heard(n, i, q)
    BY <1>2 DEF request_path
  <2> HIDE DEF q
  <2>3. copy.to \in i /\ copy.via = i /\ copy.packet = q /\ i \in Media
    BY <2>2, HeardFact DEF Interfaces
  <2> QED
    BY <2>1, <2>3 DEF CopySent
<1>3. ASSUME NEW n \in Senders, send_single_message(n) PROVE CopySent(copy)
  <2>1. PICK entry \in Live(n) : copy \in Heard(n, entry.interface, Data(n, 0, NextHop(entry)))
    BY <1>3 DEF send_single_message
  <2>2. entry.interface \in Media
    BY LiveFact DEF TypeOK, PathEntry
  <2>3. n \in sent'
    BY <1>3 DEF send_single_message
  <2> DEFINE q == Data(n, 0, NextHop(entry))
  <2>4. q.kind = "DATA" /\ q.src = n
    BY DEF Data
  <2> HIDE DEF q
  <2>5. copy.to \in entry.interface /\ copy.via = entry.interface /\ copy.packet = q
    BY <2>1, HeardFact DEF q
  <2> QED
    BY <2>2, <2>3, <2>4, <2>5 DEF CopySent
<1>4. ASSUME NEW c \in net, Receive(c) PROVE CopySent(copy)
  <2> DEFINE n == c.to
             i == c.via
             p == c.packet
             rest == net \ {c}
  <2>0. n \in Nodes /\ i \in Media /\ n \in i /\ CopyOK(c)
    BY MediaFact DEF NetOK, CopyOK
  <2>1. CASE handle_announce(n, i, p, rest)
    <3> DEFINE hops == p.hops + 1
               entry == Entry(i, p.next, hops, p.id)
    <3>1. p.id \in 1 .. Len(stamps) /\ hops \in Nat
      BY <2>0, <2>1 DEF handle_announce, CopyOK, AnnounceOK
    <3>2. copy \in Rebroadcast(n, i, p, hops) /\ paths' = [paths EXCEPT ![n] = {entry}]
      BY <2>1 DEF handle_announce
    <3>3. entry \in paths'[n] /\ entry.hops = hops
      BY <2>0, <3>2 DEF TypeOK, Entry
    <3> DEFINE q == Announce(p.id, hops, n, "NONE")
    <3>4. q.kind = "ANNOUNCE" /\ q.id = p.id /\ q.hops = hops /\ q.next = n
      BY DEF Announce
    <3>5. /\ copy.via \in Media /\ n \in copy.via /\ copy.to \in copy.via /\ copy.to # n
          /\ copy.packet = q
      <4> HIDE DEF hops
      <4> QED
        BY <2>0, <3>1, <3>2, RebroadcastFact
    <3>6. stamps' = stamps
      BY <2>1 DEF handle_announce
    <3> HIDE DEF q, entry, hops
    <3> QED
      BY <3>1, <3>3, <3>4, <3>5, <3>6 DEF CopySent, AnnounceSent
  <2>2. CASE handle_path_request(n, i, p, rest)
    <3>1. cached[n] # 0 /\ stamps' = stamps /\ paths' = paths
      BY <2>2 DEF handle_path_request, Unseen, routes
    <3>2. cached[n] \in 1 .. Len(stamps)
      BY <1>0, <2>0, <3>1 DEF TypeOK
    <3>3. ASSUME n = Origin, NEW q, q = Announce(cached[n], 0, NoNode, "PATH_RESPONSE"), copy \in Heard(n, i, q)
          PROVE  CopySent(copy)
      <4>1. q.kind = "ANNOUNCE" /\ q.id = cached[n] /\ q.hops = 0 /\ q.next = NoNode
        BY <3>3 DEF Announce
      <4>2. copy.to \in i /\ copy.via = i /\ copy.packet = q
        BY <3>3, HeardFact
      <4> QED
        BY <2>0, <3>1, <3>2, <3>3, <4>1, <4>2 DEF CopySent, AnnounceSent
    <3>4. ASSUME NEW entry \in paths[n], NEW q, q = Announce(cached[n], entry.hops, n, "PATH_RESPONSE"),
                 copy \in Heard(n, i, q)
          PROVE  CopySent(copy)
      <4>1. q.kind = "ANNOUNCE" /\ q.id = cached[n] /\ q.hops = entry.hops /\ q.next = n
        BY <3>4 DEF Announce
      <4>2. copy.to \in i /\ copy.to # n /\ copy.via = i /\ copy.packet = q
        BY <3>4, HeardFact
      <4> QED
        BY <2>0, <3>1, <3>2, <4>1, <4>2 DEF CopySent, AnnounceSent
    <3>5. \/ n = Origin /\ copy \in Heard(n, i, Announce(cached[n], 0, NoNode, "PATH_RESPONSE"))
          \/ \E entry \in paths[n] : copy \in Heard(n, i, Announce(cached[n], entry.hops, n, "PATH_RESPONSE"))
      BY <2>2, <3>1 DEF handle_path_request, Unseen
    <3> QED
      BY <3>3, <3>4, <3>5
  <2>3. CASE handle_data(n, i, p, rest)
    <3>0. p.src \in sent /\ sent' = sent /\ Live(n) \subseteq paths[n]
      BY <2>0, <2>3, LiveFact DEF handle_data, CopyOK
    <3> DEFINE mine == p.next = NoNode \/ (n \in Transports /\ p.next = n)
    <3>1. \/ copy \in Proofs(n, i, p, mine) /\ received' = IF n = Origin /\ mine THEN received \cup {p.src} ELSE received
          \/ \E entry \in Live(n) : copy \in Heard(n, entry.interface, Relay(p, entry))
      BY <2>3 DEF handle_data
    <3>2. ASSUME copy \in Heard(n, i, Proof(p.src)), p.src \in received' PROVE CopySent(copy)
      <4>1. Proof(p.src).kind = "PROOF" /\ Proof(p.src).src = p.src
        BY DEF Proof
      <4>2. copy.to \in i /\ copy.via = i /\ copy.packet = Proof(p.src)
        BY <3>2, HeardFact
      <4> QED
        BY <2>0, <3>2, <4>1, <4>2 DEF CopySent
    <3>3. ASSUME NEW entry \in Live(n), copy \in Heard(n, entry.interface, Relay(p, entry))
          PROVE  CopySent(copy)
      <4> DEFINE q == Relay(p, entry)
      <4>1. q.kind = "DATA" /\ q.src = p.src
        BY DEF Relay, Data
      <4>2. entry.interface \in Media
        BY <2>0, <3>0 DEF TypeOK, PathEntry
      <4> HIDE DEF q
      <4>3. copy.to \in entry.interface /\ copy.via = entry.interface /\ copy.packet = q
        BY <3>3, HeardFact DEF q
      <4> QED
        BY <3>0, <4>1, <4>2, <4>3 DEF CopySent
    <3>4. copy \in Proofs(n, i, p, mine) => n = Origin /\ mine /\ copy \in Heard(n, i, Proof(p.src))
      BY DEF Proofs
    <3> QED
      BY <3>1, <3>2, <3>3, <3>4
  <2>4. CASE handle_delivery_proof(n, p, rest)
    BY <2>4 DEF handle_delivery_proof
  <2> QED
    BY <1>4, <2>1, <2>2, <2>3, <2>4 DEF Receive
<1>5. ASSUME NEW n \in Senders, tick_receipt(n) PROVE CopySent(copy)
  BY <1>5 DEF tick_receipt
<1>6. ASSUME NEW c \in net, Lose(c) PROVE CopySent(copy)
  BY <1>6 DEF Lose
<1>7. CASE Elapse
  BY <1>7 DEF Elapse
<1>8. CASE UNCHANGED vars
  BY <1>8 DEF vars
<1> QED
  BY <1>1, <1>2, <1>3, <1>4, <1>5, <1>6, <1>7, <1>8 DEF Next

(* Everything under way stays well formed.                                 *)
LEMMA NetStep == TypeOK /\ NetOK /\ [Next]_vars => NetOK'
<1> SUFFICES ASSUME TypeOK, NetOK, [Next]_vars, NEW copy \in net' PROVE CopyOK(copy)'
  BY DEF NetOK
<1>1. Grows /\ Len(stamps) \in Nat /\ TypeOK'
  BY GrowStep, TypeStep DEF TypeOK
<1>2. CASE copy \in net
  BY <1>1, <1>2, CopyStep DEF NetOK
<1>3. CASE copy \notin net
  <2>1. CopySent(copy)
    BY <1>3, SentStep
  <2>2. ASSUME copy.packet.kind = "ANNOUNCE" PROVE AnnounceOK(copy)'
    <3>1. copy.to \in Nodes /\ AnnounceSent(copy)
      BY <2>1, <2>2, MediaFact DEF CopySent
    <3>2. CASE copy.packet.hops = 0 /\ copy.packet.next = NoNode
      BY <3>1, <3>2, TransportAssumption DEF AnnounceSent, AnnounceOK
    <3>3. ASSUME copy.packet.next \in copy.via, copy.packet.next # copy.to,
                 NEW entry \in paths'[copy.packet.next], entry.hops = copy.packet.hops
          PROVE  AnnounceOK(copy)'
      <4>1. copy.packet.next \in Nodes
        BY <2>1, <3>3, MediaFact DEF CopySent
      <4>2. entry.hops \in 1 .. PATHFINDER_MAX_HOPS
        BY <1>1, <3>3, <4>1 DEF TypeOK, PathEntry
      <4> QED
        BY <3>1, <3>3, <4>1, <4>2, TransportAssumption DEF AnnounceSent, AnnounceOK
    <3> QED
      BY <3>1, <3>2, <3>3 DEF AnnounceSent
  <2> QED
    BY <2>1, <2>2 DEF CopySent, CopyOK
<1> QED
  BY <1>2, <1>3

(* The path an announce offers.                                            *)
Offer(copy) == Entry(copy.via, copy.packet.next, copy.packet.hops + 1, copy.packet.id)

(* Node n has the path it had, or took a better one from an announce.      *)
KeptOrTaken(n) ==
  \/ paths'[n] = paths[n]
  \/ \E copy \in net :
       /\ copy.packet.kind = "ANNOUNCE"
       /\ paths'[n] = {Offer(copy)}
       /\ \A old \in paths[n] : Offer(copy).hops <= old.hops

(* While time stands still no node loses its path or takes a longer one.   *)
LEMMA PathStep ==
  ASSUME TypeOK, NetOK, Fresh, ~Ageing, [Next]_vars, NEW n \in Nodes
  PROVE  KeptOrTaken(n)
<1> USE TransportAssumption
<1>0. \A m \in Nodes : [paths EXCEPT ![m] = Live(m)] = paths
  BY LiveFact DEF TypeOK
<1>1. ASSUME NEW copy \in net, Receive(copy) PROVE KeptOrTaken(n)
  <2>0. copy.to \in Nodes /\ CopyOK(copy)
    BY MediaFact DEF NetOK, CopyOK
  <2>1. CASE handle_announce(copy.to, copy.via, copy.packet, net \ {copy})
    <3> DEFINE entry == Offer(copy)
    <3>1. \/ paths' = paths
          \/ paths' = [paths EXCEPT ![copy.to] = {entry}] /\ update(copy.to, entry)
      BY <2>1 DEF handle_announce, Offer
    <3>2. copy.packet.kind = "ANNOUNCE"
      BY <2>1 DEF handle_announce
    <3>3. ASSUME update(copy.to, entry), NEW old \in paths[copy.to] PROVE entry.hops <= old.hops
      <4>1. copy.packet.hops + 1 \in Nat /\ entry.hops = copy.packet.hops + 1
        BY <2>0, <3>2 DEF CopyOK, AnnounceOK, Entry, Offer
      <4>2. old.hops \in Nat /\ ~Expired(old)
        BY <2>0, <3>3 DEF TypeOK, PathEntry, Fresh, Expired
      <4> HIDE DEF entry
      <4>3. entry.hops < old.hops \/ entry.hops = old.hops
        BY <3>3, <4>2 DEF update
      <4> QED
        BY <4>1, <4>2, <4>3
    <3>4. CASE n = copy.to /\ paths' = [paths EXCEPT ![copy.to] = {entry}] /\ update(copy.to, entry)
      <4>1. paths'[n] = {entry}
        BY <3>4 DEF TypeOK
      <4> QED
        BY <3>2, <3>3, <3>4, <4>1 DEF KeptOrTaken
    <3>5. CASE n # copy.to \/ paths' = paths
      <4>1. paths'[n] = paths[n]
        BY <2>0, <3>1, <3>5 DEF TypeOK
      <4> QED
        BY <4>1 DEF KeptOrTaken
    <3> QED
      BY <3>1, <3>4, <3>5
  <2>2. CASE handle_data(copy.to, copy.via, copy.packet, net \ {copy})
    BY <1>0, <2>0, <2>2 DEF handle_data, KeptOrTaken
  <2> QED
    BY <1>1, <2>1, <2>2 DEF Receive, handle_path_request, handle_delivery_proof, routes, KeptOrTaken
<1>2. ASSUME NEW m \in Senders, send_single_message(m) PROVE KeptOrTaken(n)
  BY <1>0, <1>2 DEF send_single_message, KeptOrTaken
<1>3. ASSUME NEW i \in Media, send_announce(i) PROVE KeptOrTaken(n)
  BY <1>3 DEF send_announce, KeptOrTaken
<1>4. ASSUME NEW m \in Requesters, request_path(m) PROVE KeptOrTaken(n)
  BY <1>4 DEF request_path, routes, KeptOrTaken
<1>5. ASSUME NEW m \in Senders, tick_receipt(m) PROVE KeptOrTaken(n)
  BY <1>5 DEF tick_receipt, KeptOrTaken
<1>6. ASSUME NEW copy \in net, Lose(copy) PROVE KeptOrTaken(n)
  BY <1>6 DEF Lose, routes, KeptOrTaken
<1>7. CASE UNCHANGED vars
  BY <1>7 DEF vars, KeptOrTaken
<1>8. ~Elapse
  BY DEF Elapse
<1> QED
  BY <1>1, <1>2, <1>3, <1>4, <1>5, <1>6, <1>7, <1>8 DEF Next

(* So what leads to the destination goes on doing so.                      *)
LEMMA LeadsStep ==
  ASSUME TypeOK, NetOK, Fresh, ~Ageing, [Next]_vars,
         NEW i \in Media, NEW next, NEW hops \in Nat, Leads(i, next, hops)
  PROVE  Leads(i, next, hops)'
<1>1. CASE hops = 1
  BY <1>1 DEF Leads
<1>2. CASE hops # 1
  <2>1. next \in i /\ next \in Nodes
    BY <1>2, MediaFact DEF Leads
  <2>2. PICK onward \in paths[next] : onward.hops < hops
    BY <1>2 DEF Leads
  <2>3. onward.hops \in Nat
    BY <2>1 DEF TypeOK, PathEntry
  <2>4. \E entry \in paths'[next] : entry.hops < hops
    <3>1. CASE paths'[next] = paths[next]
      BY <2>2, <3>1
    <3>2. ASSUME NEW copy \in net, NEW entry, copy.packet.kind = "ANNOUNCE",
                 entry = Offer(copy),
                 paths'[next] = {entry}, \A old \in paths[next] : entry.hops <= old.hops
          PROVE  \E x \in paths'[next] : x.hops < hops
      <4>1. entry.hops \in Nat
        BY <3>2, TransportAssumption DEF NetOK, CopyOK, AnnounceOK, Entry, Offer
      <4>2. entry.hops <= onward.hops
        BY <3>2
      <4>3. entry.hops < hops
        BY <2>2, <2>3, <4>1, <4>2
      <4> QED
        BY <3>2, <4>3
    <3> QED
      BY <2>1, <3>1, <3>2, PathStep DEF KeptOrTaken
  <2> QED
    BY <1>2, <2>1, <2>4 DEF Leads
<1> QED
  BY <1>1, <1>2

(* Paths that are taken are new, and none is lost while time stands still. *)
LEMMA FreshStep == TypeOK /\ NetOK /\ Fresh /\ [Next]_vars => Fresh'
<1> SUFFICES ASSUME TypeOK, NetOK, Fresh, [Next]_vars, ~Ageing,
                    NEW n \in Nodes, NEW entry \in paths'[n]
             PROVE  entry.age = 0
  BY DEF Fresh
<1>1. KeptOrTaken(n)
  BY PathStep
<1>2. \A copy \in net : Offer(copy).age = 0
  BY DEF Offer, Entry
<1> QED
  BY <1>1, <1>2 DEF KeptOrTaken, Fresh

(* Announces under way go on leading to the destination, and so do new     *)
(* ones: their sender has the path they speak of.                          *)
LEMMA LeadStep == TypeOK /\ NetOK /\ Fresh /\ AnnouncesLead /\ [Next]_vars => AnnouncesLead'
<1> SUFFICES ASSUME TypeOK, NetOK, Fresh, AnnouncesLead, [Next]_vars, ~Ageing,
                    NEW copy \in net', copy.packet.kind = "ANNOUNCE"
             PROVE  Leads(copy.via, copy.packet.next, copy.packet.hops + 1)'
  BY DEF AnnouncesLead
<1>1. CASE copy \in net
  <2>1. copy.via \in Media /\ copy.packet.hops + 1 \in Nat
    BY <1>1, TransportAssumption DEF NetOK, CopyOK, AnnounceOK
  <2>2. Leads(copy.via, copy.packet.next, copy.packet.hops + 1)
    BY <1>1 DEF AnnouncesLead
  <2> QED
    BY <2>1, <2>2, LeadsStep
<1>2. CASE copy \notin net
  <2>1. copy.via \in Media /\ AnnounceSent(copy)
    BY <1>2, SentStep DEF CopySent
  <2>2. CASE copy.packet.hops = 0 /\ Origin \in copy.via
    BY <2>2 DEF Leads
  <2>3. ASSUME copy.packet.next \in copy.via,
               NEW entry \in paths'[copy.packet.next], entry.hops = copy.packet.hops
        PROVE  Leads(copy.via, copy.packet.next, copy.packet.hops + 1)'
    <3>1. copy.packet.next \in Nodes
      BY <2>1, <2>3, MediaFact
    <3>2. entry.hops \in 1 .. PATHFINDER_MAX_HOPS
      BY <2>3, <3>1, TypeStep DEF TypeOK, PathEntry
    <3>3. copy.packet.hops \in Nat /\ copy.packet.hops # 0
      BY <2>3, <3>2, TransportAssumption
    <3> QED
      BY <2>3, <3>3 DEF Leads
  <2> QED
    BY <2>1, <2>2, <2>3 DEF AnnounceSent
<1> QED
  BY <1>1, <1>2

(* Routes go on descending: a path taken is the announce's.                *)
LEMMA RoutesStep ==
  TypeOK /\ NetOK /\ Fresh /\ AnnouncesLead /\ RoutesDescend /\ [Next]_vars => RoutesDescend'
<1> SUFFICES ASSUME TypeOK, NetOK, Fresh, AnnouncesLead, RoutesDescend, [Next]_vars, ~Ageing,
                    NEW n \in Nodes, NEW entry \in paths'[n]
             PROVE  Leads(entry.interface, entry.next, entry.hops)'
  BY DEF RoutesDescend
<1>1. CASE entry \in paths[n]
  <2>1. entry.interface \in Media /\ entry.hops \in Nat
    BY <1>1 DEF TypeOK, PathEntry
  <2>2. Leads(entry.interface, entry.next, entry.hops)
    BY <1>1 DEF RoutesDescend
  <2> QED
    BY <2>1, <2>2, LeadsStep
<1>2. CASE entry \notin paths[n]
  <2>1. PICK copy \in net : copy.packet.kind = "ANNOUNCE" /\ entry = Offer(copy)
    BY <1>2, PathStep DEF KeptOrTaken
  <2>2. entry.interface = copy.via /\ entry.next = copy.packet.next /\ entry.hops = copy.packet.hops + 1
    BY <2>1 DEF Offer, Entry
  <2>3. copy.via \in Media /\ copy.packet.hops + 1 \in Nat
    BY <2>1, TransportAssumption DEF NetOK, CopyOK, AnnounceOK
  <2>4. Leads(copy.via, copy.packet.next, copy.packet.hops + 1)
    BY <2>1 DEF AnnouncesLead
  <2>5. Leads(copy.via, copy.packet.next, copy.packet.hops + 1)'
    BY <2>3, <2>4, LeadsStep
  <2> QED
    BY <2>2, <2>5
<1> QED
  BY <1>1, <1>2

(* Only send_single_message and handle_data put messages on a medium.      *)
NoNewData ==
  /\ \A copy \in net' : copy.packet.kind = "DATA" => copy \in net
  /\ forwards' = forwards /\ sent \subseteq sent'

LEMMA NoNewDataStep ==
  ASSUME [Next]_vars
  PROVE  \/ NoNewData
         \/ \E n \in Senders : send_single_message(n)
         \/ \E copy \in net : handle_data(copy.to, copy.via, copy.packet, net \ {copy})
<1>1. ASSUME NEW i \in Media, send_announce(i) PROVE NoNewData
  <2> DEFINE q == Announce(Len(stamps'), 0, NoNode, "NONE")
  <2>1. q.kind = "ANNOUNCE"
    BY DEF Announce
  <2>2. \A copy \in net' : copy \in net \/ copy \in Heard(Origin, i, q)
    BY <1>1 DEF send_announce
  <2> HIDE DEF q
  <2> QED
    BY <1>1, <2>1, <2>2, HeardFact DEF send_announce, messages, NoNewData
<1>2. ASSUME NEW n \in Requesters, request_path(n) PROVE NoNewData
  <2> DEFINE q == PathRequest(n, requests')
  <2>1. q.kind = "REQUEST"
    BY DEF PathRequest
  <2>2. \A copy \in net' : copy \in net \/ \E i \in Interfaces(n) : copy \in Heard(n, i, q)
    BY <1>2 DEF request_path
  <2> HIDE DEF q
  <2> QED
    BY <1>2, <2>1, <2>2, HeardFact DEF request_path, messages, NoNewData
<1>3. ASSUME NEW n, NEW i, NEW p, NEW rest, rest \subseteq net, handle_announce(n, i, p, rest)
      PROVE  NoNewData
  <2> DEFINE q == Announce(p.id, p.hops + 1, n, "NONE")
  <2>1. q.kind = "ANNOUNCE"
    BY DEF Announce
  <2>2. \A copy \in net' : copy \in net \/ \E j \in Interfaces(n) : copy \in Heard(n, j, q)
    BY <1>3 DEF handle_announce, Rebroadcast
  <2> HIDE DEF q
  <2> QED
    BY <1>3, <2>1, <2>2, HeardFact DEF handle_announce, messages, NoNewData
<1>4. ASSUME NEW n, NEW i, NEW p, NEW rest, rest \subseteq net, handle_path_request(n, i, p, rest)
      PROVE  NoNewData
  <2>1. \A id, hops, next, context : Announce(id, hops, next, context).kind = "ANNOUNCE"
    BY DEF Announce
  <2>2. \A copy \in net' : copy \in net \/ \E id, hops, next, context :
          copy \in Heard(n, i, Announce(id, hops, next, context))
    BY <1>4 DEF handle_path_request, Unseen
  <2>3. \A copy \in net' : copy.packet.kind = "DATA" => copy \in net
    BY <2>1, <2>2, HeardFact
  <2> QED
    BY <1>4, <2>3 DEF handle_path_request, messages, NoNewData
<1>5. ASSUME NEW n, NEW p, NEW rest, rest \subseteq net, handle_delivery_proof(n, p, rest)
      PROVE  NoNewData
  BY <1>5 DEF handle_delivery_proof, NoNewData
<1>6. ASSUME NEW copy \in net, Receive(copy)
      PROVE  NoNewData \/ handle_data(copy.to, copy.via, copy.packet, net \ {copy})
  <2>1. net \ {copy} \subseteq net
    OBVIOUS
  <2> QED
    BY <1>3, <1>4, <1>5, <1>6, <2>1 DEF Receive
<1>7. ASSUME NEW n \in Senders, tick_receipt(n) PROVE NoNewData
  BY <1>7 DEF tick_receipt, NoNewData
<1>8. ASSUME NEW copy \in net, Lose(copy) PROVE NoNewData
  BY <1>8 DEF Lose, messages, NoNewData
<1>9. CASE Elapse
  BY <1>9 DEF Elapse, NoNewData
<1>10. CASE UNCHANGED vars
  BY <1>10 DEF vars, NoNewData
<1> QED
  BY <1>1, <1>2, <1>6, <1>7, <1>8, <1>9, <1>10 DEF Next

(* A message is forwarded from the one copy that may be, which is used up, *)
(* to one other, which carries the count; the count stops at the limit.    *)
LEMMA TravelStep ==
  TypeOK /\ NetOK /\ OneTraveller /\ ForwardsBounded /\ [Next]_vars
    => OneTraveller' /\ ForwardsBounded'
<1> SUFFICES ASSUME TypeOK, NetOK, OneTraveller, ForwardsBounded, [Next]_vars
             PROVE  OneTraveller' /\ ForwardsBounded'
  OBVIOUS
<1> USE TransportAssumption
<1>0. forwards \in [Senders -> Nat] /\ sent \subseteq Senders
  BY DEF TypeOK
<1>1. CASE NoNewData
  BY <1>1 DEF NoNewData, OneTraveller, Addressed, ForwardsBounded
<1>2. ASSUME NEW n \in Senders, send_single_message(n) PROVE OneTraveller' /\ ForwardsBounded'
  <2>1. PICK entry \in Live(n) : net' = net \cup Heard(n, entry.interface, Data(n, 0, NextHop(entry)))
    BY <1>2 DEF send_single_message
  <2> DEFINE q == Data(n, 0, NextHop(entry))
             new == Heard(n, entry.interface, q)
  <2>2. q.src = n /\ q.hops = 0
    BY DEF Data
  <2>3. forwards' = forwards /\ sent' = sent \cup {n} /\ n \notin sent /\ forwards[n] = 0
    BY <1>2 DEF send_single_message, OneTraveller
  <2>4. \A c \in net : Addressed(c) => c.packet.src # n
    BY <2>3 DEF NetOK, CopyOK, Addressed
  <2>5. \A c \in new : c.packet = q
    BY HeardFact
  <2>6. \A c, d \in new : Addressed(c) /\ Addressed(d) => c = d
    BY <2>5, HeardSame DEF Addressed
  <2>7. net' = net \cup new
    BY <2>1
  <2> HIDE DEF new, q
  <2>8. \A c \in net' : Addressed(c) => c.packet.hops = forwards[c.packet.src]
    BY <2>2, <2>3, <2>5, <2>7 DEF OneTraveller
  <2>9. \A c, d \in net' : Addressed(c) /\ Addressed(d) /\ c.packet.src = d.packet.src => c = d
    BY <2>2, <2>4, <2>5, <2>6, <2>7 DEF OneTraveller
  <2> QED
    BY <2>3, <2>8, <2>9 DEF OneTraveller, Addressed, ForwardsBounded
<1>3. ASSUME NEW copy \in net, handle_data(copy.to, copy.via, copy.packet, net \ {copy})
      PROVE  OneTraveller' /\ ForwardsBounded'
  <2> DEFINE n == copy.to
             i == copy.via
             p == copy.packet
             rest == net \ {copy}
             mine == p.next = NoNode \/ (n \in Transports /\ p.next = n)
             relayed == mine /\ n # Origin /\ p.next # NoNode /\ p.hops + 1 < PATHFINDER_MAX_HOPS
             onward == {entry \in Live(n) : relayed /\ entry.interface # i /\ Usable(entry)}
             new == UNION {Heard(n, entry.interface, Relay(p, entry)) : entry \in onward}
  <2>0. n \in Nodes /\ p.kind = "DATA" /\ p.src \in sent /\ p.src \in Senders /\ sent' = sent
    BY <1>0, <1>3, MediaFact DEF handle_data, NetOK, CopyOK
  <2>1. \A c \in Proofs(n, i, p, mine) : c.packet.kind = "PROOF"
    <3>1. Proof(p.src).kind = "PROOF"
      BY DEF Proof
    <3> QED
      BY <3>1, HeardFact DEF Proofs
  <2>2. CASE forwards' = forwards /\ net' \subseteq rest \cup Proofs(n, i, p, mine)
    <3>1. \A c \in net' : Addressed(c) => c \in net
      BY <2>1, <2>2 DEF Addressed
    <3> QED
      BY <2>0, <2>2, <3>1 DEF OneTraveller, Addressed, ForwardsBounded
  <2>3. CASE /\ onward # {}
             /\ forwards' = [forwards EXCEPT ![p.src] = @ + 1]
             /\ net' = rest \cup Proofs(n, i, p, mine) \cup new
    <3>1. PICK entry \in onward : TRUE
      BY <2>3
    <3>2. paths[n] = {entry} /\ onward = {entry}
      BY <2>0, <3>1, LiveFact DEF TypeOK
    <3> DEFINE q == Relay(p, entry)
    <3>3. new = Heard(n, entry.interface, q)
      BY <3>2
    <3>4. Addressed(copy) /\ p.hops + 1 < PATHFINDER_MAX_HOPS
      BY <2>0, <3>1 DEF Addressed
    <3>5. p.hops = forwards[p.src] /\ p.hops \in Nat
      BY <1>0, <2>0, <3>4 DEF OneTraveller
    <3>6. q.src = p.src /\ q.hops = p.hops + 1
      BY DEF Relay, Data
    <3>7. \A s \in Senders : forwards'[s] = IF s = p.src THEN p.hops + 1 ELSE forwards[s]
      BY <1>0, <2>0, <2>3, <3>5
    <3>8. \A c \in new : c.packet = q
      BY <3>3, HeardFact
    <3>9. \A c, d \in new : Addressed(c) /\ Addressed(d) => c = d
      BY <3>3, <3>8, HeardSame DEF Addressed
    <3>10. \A c \in net' : Addressed(c) => c \in rest \/ c \in new
      BY <2>1, <2>3 DEF Addressed
    <3>11. \A c \in rest : Addressed(c) => c.packet.src # p.src /\ c.packet.src \in Senders
      BY <1>0, <3>4 DEF OneTraveller, NetOK, CopyOK, Addressed
    <3> HIDE DEF new, q, onward
    <3>12. \A c \in net' : Addressed(c) => c.packet.hops = forwards'[c.packet.src]
      BY <2>0, <3>6, <3>7, <3>8, <3>10, <3>11 DEF OneTraveller
    <3>13. \A c, d \in net' : Addressed(c) /\ Addressed(d) /\ c.packet.src = d.packet.src => c = d
      BY <3>6, <3>8, <3>9, <3>10, <3>11 DEF OneTraveller
    <3>14. \A s \in Senders \ sent : forwards'[s] = 0
      BY <2>0, <3>7 DEF OneTraveller
    <3>15. ForwardsBounded'
      BY <3>4, <3>7 DEF ForwardsBounded
    <3> QED
      BY <2>0, <3>12, <3>13, <3>14, <3>15 DEF OneTraveller, Addressed
  <2> QED
    BY <1>3, <2>2, <2>3 DEF handle_data
<1> QED
  BY <1>1, <1>2, <1>3, NoNewDataStep

(* A proof under way speaks the truth, and nothing received is lost again. *)
LEMMA DeliveredStep ==
  TypeOK /\ NetOK /\ DeliveredMeansReceived /\ [Next]_vars => DeliveredMeansReceived'
<1> SUFFICES ASSUME TypeOK, NetOK, DeliveredMeansReceived, [Next]_vars PROVE DeliveredMeansReceived'
  OBVIOUS
<1>0. received \subseteq received'
  BY GrowStep DEF Grows
<1>1. CASE delivered' = delivered
  BY <1>0, <1>1 DEF DeliveredMeansReceived
<1>2. ASSUME NEW copy \in net, handle_delivery_proof(copy.to, copy.packet, net \ {copy})
      PROVE  DeliveredMeansReceived'
  <2>1. copy.packet.src \in received
    BY <1>2 DEF handle_delivery_proof, NetOK, CopyOK
  <2>2. delivered' \subseteq delivered \cup {copy.packet.src}
    BY <1>2 DEF handle_delivery_proof
  <2> QED
    BY <1>0, <2>1, <2>2 DEF DeliveredMeansReceived
<1>3. ASSUME NEW copy \in net, Receive(copy) PROVE DeliveredMeansReceived'
  BY <1>1, <1>2, <1>3 DEF Receive, handle_announce, handle_path_request, handle_data, messages
<1> QED
  BY <1>1, <1>3 DEF Next, send_announce, request_path, send_single_message, tick_receipt, Lose, Elapse,
     messages, vars

---------------------------------------------------------------------------
(* The theorems.                                                           *)

(* The inductive invariant holds of every reachable state.                 *)
THEOREM Invariance == Spec => []IInv
<1>1. Init => IInv
  <2> SUFFICES ASSUME Init PROVE IInv
    OBVIOUS
  <2>1. TypeOK
    BY TransportAssumption DEF Init, TypeOK
  <2> QED
    BY <2>1, TransportAssumption DEF Init, IInv, NetOK, Fresh, AnnouncesLead, RoutesDescend, OneTraveller,
       ForwardsBounded, DeliveredMeansReceived
<1>2. IInv /\ [Next]_vars => IInv'
  BY TypeStep, NetStep, FreshStep, LeadStep, RoutesStep, TravelStep, DeliveredStep DEF IInv
<1> QED
  BY <1>1, <1>2, PTL DEF Spec

(* Type correctness of the path tables, the dedup memories and the         *)
(* histories; no path of more than one hop lacks a next transport.         *)
THEOREM TypeCorrect == Spec => []TypeOK
<1>1. IInv => TypeOK
  BY DEF IInv
<1> QED
  BY <1>1, Invariance, PTL

(* In every network, with any transports, however announces and path       *)
(* responses race: until paths expire the path tables lead every node to   *)
(* the destination, hop by hop, without a circle.                          *)
THEOREM RoutesLead == Spec => []RoutesDescend
<1>1. IInv => RoutesDescend
  BY DEF IInv
<1> QED
  BY <1>1, Invariance, PTL

(* In every network, whatever circles expired paths and path responses     *)
(* make, however soon seen_packets forgets and however long copies are     *)
(* under way: a message is forwarded fewer than PATHFINDER_MAX_HOPS times. *)
THEOREM TravelEnds == Spec => []ForwardsBounded
<1>1. IInv => ForwardsBounded
  BY DEF IInv
<1> QED
  BY <1>1, Invariance, PTL

(* A receipt is confirmed only for a message that was received.            *)
THEOREM ReceiptsTruthful == Spec => []DeliveredMeansReceived
<1>1. IInv => DeliveredMeansReceived
  BY DEF IInv
<1> QED
  BY <1>1, Invariance, PTL
===========================================================================
