-------------------------- MODULE ResourceProofs --------------------------
(***************************************************************************)
(* Theorems about module Resource, for any number of parts and map hashes, *)
(* windows, retries and timeouts.                                          *)
(***************************************************************************)
EXTENDS Resource, TLAPS

(* A part that is the first of its hash: those are the ones that are sent. *)
First(p) == \A j \in Part : HashOf[j] = HashOf[p] => p <= j

KnownHashes(r) == {HashOf[i] : i \in r.map}

AskedHashes(r) == {HashOf[i] : i \in Missing(r) \cap r.map}

(* The map is known from the beginning up to some part.                    *)
Prefix(r) == \A i \in r.map, j \in Part : j < i => j \in r.map

(* The bytes kept for a part are those of the first part of its hash.      *)
StoredFirst(r) ==
  \A i \in Part : r.stored[i] # 0 => HashOf[r.stored[i]] = HashOf[i] /\ First(r.stored[i])

(* A receiver that waits for something.                                    *)
Asking(r) ==
  /\ ~is_complete(r)
  /\ r.outstanding # {} \/ r.waiting_for_hmu
  /\ r.outstanding \subseteq AskedHashes(r)

(* A packet under way speaks of what the receiver knows: a request names   *)
(* known hashes, a part is known and the first of its hash, and an update  *)
(* of the map continues it.                                                *)
PacketFits(q, r) ==
  /\ q.kind = "RESOURCE_REQ" => q.hashes \subseteq KnownHashes(r) /\ q.last \subseteq KnownHashes(r)
  /\ q.kind = "RESOURCE" => q.part \in r.map /\ First(q.part)
  /\ q.kind = "RESOURCE_HMU" => q.segment * HASHMAP_MAX_LEN \in r.map

Known ==
  /\ Prefix(inbound) /\ StoredFirst(inbound)
  /\ \A q \in net : PacketFits(q, inbound)

Reported(e) == {events[e][i] : i \in 1 .. Len(events[e])}

(* Before the advertisement arrives there is nothing else on its way but a *)
(* cancel, and nothing has been received or reported.                      *)
Unstarted ==
  outbound = "None" \/ Plain("RESOURCE_ADV") \in net =>
    /\ ~receiving /\ DOMAIN seen = {}
    /\ net \subseteq {Plain("RESOURCE_ADV"), Plain("RESOURCE_ICL")}
    /\ ~cancelled => events["receiver"] = <<>>
    /\ "ResourceComplete" \notin Reported("sender")
    /\ outbound = "None" => net = {}

(* Cancels come from foreign peers.                                        *)
Cancels == Plain("RESOURCE_ICL") \in net \/ Plain("RESOURCE_RCL") \in net => cancelled

Start == Unstarted /\ Cancels

(* What has been reported, by the state of each end.                       *)
Outcomes ==
  ~cancelled =>
    /\ outbound # "Removed" => events["sender"] = <<>>
    /\ Len(events["sender"]) <= 1
    /\ receiving => events["receiver"] = <<"ResourceStarted">>
    /\ Len(events["receiver"]) <= 2
    /\ events["receiver"] # <<>> => events["receiver"][1] = "ResourceStarted"

(* A proof on its way proves that the data is there.                       *)
Delivered ==
  Plain("RESOURCE_PRF") \in net \/ "ResourceComplete" \in Reported("sender") =>
    "ResourceComplete" \in Reported("receiver") /\ finalize(inbound) /\ ~receiving

(* Retries that count have been sent.                                      *)
Counted == receiving /\ ~starved => resent >= inbound.retries

Counts == Counted /\ FailsAfterRetries

RInv ==
  /\ TypeOK /\ NeverIdle /\ Known /\ Start /\ Outcomes /\ Delivered /\ Counts /\ DedupHarmless

---------------------------------------------------------------------------
(* The operators.                                                          *)

LEMMA WorldFact ==
  ASSUME TypeOK
  PROVE  /\ world.parts \in 1 .. N /\ world.losses \in Nat /\ world.zero \in BOOLEAN
         /\ N \in Nat /\ Part = 1 .. world.parts /\ Part \subseteq 1 .. N /\ Part \subseteq Nat \ {0}
         /\ \A i \in Part : HashOf[i] \in Hash
BY ResourceAssumption DEF TypeOK, Part, Hash

LEMMA StaticFact ==
  ASSUME world' = world
  PROVE  Part' = Part /\ Hash' = Hash /\ Inbound' = Inbound /\ Packet' = Packet
BY DEF Part, Hash, Inbound, Packet

LEMMA InboundFact ==
  ASSUME NEW r \in Inbound
  PROVE  /\ r.map \subseteq Part /\ r.stored \in [Part -> Part \cup {0}] /\ r.outstanding \subseteq Hash
         /\ r.window \in WINDOW_MIN .. WINDOW_MAX /\ r.retries \in 0 .. MAX_RETRIES
         /\ r.age \in 0 .. REQUEST_TIMEOUT_SECS /\ r.stamped \in BOOLEAN /\ r.waiting_for_hmu \in BOOLEAN
         /\ Missing(r) \subseteq Part
BY DEF Inbound, Missing

LEMMA AdvertisementFact ==
  ASSUME TypeOK
  PROVE  /\ from_advertisement \in Inbound /\ Prefix(from_advertisement) /\ StoredFirst(from_advertisement)
         /\ from_advertisement.outstanding = {} /\ from_advertisement.retries = 0
<1>1. from_advertisement \in Inbound
  <2>1. Segment(0) \subseteq Part
    BY DEF Segment
  <2>2. WINDOW \in WINDOW_MIN .. WINDOW_MAX /\ 0 \in 0 .. MAX_RETRIES /\ 0 \in 0 .. REQUEST_TIMEOUT_SECS
    BY ResourceAssumption
  <2> QED
    BY <2>1, <2>2 DEF from_advertisement, Inbound
<1>2. Prefix(from_advertisement)
  BY WorldFact, ResourceAssumption DEF Prefix, from_advertisement, Segment
<1>3. StoredFirst(from_advertisement)
  BY DEF StoredFirst, from_advertisement
<1> QED
  BY <1>1, <1>2, <1>3 DEF from_advertisement

(* A request: what it names is known, and the receiver waits for it.       *)
LEMMA RequestFact ==
  ASSUME TypeOK, NEW r \in Inbound, NEW first \in Part, FirstMissing(r, first),
         r.outstanding \subseteq AskedHashes(r)
  PROVE  LET n == next_request(r, first)
             q == Request(r, first)
         IN /\ n \in Inbound /\ n.map = r.map /\ n.stored = r.stored /\ n.retries = r.retries
            /\ Asking(n)
            /\ q \in Packet /\ q.kind = "RESOURCE_REQ"
            /\ q.hashes \subseteq KnownHashes(r) /\ q.last \subseteq KnownHashes(r)
<1> DEFINE n == next_request(r, first)
           q == Request(r, first)
           W == {HashOf[i] : i \in Wanted(r, first)}
<1>r. /\ r.map \subseteq Part /\ r.stored \in [Part -> Part \cup {0}] /\ r.outstanding \subseteq Hash
      /\ r.window \in WINDOW_MIN .. WINDOW_MAX /\ Missing(r) \subseteq Part
  BY InboundFact
<1>1. W \subseteq AskedHashes(r) /\ W \subseteq KnownHashes(r) /\ W \subseteq Hash
  BY <1>r, WorldFact DEF Wanted, AskedHashes, KnownHashes
<1>2. first \in r.map => W # {}
  <2>1. first \in Nat /\ r.window \in Nat /\ r.window > 0
    BY <1>r, WorldFact, ResourceAssumption
  <2>2. first \in r.map => first \in Wanted(r, first)
    BY <2>1 DEF Wanted, FirstMissing
  <2> QED
    BY <2>2
<1>3. LastKnown(r, first) \subseteq KnownHashes(r) /\ KnownHashes(r) \subseteq Hash
  BY <1>r, WorldFact DEF LastKnown, KnownHashes
<1>4. zero \in BOOLEAN /\ 0 \in 0 .. REQUEST_TIMEOUT_SECS
  BY ResourceAssumption DEF TypeOK
<1>5. /\ n.map = r.map /\ n.stored = r.stored /\ n.retries = r.retries
      /\ n.outstanding = IF first \in r.map THEN W ELSE r.outstanding
      /\ n.waiting_for_hmu = IF first \in r.map THEN r.waiting_for_hmu ELSE TRUE
  BY DEF next_request, Inbound
<1>6. n \in Inbound
  BY <1>1, <1>4, <1>r DEF next_request, Inbound
<1>7. Missing(n) = Missing(r) /\ AskedHashes(n) = AskedHashes(r)
  BY <1>5 DEF Missing, AskedHashes
<1>8. Asking(n)
  BY <1>1, <1>2, <1>5, <1>7 DEF Asking, is_complete, FirstMissing
<1>9. /\ q \in Packet /\ q.kind = "RESOURCE_REQ"
      /\ q.hashes \subseteq KnownHashes(r) /\ q.last \subseteq KnownHashes(r)
  BY <1>1, <1>3 DEF Request, Packet
<1> QED
  BY <1>5, <1>6, <1>8, <1>9

(* A part is filed under an index of its hash, which is missing no more.   *)
LEMMA PartFact ==
  ASSUME TypeOK, NEW r \in Inbound, NEW p \in Part, NEW i \in Matches(r, p),
         NEW n, n = on_part(r, i, p)
  PROVE  /\ n \in Inbound /\ n.map = r.map
         /\ i \in Part /\ HashOf[i] = HashOf[p] /\ n.stored[i] = p
         /\ \A j \in Part \ {i} : n.stored[j] = r.stored[j]
         /\ r.outstanding \subseteq AskedHashes(r) => n.outstanding \subseteq AskedHashes(n)
         /\ n.outstanding = {} => n.retries = 0
         /\ n.outstanding # {} => n.retries = r.retries
<1> DEFINE left == r.outstanding \ {HashOf[p]}
<1>r. /\ r.map \subseteq Part /\ r.stored \in [Part -> Part \cup {0}] /\ r.outstanding \subseteq Hash
      /\ r.window \in WINDOW_MIN .. WINDOW_MAX /\ Missing(r) \subseteq Part
  BY InboundFact
<1>1. i \in Part /\ HashOf[i] = HashOf[p] /\ i \in Missing(r) /\ p # 0
  BY <1>r, WorldFact DEF Matches
<1>2. [r.stored EXCEPT ![i] = p] \in [Part -> Part \cup {0}]
  BY <1>r, <1>1
<1>3. (IF r.window < WINDOW_MAX THEN r.window + 1 ELSE r.window) \in WINDOW_MIN .. WINDOW_MAX
  BY <1>r, ResourceAssumption
<1>4. 0 \in 0 .. MAX_RETRIES
  BY ResourceAssumption
<1>5. /\ n.map = r.map /\ n.stored = [r.stored EXCEPT ![i] = p] /\ n.waiting_for_hmu = r.waiting_for_hmu
      /\ n.outstanding = left /\ n.retries = IF left = {} THEN 0 ELSE r.retries
  BY DEF on_part, Inbound
<1>6. n \in Inbound
  <2>1. CASE left = {}
    BY <1>r, <1>2, <1>3, <1>4, <2>1 DEF on_part, Inbound
  <2>2. CASE left # {}
    BY <1>r, <1>2, <2>2 DEF on_part, Inbound
  <2> QED
    BY <2>1, <2>2
<1>7. n.stored[i] = p /\ \A j \in Part \ {i} : n.stored[j] = r.stored[j]
  BY <1>r, <1>1, <1>5
<1>8. Missing(n) = Missing(r) \ {i}
  BY <1>1, <1>7 DEF Missing
<1>9. r.outstanding \subseteq AskedHashes(r) => n.outstanding \subseteq AskedHashes(n)
  BY <1>1, <1>5, <1>8 DEF AskedHashes
<1> QED
  BY <1>1, <1>5, <1>6, <1>7, <1>9

LEMMA RetriedFact ==
  ASSUME NEW r \in Inbound, r.retries < MAX_RETRIES
  PROVE  LET n == retried(r)
         IN /\ n \in Inbound /\ n.map = r.map /\ n.stored = r.stored /\ n.outstanding = r.outstanding
            /\ n.retries = r.retries + 1
<1> DEFINE n == retried(r)
<1>1. r.window \in WINDOW_MIN .. WINDOW_MAX /\ r.retries \in 0 .. MAX_RETRIES
  BY InboundFact
<1>2. (IF r.window > WINDOW_MIN THEN r.window - 1 ELSE WINDOW_MIN) \in WINDOW_MIN .. WINDOW_MAX
  BY <1>1, ResourceAssumption
<1>3. r.retries + 1 \in 0 .. MAX_RETRIES
  BY <1>1, ResourceAssumption
<1> QED
  BY <1>2, <1>3 DEF retried, Inbound

(* A hashmap update that continues the map keeps it a prefix.              *)
LEMMA UpdateFact ==
  ASSUME TypeOK, NEW r \in Inbound, NEW s \in Nat
  PROVE  LET n == on_hashmap_update(r, s)
         IN /\ n \in Inbound /\ r.map \subseteq n.map /\ n.stored = r.stored /\ n.retries = r.retries
            /\ n.outstanding = r.outstanding
            /\ (Prefix(r) /\ s * HASHMAP_MAX_LEN \in r.map) => Prefix(n)
            /\ r.outstanding \subseteq AskedHashes(r) => n.outstanding \subseteq AskedHashes(n)
<1> DEFINE n == on_hashmap_update(r, s)
<1>r. r.map \subseteq Part
  BY InboundFact
<1>1. Segment(s) \subseteq Part
  BY DEF Segment
<1>2. n.map = r.map \cup Segment(s) /\ n.stored = r.stored /\ n.outstanding = r.outstanding /\ n.retries = r.retries
  BY DEF on_hashmap_update, Inbound
<1>3. n \in Inbound
  BY <1>r, <1>1 DEF on_hashmap_update, Inbound
<1>4. ASSUME Prefix(r), s * HASHMAP_MAX_LEN \in r.map PROVE Prefix(n)
  <2> SUFFICES ASSUME NEW i \in n.map, NEW j \in Part, j < i PROVE j \in n.map
    BY DEF Prefix
  <2>1. CASE i \in r.map
    BY <1>2, <1>4, <2>1 DEF Prefix
  <2>2. CASE i \in Segment(s)
    <3> DEFINE a == s * HASHMAP_MAX_LEN
               b == (s + 1) * HASHMAP_MAX_LEN
    <3>1. a \in Nat /\ b \in Nat /\ i \in Nat /\ j \in Nat
      BY <1>r, <1>1, <2>2, WorldFact, ResourceAssumption
    <3>2. a < i /\ i <= b
      BY <2>2 DEF Segment
    <3>3. a < j /\ j <= b => j \in Segment(s)
      BY DEF Segment
    <3>4. a \in r.map /\ a \in Part
      BY <1>r, <1>4
    <3> HIDE DEF a, b
    <3>5. j < a => j \in r.map
      BY <1>4, <3>4 DEF Prefix
    <3>6. j < a \/ j = a \/ (a < j /\ j <= b)
      BY <3>1, <3>2
    <3> QED
      BY <1>2, <3>3, <3>4, <3>5, <3>6
  <2> QED
    BY <1>2, <2>1, <2>2
<1>5. Missing(n) = Missing(r)
  BY <1>2 DEF Missing
<1>6. r.outstanding \subseteq AskedHashes(r) => n.outstanding \subseteq AskedHashes(n)
  BY <1>2, <1>5 DEF AskedHashes
<1> QED
  BY <1>2, <1>3, <1>4, <1>6

(* What a request brings: the first part of each known hash, and the next  *)
(* segment of the map.                                                     *)
LEMMA AnswerFact ==
  ASSUME TypeOK, NEW r \in Inbound, Prefix(r), NEW q \in Packet, q.kind = "RESOURCE_REQ",
         q.hashes \subseteq KnownHashes(r), q.last \subseteq KnownHashes(r),
         NEW a \in on_request(q)
  PROVE  /\ a \in Packet
         /\ \/ a.kind = "RESOURCE" /\ a.part \in r.map /\ First(a.part)
            \/ a.kind = "RESOURCE_HMU" /\ a.segment * HASHMAP_MAX_LEN \in r.map
<1>r. r.map \subseteq Part
  BY InboundFact
<1>1. ASSUME NEW H, H \subseteq KnownHashes(r), NEW i \in FirstIndices(H)
      PROVE  i \in Part /\ i \in r.map /\ First(i)
  <2>1. i \in Part /\ HashOf[i] \in H /\ First(i)
    BY DEF FirstIndices, First
  <2>2. PICK j \in r.map : HashOf[j] = HashOf[i]
    BY <1>1, <2>1 DEF KnownHashes
  <2>3. i <= j /\ i \in Nat /\ j \in Nat
    BY <1>r, <2>1, <2>2, WorldFact DEF First
  <2>4. i = j \/ i < j
    BY <2>3
  <2> QED
    BY <2>1, <2>2, <2>4 DEF Prefix
<1>2. CASE a \in {[kind |-> "RESOURCE", part |-> i] : i \in FirstIndices(q.hashes)}
  <2>1. PICK i \in FirstIndices(q.hashes) : a = [kind |-> "RESOURCE", part |-> i]
    BY <1>2
  <2>2. i \in Part /\ i \in r.map /\ First(i)
    BY <1>1
  <2> QED
    BY <2>1, <2>2 DEF Packet
<1>3. CASE a \in {[kind |-> "RESOURCE_HMU", segment |-> i \div HASHMAP_MAX_LEN] :
                    i \in {i \in FirstIndices(q.last) : i % HASHMAP_MAX_LEN = 0 /\ i < world.parts}}
  <2>1. PICK i \in FirstIndices(q.last) : /\ i % HASHMAP_MAX_LEN = 0
                                          /\ a = [kind |-> "RESOURCE_HMU", segment |-> i \div HASHMAP_MAX_LEN]
    BY <1>3
  <2>2. i \in Part /\ i \in r.map
    BY <1>1
  <2>3. i \in Nat
    BY <2>2, WorldFact
  <2>4. i \div HASHMAP_MAX_LEN \in Nat /\ (i \div HASHMAP_MAX_LEN) * HASHMAP_MAX_LEN = i
    BY <2>1, <2>3, ResourceAssumption
  <2> QED
    BY <2>1, <2>2, <2>4 DEF Packet
<1> QED
  BY <1>2, <1>3 DEF on_request

---------------------------------------------------------------------------
(* What the handlers do.                                                   *)

(* The world does not change, and neither does what depends on it.         *)
LEMMA PrimeFact ==
  ASSUME world' = world
  PROVE  /\ Asking(inbound)' <=> Asking(inbound')
         /\ Prefix(inbound)' <=> Prefix(inbound')
         /\ StoredFirst(inbound)' <=> StoredFirst(inbound')
         /\ finalize(inbound)' <=> finalize(inbound')
         /\ is_complete(inbound)' <=> is_complete(inbound')
         /\ \A q : PacketFits(q, inbound)' <=> PacketFits(q, inbound')
<1>1. Part' = Part
  BY StaticFact
<1> QED
  BY <1>1 DEF Asking, Prefix, StoredFirst, finalize, is_complete, PacketFits, AskedHashes, KnownHashes,
              Missing, First

LEMMA IdleFact == NeverIdle <=> (receiving => Asking(inbound))
BY DEF NeverIdle, Asking, AskedHashes

LEMMA PlainFact ==
  /\ \A kind : Plain(kind).kind = kind
  /\ \A kind \in {"RESOURCE_ADV", "RESOURCE_PRF", "RESOURCE_ICL", "RESOURCE_RCL"} : Plain(kind) \in Packet
BY DEF Plain, Packet

(* A packet fits as long as the map only grows.                            *)
LEMMA FitsMore ==
  ASSUME NEW q, NEW r, NEW n, PacketFits(q, r), r.map \subseteq n.map
  PROVE  PacketFits(q, n)
BY DEF PacketFits, KnownHashes

LEMMA EmitFact ==
  ASSUME TypeOK, NEW e \in End, NEW v \in {"ResourceStarted", "ResourceComplete", "ResourceFailed"}, Emit(e, v)
  PROVE  /\ events' \in [End -> Seq({"ResourceStarted", "ResourceComplete", "ResourceFailed"})]
         /\ events'[e] = Append(events[e], v)
         /\ \A f \in End \ {e} : events'[f] = events[f]
         /\ Reported(e)' = Reported(e) \cup {v}
         /\ \A f \in End \ {e} : Reported(f)' = Reported(f)
<1> DEFINE K == {"ResourceStarted", "ResourceComplete", "ResourceFailed"}
           q == events[e]
<1>1. events \in [End -> Seq(K)] /\ events' = [events EXCEPT ![e] = Append(q, v)] /\ v \in K
  BY DEF TypeOK, Emit
<1> HIDE DEF K
<1>2. q \in Seq(K)
  BY <1>1
<1>3. /\ Append(q, v) \in Seq(K) /\ Len(q) \in Nat /\ Len(Append(q, v)) = Len(q) + 1
      /\ Append(q, v)[Len(q) + 1] = v /\ \A i \in 1 .. Len(q) : Append(q, v)[i] = q[i]
  BY <1>1, <1>2
<1>4. /\ events' \in [End -> Seq(K)] /\ events'[e] = Append(q, v)
      /\ \A f \in End \ {e} : events'[f] = events[f]
  BY <1>1, <1>3
<1>5. Reported(e)' = Reported(e) \cup {v}
  <2>1. Reported(e)' = {Append(q, v)[i] : i \in 1 .. Len(q) + 1} /\ Reported(e) = {q[i] : i \in 1 .. Len(q)}
    BY <1>3, <1>4 DEF Reported
  <2>2. 1 .. Len(q) + 1 = (1 .. Len(q)) \cup {Len(q) + 1}
    BY <1>3
  <2> HIDE DEF q
  <2> QED
    BY <1>3, <2>1, <2>2
<1>6. \A f \in End \ {e} : Reported(f)' = Reported(f)
  BY <1>4 DEF Reported
<1> QED
  BY <1>4, <1>5, <1>6 DEF K

(* handle_ADV starts a transfer with a request.                            *)
LEMMA AdvertisementEffect ==
  ASSUME TypeOK, handle_ADV, active["receiver"]
  PROVE  /\ inbound' \in Inbound /\ Prefix(inbound') /\ StoredFirst(inbound') /\ Asking(inbound')
         /\ inbound'.retries = 0 /\ receiving' = TRUE /\ Emit("receiver", "ResourceStarted")
         /\ \A x \in net' : \/ x \in net /\ x # Plain("RESOURCE_ADV")
                            \/ x \in Packet /\ x.kind = "RESOURCE_REQ" /\ PacketFits(x, inbound')
<1> DEFINE r == from_advertisement
<1>1. PICK first \in Part : /\ FirstMissing(r, first)
                            /\ inbound' = next_request(r, first)
                            /\ net' = (net \ {Plain("RESOURCE_ADV")}) \cup {Request(r, first)}
  BY DEF handle_ADV
<1>2. r \in Inbound /\ Prefix(r) /\ StoredFirst(r) /\ r.retries = 0 /\ r.outstanding \subseteq AskedHashes(r)
  BY AdvertisementFact
<1>3. receiving' = TRUE /\ Emit("receiver", "ResourceStarted")
  BY DEF handle_ADV
<1> HIDE DEF r
<1>4. /\ inbound' \in Inbound /\ inbound'.map = r.map /\ inbound'.stored = r.stored /\ inbound'.retries = r.retries
      /\ Asking(inbound') /\ Request(r, first) \in Packet /\ Request(r, first).kind = "RESOURCE_REQ"
      /\ Request(r, first).hashes \subseteq KnownHashes(r) /\ Request(r, first).last \subseteq KnownHashes(r)
  BY <1>1, <1>2, RequestFact
<1>5. Prefix(inbound') /\ StoredFirst(inbound')
  BY <1>2, <1>4 DEF Prefix, StoredFirst
<1>6. PacketFits(Request(r, first), inbound')
  BY <1>4 DEF PacketFits, KnownHashes
<1> QED
  BY <1>1, <1>2, <1>3, <1>4, <1>5, <1>6

(* handle_HMU extends the map and asks again.                              *)
LEMMA UpdateEffect ==
  ASSUME TypeOK, NeverIdle, Known, NEW q \in net, handle_HMU(q), active["receiver"], receiving
  PROVE  /\ inbound' \in Inbound /\ inbound.map \subseteq inbound'.map /\ inbound'.stored = inbound.stored
         /\ Prefix(inbound') /\ Asking(inbound') /\ inbound'.retries = inbound.retries
         /\ \A x \in net' : \/ x \in net
                            \/ x \in Packet /\ x.kind = "RESOURCE_REQ" /\ PacketFits(x, inbound')
<1> DEFINE r == on_hashmap_update(inbound, q.segment)
<1>1. PICK first \in Part : /\ FirstMissing(r, first)
                            /\ inbound' = next_request(r, first)
                            /\ net' = (net \ {q}) \cup {Request(r, first)}
  BY DEF handle_HMU
<1>2. q \in Packet /\ q.kind = "RESOURCE_HMU" /\ inbound \in Inbound
  BY DEF TypeOK, handle_HMU
<1>3. q.segment \in Nat
  BY <1>2 DEF Packet
<1>4. q.segment * HASHMAP_MAX_LEN \in inbound.map /\ Prefix(inbound) /\ inbound.outstanding \subseteq AskedHashes(inbound)
  BY <1>2, IdleFact DEF Known, PacketFits, Asking
<1>5. /\ r \in Inbound /\ inbound.map \subseteq r.map /\ r.stored = inbound.stored /\ r.retries = inbound.retries
      /\ Prefix(r) /\ r.outstanding \subseteq AskedHashes(r)
  BY <1>2, <1>3, <1>4, UpdateFact
<1> HIDE DEF r
<1>6. /\ inbound' \in Inbound /\ inbound'.map = r.map /\ inbound'.stored = r.stored /\ inbound'.retries = r.retries
      /\ Asking(inbound') /\ Request(r, first) \in Packet /\ Request(r, first).kind = "RESOURCE_REQ"
      /\ Request(r, first).hashes \subseteq KnownHashes(r) /\ Request(r, first).last \subseteq KnownHashes(r)
  BY <1>1, <1>5, RequestFact
<1>7. Prefix(inbound')
  BY <1>5, <1>6 DEF Prefix
<1>8. PacketFits(Request(r, first), inbound')
  BY <1>6 DEF PacketFits, KnownHashes
<1> QED
  BY <1>1, <1>5, <1>6, <1>7, <1>8

(* A part that is accepted fills its place; then the transfer is over, the *)
(* next window is asked for, or more of this one is outstanding.           *)
LEMMA AcceptEffect ==
  ASSUME TypeOK, NeverIdle, receiving, NEW p \in Part, NEW i \in Matches(inbound, p), accept_part(p, i)
  PROVE  /\ inbound' \in Inbound /\ inbound'.map = inbound.map
         /\ i \in Part /\ HashOf[i] = HashOf[p] /\ inbound'.stored[i] = p
         /\ \A j \in Part \ {i} : inbound'.stored[j] = inbound.stored[j]
         /\ \A x \in net' : \/ x \in net
                            \/ x \in Packet /\ x.kind = "RESOURCE_REQ" /\ PacketFits(x, inbound')
                            \/ x = Plain("RESOURCE_PRF") /\ receiving' = FALSE /\ finalize(inbound')
                                 /\ Emit("receiver", "ResourceComplete")
         /\ resent' \in Nat /\ starved' \in BOOLEAN
         /\ ~starved' => \/ inbound'.retries = 0
                         \/ ~starved /\ resent' = resent /\ inbound'.retries = inbound.retries
         /\ \/ receiving' = TRUE /\ Asking(inbound') /\ events' = events
            \/ receiving' = FALSE /\ is_complete(inbound') /\ Emit("receiver", "ResourceComplete")
            \/ receiving' = FALSE /\ is_complete(inbound') /\ Emit("receiver", "ResourceFailed")
<1> DEFINE r == on_part(inbound, i, p)
           rest == net \ {[kind |-> "RESOURCE", part |-> p]}
<1>1. inbound \in Inbound /\ inbound.outstanding \subseteq AskedHashes(inbound) /\ resent \in Nat /\ starved \in BOOLEAN
      /\ (inbound.outstanding # {} \/ inbound.waiting_for_hmu)
  BY IdleFact DEF TypeOK, Asking
<1>2. /\ r \in Inbound /\ r.map = inbound.map
      /\ i \in Part /\ HashOf[i] = HashOf[p] /\ r.stored[i] = p
      /\ \A j \in Part \ {i} : r.stored[j] = inbound.stored[j]
      /\ r.outstanding \subseteq AskedHashes(r)
      /\ r.outstanding = {} => r.retries = 0
      /\ r.outstanding # {} => r.retries = inbound.retries
  <2> HIDE DEF r
  <2>1. /\ r \in Inbound /\ r.map = inbound.map
        /\ i \in Part /\ HashOf[i] = HashOf[p] /\ r.stored[i] = p
        /\ \A j \in Part \ {i} : r.stored[j] = inbound.stored[j]
        /\ inbound.outstanding \subseteq AskedHashes(inbound) => r.outstanding \subseteq AskedHashes(r)
        /\ r.outstanding = {} => r.retries = 0
        /\ r.outstanding # {} => r.retries = inbound.retries
    BY <1>1, PartFact DEF r
  <2> QED
    BY <1>1, <2>1
<1>3. /\ resent' = IF r.outstanding = {} THEN 0 ELSE resent
      /\ starved' = (starved /\ r.outstanding # {})
  BY DEF accept_part
<1>4. resent' \in Nat /\ starved' \in BOOLEAN
  BY <1>1, <1>3
<1>5. inbound'.retries = r.retries =>
        (~starved' => \/ inbound'.retries = 0
                      \/ ~starved /\ resent' = resent /\ inbound'.retries = inbound.retries)
  BY <1>1, <1>2, <1>3
<1>6. CASE is_complete(r)
  <2>1. inbound' = r /\ receiving' = FALSE
    BY <1>6 DEF accept_part, ready_for_request
  <2>2. \/ finalize(r) /\ net' = rest \cup {Plain("RESOURCE_PRF")} /\ Emit("receiver", "ResourceComplete")
        \/ net' = rest /\ Emit("receiver", "ResourceFailed")
    BY <1>6 DEF accept_part, ready_for_request
  <2> HIDE DEF r
  <2> QED
    BY <1>2, <1>4, <1>5, <1>6, <2>1, <2>2
<1>7. CASE ready_for_request(r)
  <2>1. PICK first \in Part : /\ FirstMissing(r, first)
                              /\ inbound' = next_request(r, first)
                              /\ net' \subseteq rest \cup {Request(r, first)}
    BY <1>7 DEF accept_part, ready_for_request
  <2>2. receiving' = TRUE /\ events' = events
    BY <1>7 DEF accept_part, ready_for_request
  <2> HIDE DEF r
  <2>3. /\ inbound' \in Inbound /\ inbound'.map = r.map /\ inbound'.stored = r.stored /\ inbound'.retries = r.retries
        /\ Asking(inbound') /\ Request(r, first) \in Packet /\ Request(r, first).kind = "RESOURCE_REQ"
        /\ Request(r, first).hashes \subseteq KnownHashes(r) /\ Request(r, first).last \subseteq KnownHashes(r)
    BY <1>2, <2>1, RequestFact
  <2>4. PacketFits(Request(r, first), inbound')
    BY <2>3 DEF PacketFits, KnownHashes
  <2> QED
    BY <1>2, <1>4, <1>5, <2>1, <2>2, <2>3, <2>4
<1>8. CASE ~is_complete(r) /\ ~ready_for_request(r)
  <2>1. inbound' = r /\ net' = rest /\ receiving' = TRUE /\ events' = events
    BY <1>8 DEF accept_part
  <2>2. Asking(r)
    BY <1>2, <1>8 DEF Asking, ready_for_request
  <2> HIDE DEF r
  <2> QED
    BY <1>2, <1>4, <1>5, <2>1, <2>2
<1> QED
  BY <1>6, <1>7, <1>8

(* The retry timer: another request, or the end.                           *)
LEMMA RetriesEffect ==
  ASSUME TypeOK, NeverIdle, receiving, NEW entropy \in BOOLEAN, Retries(entropy)
  PROVE  /\ inbound' \in Inbound /\ inbound'.map = inbound.map /\ inbound'.stored = inbound.stored
         /\ \A x \in net' : \/ x \in net
                            \/ x \in Packet /\ x.kind = "RESOURCE_REQ" /\ PacketFits(x, inbound')
         /\ resent' \in Nat /\ starved' \in BOOLEAN
         /\ \/ /\ receiving' = FALSE /\ Emit("receiver", "ResourceFailed")
               /\ inbound.retries >= MAX_RETRIES /\ UNCHANGED <<inbound, resent, starved>>
            \/ /\ receiving' = TRUE /\ events' = events /\ Asking(inbound')
               /\ ~starved' => ~starved /\ resent' = resent + 1 /\ inbound'.retries = inbound.retries + 1
<1>1. inbound \in Inbound /\ inbound.outstanding \subseteq AskedHashes(inbound) /\ resent \in Nat /\ starved \in BOOLEAN
  BY IdleFact DEF TypeOK, Asking
<1>2. CASE inbound.retries >= MAX_RETRIES
  <2>1. ~(inbound.retries < MAX_RETRIES)
    BY <1>1, <1>2, InboundFact, ResourceAssumption
  <2>2. receiving' = FALSE /\ Emit("receiver", "ResourceFailed") /\ UNCHANGED <<inbound, net, resent, starved>>
    BY <2>1, Zenon DEF Retries
  <2> QED
    BY <1>1, <1>2, <2>2
<1>3. CASE inbound.retries < MAX_RETRIES
  <2> DEFINE r == retried(inbound)
  <2>0. ~(inbound.retries >= MAX_RETRIES)
    BY <1>1, <1>3, InboundFact, ResourceAssumption
  <2>1. PICK first \in Part : /\ FirstMissing(inbound, first)
                              /\ inbound' = next_request(r, first)
                              /\ net' = IF entropy THEN net \cup {Request(r, first)} ELSE net
    BY <2>0, Zenon DEF Retries
  <2>2. /\ resent' = IF entropy THEN resent + 1 ELSE resent
        /\ starved' = (starved \/ ~entropy)
        /\ receiving' = receiving /\ events' = events
    BY <2>0, Zenon DEF Retries
  <2>3. /\ r \in Inbound /\ r.map = inbound.map /\ r.stored = inbound.stored /\ r.outstanding = inbound.outstanding
        /\ r.retries = inbound.retries + 1
    BY <1>1, <1>3, RetriedFact
  <2> HIDE DEF r
  <2>4. Missing(r) = Missing(inbound) /\ AskedHashes(r) = AskedHashes(inbound)
    BY <2>3 DEF Missing, AskedHashes
  <2>5. FirstMissing(r, first) /\ r.outstanding \subseteq AskedHashes(r)
    BY <1>1, <2>1, <2>3, <2>4 DEF FirstMissing
  <2>6. /\ inbound' \in Inbound /\ inbound'.map = r.map /\ inbound'.stored = r.stored /\ inbound'.retries = r.retries
        /\ Asking(inbound') /\ Request(r, first) \in Packet /\ Request(r, first).kind = "RESOURCE_REQ"
        /\ Request(r, first).hashes \subseteq KnownHashes(r) /\ Request(r, first).last \subseteq KnownHashes(r)
    BY <2>1, <2>3, <2>5, RequestFact
  <2>7. PacketFits(Request(r, first), inbound')
    BY <2>6 DEF PacketFits, KnownHashes
  <2>8. resent' \in Nat /\ starved' \in BOOLEAN /\ (~starved' => ~starved /\ resent' = resent + 1)
    <3>1. CASE entropy = TRUE
      BY <1>1, <2>2, <3>1
    <3>2. CASE entropy = FALSE
      BY <1>1, <2>2, <3>2
    <3> QED
      BY <3>1, <3>2
  <2>9. receiving' = TRUE
    BY <2>2 DEF TypeOK
  <2>10. net' \subseteq net \cup {Request(r, first)}
    BY <2>1
  <2> QED
    BY <2>2, <2>3, <2>6, <2>7, <2>8, <2>9, <2>10
<1>4. inbound.retries >= MAX_RETRIES \/ inbound.retries < MAX_RETRIES
  BY <1>1, InboundFact, ResourceAssumption
<1> QED
  BY <1>2, <1>3, <1>4

---------------------------------------------------------------------------
(* Steps.                                                                  *)

LEMMA StaticStep ==
  ASSUME [Next]_vars
  PROVE  world' = world /\ Part' = Part /\ Inbound' = Inbound /\ Packet' = Packet
<1>1. world' = world
  BY DEF Next, Deliver, vars, send_resource, handle_ADV, handle_REQ, handle_HMU, handle_resource_part,
         handle_resource_proof, handle_cancel, tick, close_link, foreign_cancel, Lose, Elapse
<1> QED
  BY <1>1, StaticFact

(* Time changes nothing but the age of the last request.                   *)
LEMMA ElapseFact ==
  ASSUME TypeOK, Elapse
  PROVE  /\ inbound' \in Inbound /\ inbound'.map = inbound.map /\ inbound'.stored = inbound.stored
         /\ inbound'.retries = inbound.retries
         /\ Asking(inbound) => Asking(inbound')
<1>1. inbound \in Inbound /\ inbound' = [inbound EXCEPT !.age = IF @ < REQUEST_TIMEOUT_SECS THEN @ + 1 ELSE @]
  BY DEF TypeOK, Elapse
<1>2. (IF inbound.age < REQUEST_TIMEOUT_SECS THEN inbound.age + 1 ELSE inbound.age) \in 0 .. REQUEST_TIMEOUT_SECS
  BY <1>1, InboundFact, ResourceAssumption
<1>3. inbound' \in Inbound
  BY <1>1, <1>2 DEF Inbound
<1>4. /\ inbound'.map = inbound.map /\ inbound'.stored = inbound.stored /\ inbound'.outstanding = inbound.outstanding
      /\ inbound'.retries = inbound.retries /\ inbound'.waiting_for_hmu = inbound.waiting_for_hmu
  BY <1>1 DEF Inbound
<1>5. Missing(inbound') = Missing(inbound)
  BY <1>4 DEF Missing
<1>6. Asking(inbound) => Asking(inbound')
  BY <1>4, <1>5 DEF Asking, is_complete, AskedHashes
<1> QED
  BY <1>3, <1>4, <1>6

(* Every step keeps to the types.                                          *)
LEMMA TypeStep == TypeOK /\ NeverIdle /\ Known /\ [Next]_vars => TypeOK'
<1> SUFFICES ASSUME TypeOK, NeverIdle, Known, [Next]_vars PROVE TypeOK'
  OBVIOUS
<1>static. world' = world /\ Part' = Part /\ Inbound' = Inbound /\ Packet' = Packet
  BY StaticStep
<1>1. CASE send_resource
  <2>1. net' \subseteq Packet
    BY <1>1, PlainFact DEF send_resource, TypeOK
  <2> QED
    BY <1>1, <1>static, <2>1 DEF send_resource, TypeOK
<1>2. CASE handle_ADV
  <2>1. CASE active["receiver"]
    <3>1. inbound' \in Inbound /\ net' \subseteq Packet /\ receiving' \in BOOLEAN
      BY <1>2, <2>1, AdvertisementEffect DEF TypeOK
    <3>2. events' \in [End -> Seq({"ResourceStarted", "ResourceComplete", "ResourceFailed"})]
      BY <1>2, <2>1, AdvertisementEffect, EmitFact DEF End
    <3> QED
      BY <1>2, <1>static, <3>1, <3>2 DEF handle_ADV, TypeOK
  <2>2. CASE ~active["receiver"]
    BY <1>2, <1>static, <2>2 DEF handle_ADV, TypeOK
  <2> QED
    BY <2>1, <2>2
<1>3. ASSUME NEW q \in net, handle_REQ(q) PROVE TypeOK'
  <2>1. q \in Packet /\ q.kind = "RESOURCE_REQ" /\ inbound \in Inbound
    BY <1>3 DEF handle_REQ, TypeOK
  <2>2. q.hashes \subseteq KnownHashes(inbound) /\ q.last \subseteq KnownHashes(inbound) /\ Prefix(inbound)
    BY <2>1 DEF Known, PacketFits
  <2>3. on_request(q) \subseteq Packet
    BY <2>1, <2>2, AnswerFact
  <2>4. net' \subseteq Packet
    BY <1>3, <2>3 DEF handle_REQ, TypeOK
  <2> QED
    BY <1>3, <1>static, <2>4 DEF handle_REQ, TypeOK
<1>4. ASSUME NEW q \in net, handle_HMU(q) PROVE TypeOK'
  <2>1. inbound' \in Inbound /\ net' \subseteq Packet
    <3>1. CASE active["receiver"] /\ receiving
      BY <1>4, <3>1, UpdateEffect DEF TypeOK
    <3>2. CASE ~(active["receiver"] /\ receiving)
      BY <1>4, <3>2 DEF handle_HMU, TypeOK
    <3> QED
      BY <3>1, <3>2
  <2> QED
    BY <1>4, <1>static, <2>1 DEF handle_HMU, TypeOK
<1>5. ASSUME NEW p \in Part, handle_resource_part(p) PROVE TypeOK'
  <2>1. DOMAIN seen' \subseteq Part /\ \A x \in DOMAIN seen' : seen'[x] < PACKET_HASH_TTL_SECS
    <3>1. DOMAIN seen \subseteq Part /\ \A x \in DOMAIN seen : seen[x] < PACKET_HASH_TTL_SECS
      BY DEF TypeOK
    <3>2. CASE seen' = seen
      BY <3>1, <3>2
    <3>3. CASE seen' = [x \in DOMAIN seen \cup {p} |-> IF x = p THEN 0 ELSE seen[x]]
      BY <3>1, <3>3, ResourceAssumption
    <3> QED
      BY <1>5, <3>2, <3>3 DEF handle_resource_part
  <2>2. /\ inbound' \in Inbound /\ net' \subseteq Packet /\ receiving' \in BOOLEAN
        /\ events' \in [End -> Seq({"ResourceStarted", "ResourceComplete", "ResourceFailed"})]
        /\ resent' \in Nat /\ starved' \in BOOLEAN
    <3>1. CASE UNCHANGED <<receiving, inbound, events, resent, starved>> /\ net' \subseteq net
      BY <3>1 DEF TypeOK
    <3>2. ASSUME receiving, NEW i \in Matches(inbound, p), accept_part(p, i)
          PROVE  /\ inbound' \in Inbound /\ net' \subseteq Packet /\ receiving' \in BOOLEAN
                 /\ events' \in [End -> Seq({"ResourceStarted", "ResourceComplete", "ResourceFailed"})]
                 /\ resent' \in Nat /\ starved' \in BOOLEAN
      <4>1. inbound' \in Inbound /\ receiving' \in BOOLEAN /\ resent' \in Nat /\ starved' \in BOOLEAN
        BY <3>2, AcceptEffect
      <4>2. net' \subseteq Packet
        <5>1. \A x \in net' : x \in net \/ x \in Packet \/ x = Plain("RESOURCE_PRF")
          BY <3>2, AcceptEffect
        <5>2. net \subseteq Packet /\ Plain("RESOURCE_PRF") \in Packet
          BY PlainFact DEF TypeOK
        <5> QED
          BY <5>1, <5>2
      <4>3. events' = events \/ Emit("receiver", "ResourceComplete") \/ Emit("receiver", "ResourceFailed")
        BY <3>2, AcceptEffect
      <4>4. events' \in [End -> Seq({"ResourceStarted", "ResourceComplete", "ResourceFailed"})]
        <5>1. CASE events' = events
          BY <5>1 DEF TypeOK
        <5>2. CASE Emit("receiver", "ResourceComplete") \/ Emit("receiver", "ResourceFailed")
          BY <5>2, EmitFact DEF End
        <5> QED
          BY <4>3, <5>1, <5>2
      <4> QED
        BY <4>1, <4>2, <4>4
    <3> QED
      BY <1>5, <3>1, <3>2 DEF handle_resource_part
  <2> QED
    BY <1>5, <1>static, <2>1, <2>2 DEF handle_resource_part, TypeOK
<1>6. CASE handle_resource_proof
  <2>1. events' \in [End -> Seq({"ResourceStarted", "ResourceComplete", "ResourceFailed"})]
    <3>1. CASE events' = events
      BY <3>1 DEF TypeOK
    <3>2. CASE Emit("sender", "ResourceComplete")
      BY <3>2, EmitFact DEF End
    <3> QED
      BY <1>6, <3>1, <3>2 DEF handle_resource_proof
  <2> QED
    BY <1>6, <1>static, <2>1 DEF handle_resource_proof, TypeOK
<1>7. ASSUME NEW e \in End, NEW kind \in {"RESOURCE_ICL", "RESOURCE_RCL"}, handle_cancel(e, kind) PROVE TypeOK'
  <2>1. events' \in [End -> Seq({"ResourceStarted", "ResourceComplete", "ResourceFailed"})]
    <3>1. CASE events' = events
      BY <3>1 DEF TypeOK
    <3>2. CASE Emit(e, "ResourceFailed")
      BY <3>2, EmitFact
    <3> QED
      BY <1>7, <3>1, <3>2 DEF handle_cancel
  <2>2. receiving' \in BOOLEAN /\ outbound' \in {"None", "Serving", "Removed"} /\ net' \subseteq Packet
    BY <1>7 DEF handle_cancel, TypeOK
  <2>3. UNCHANGED <<active, inbound, seen, zero, resent, starved, cancelled, lost, world>>
    BY <1>7 DEF handle_cancel
  <2> QED
    BY <1>static, <2>1, <2>2, <2>3 DEF TypeOK
<1>8. ASSUME NEW entropy \in BOOLEAN, tick(entropy) PROVE TypeOK'
  <2>1. receiving /\ Retries(entropy)
    BY <1>8 DEF tick
  <2>2. TypeOK'
    <3>1. inbound' \in Inbound /\ net' \subseteq Packet /\ resent' \in Nat /\ starved' \in BOOLEAN /\ receiving' \in BOOLEAN
      BY <2>1, RetriesEffect DEF TypeOK
    <3>2. events' = events \/ Emit("receiver", "ResourceFailed")
      BY <2>1, RetriesEffect
    <3>3. events' \in [End -> Seq({"ResourceStarted", "ResourceComplete", "ResourceFailed"})]
      <4>1. CASE events' = events
        BY <4>1 DEF TypeOK
      <4>2. CASE Emit("receiver", "ResourceFailed")
        BY <4>2, EmitFact DEF End
      <4> QED
        BY <3>2, <4>1, <4>2
    <3> QED
      BY <1>8, <1>static, <3>1, <3>3 DEF tick, TypeOK
  <2> QED
    BY <2>2
<1>9. ASSUME NEW e \in End, NEW entropy \in BOOLEAN, close_link(e, entropy) PROVE TypeOK'
  <2>1. CASE receiving /\ Retries(entropy)
    <3>1. inbound' \in Inbound /\ net' \subseteq Packet /\ resent' \in Nat /\ starved' \in BOOLEAN /\ receiving' \in BOOLEAN
      BY <2>1, RetriesEffect DEF TypeOK
    <3>2. events' = events \/ Emit("receiver", "ResourceFailed")
      BY <2>1, RetriesEffect
    <3>3. events' \in [End -> Seq({"ResourceStarted", "ResourceComplete", "ResourceFailed"})]
      <4>1. CASE events' = events
        BY <4>1 DEF TypeOK
      <4>2. CASE Emit("receiver", "ResourceFailed")
        BY <4>2, EmitFact DEF End
      <4> QED
        BY <3>2, <4>1, <4>2
    <3>4. UNCHANGED <<outbound, seen, zero, cancelled, lost, world>> /\ active' \in [End -> BOOLEAN]
      BY <1>9 DEF close_link, TypeOK
    <3> QED
      BY <1>static, <3>1, <3>3, <3>4 DEF TypeOK
  <2>2. CASE UNCHANGED <<receiving, inbound, net, resent, starved, events>>
    BY <1>9, <1>static, <2>2 DEF close_link, TypeOK
  <2> QED
    BY <1>9, <2>1, <2>2 DEF close_link
<1>10. ASSUME NEW e \in End, foreign_cancel(e) PROVE TypeOK'
  <2>1. net' \subseteq Packet /\ receiving' \in BOOLEAN /\ outbound' \in {"None", "Serving", "Removed"}
    BY <1>10, PlainFact DEF foreign_cancel, TypeOK
  <2> QED
    BY <1>10, <1>static, <2>1 DEF foreign_cancel, TypeOK
<1>11. ASSUME NEW q \in net, Lose(q) PROVE TypeOK'
  <2>1. lost' \in 0 .. world.losses
    BY <1>11, WorldFact DEF Lose, TypeOK
  <2> QED
    BY <1>11, <1>static, <2>1 DEF Lose, TypeOK
<1>12. CASE Elapse
  <2>1. inbound' \in Inbound
    BY <1>12, ElapseFact
  <2>2. DOMAIN seen' \subseteq Part /\ \A x \in DOMAIN seen' : seen'[x] < PACKET_HASH_TTL_SECS
    BY <1>12 DEF Elapse, TypeOK
  <2> QED
    BY <1>12, <1>static, <2>1, <2>2 DEF Elapse, TypeOK
<1>13. CASE UNCHANGED vars
  BY <1>13 DEF vars, TypeOK, Part, Hash, Inbound, Packet
<1> QED
  BY <1>1, <1>2, <1>3, <1>4, <1>5, <1>6, <1>7, <1>8, <1>9, <1>10, <1>11, <1>12,
     <1>13 DEF Next, Deliver

(* Whatever the receiver asks for, it waits for.                           *)
LEMMA IdleStep == TypeOK /\ NeverIdle /\ Known /\ [Next]_vars => NeverIdle'
<1> SUFFICES ASSUME TypeOK, NeverIdle, Known, [Next]_vars PROVE NeverIdle'
  OBVIOUS
<1>static. world' = world /\ Part' = Part /\ Inbound' = Inbound /\ Packet' = Packet
  BY StaticStep
<1>same. receiving => Asking(inbound)
  BY IdleFact
<1>idle. (receiving' => Asking(inbound')) => NeverIdle'
  BY <1>static DEF NeverIdle, Asking, AskedHashes, Missing, is_complete
<1>1. CASE send_resource
  BY <1>1, <1>idle, <1>same DEF send_resource
<1>2. CASE handle_ADV
  <2>1. CASE active["receiver"]
    BY <1>2, <1>idle, <2>1, AdvertisementEffect
  <2>2. CASE ~active["receiver"]
    BY <1>2, <1>idle, <1>same, <2>2 DEF handle_ADV
  <2> QED
    BY <2>1, <2>2
<1>3. ASSUME NEW q \in net, handle_REQ(q) PROVE NeverIdle'
  BY <1>3, <1>idle, <1>same DEF handle_REQ
<1>4. ASSUME NEW q \in net, handle_HMU(q) PROVE NeverIdle'
  <2>1. CASE active["receiver"] /\ receiving
    BY <1>4, <1>idle, <2>1, UpdateEffect
  <2>2. CASE ~(active["receiver"] /\ receiving)
    BY <1>4, <1>idle, <1>same, <2>2 DEF handle_HMU
  <2> QED
    BY <2>1, <2>2
<1>5. ASSUME NEW p \in Part, handle_resource_part(p) PROVE NeverIdle'
  <2>1. CASE UNCHANGED <<receiving, inbound>>
    BY <1>idle, <1>same, <2>1
  <2>2. ASSUME receiving, NEW i \in Matches(inbound, p), accept_part(p, i) PROVE NeverIdle'
    BY <1>idle, <2>2, AcceptEffect
  <2> QED
    BY <1>5, <2>1, <2>2 DEF handle_resource_part
<1>6. CASE handle_resource_proof
  BY <1>6, <1>idle, <1>same DEF handle_resource_proof
<1>7. ASSUME NEW e \in End, NEW kind \in {"RESOURCE_ICL", "RESOURCE_RCL"}, handle_cancel(e, kind) PROVE NeverIdle'
  <2>1. inbound' = inbound
    BY <1>7 DEF handle_cancel
  <2>2. receiving' => receiving
    BY <1>7 DEF handle_cancel, TypeOK
  <2> QED
    BY <1>idle, <1>same, <2>1, <2>2
<1>8. ASSUME NEW entropy \in BOOLEAN, tick(entropy) PROVE NeverIdle'
  BY <1>8, <1>idle, RetriesEffect DEF tick
<1>9. ASSUME NEW e \in End, NEW entropy \in BOOLEAN, close_link(e, entropy) PROVE NeverIdle'
  <2>1. CASE receiving /\ Retries(entropy)
    BY <1>idle, <2>1, RetriesEffect
  <2>2. CASE UNCHANGED <<receiving, inbound>>
    BY <1>idle, <1>same, <2>2
  <2> QED
    BY <1>9, <2>1, <2>2 DEF close_link
<1>10. ASSUME NEW e \in End, foreign_cancel(e) PROVE NeverIdle'
  <2>1. inbound' = inbound
    BY <1>10 DEF foreign_cancel
  <2>2. receiving' => receiving
    BY <1>10 DEF foreign_cancel, TypeOK
  <2> QED
    BY <1>idle, <1>same, <2>1, <2>2
<1>11. ASSUME NEW q \in net, Lose(q) PROVE NeverIdle'
  BY <1>11, <1>idle, <1>same DEF Lose
<1>12. CASE Elapse
  <2>1. receiving' = receiving
    BY <1>12 DEF Elapse
  <2> QED
    BY <1>12, <1>idle, <1>same, <2>1, ElapseFact
<1>13. CASE UNCHANGED vars
  BY <1>13, <1>idle, <1>same DEF vars
<1> QED
  BY <1>1, <1>2, <1>3, <1>4, <1>5, <1>6, <1>7, <1>8, <1>9, <1>10, <1>11, <1>12,
     <1>13 DEF Next, Deliver

(* A step that extends the map, keeps the right bytes and sends fitting    *)
(* packets.                                                                *)
LEMMA KnownFrame ==
  ASSUME Known, world' = world, inbound.map \subseteq inbound'.map,
         Prefix(inbound'), StoredFirst(inbound'),
         \A x \in net' : x \in net \/ PacketFits(x, inbound')
  PROVE  Known'
<1>1. \A x \in net' : PacketFits(x, inbound')
  BY FitsMore DEF Known
<1> QED
  BY <1>1, PrimeFact DEF Known

(* Plain packets say nothing about the map.                                *)
LEMMA PlainFits == \A r : \A kind \in {"RESOURCE_ADV", "RESOURCE_PRF", "RESOURCE_ICL", "RESOURCE_RCL"} : PacketFits(Plain(kind), r)
BY PlainFact DEF PacketFits

(* Requests name what is known, answers are first parts of known hashes, and *)
(* so the map grows from its end and the bytes kept are those of first parts. *)
LEMMA KnownStep == TypeOK /\ NeverIdle /\ Known /\ Unstarted /\ [Next]_vars => Known'
<1> SUFFICES ASSUME TypeOK, NeverIdle, Known, Unstarted, [Next]_vars PROVE Known'
  OBVIOUS
<1>static. world' = world /\ Part' = Part /\ Inbound' = Inbound /\ Packet' = Packet
  BY StaticStep
<1>same. Prefix(inbound) /\ StoredFirst(inbound)
  BY DEF Known
<1>1. CASE send_resource
  <2>1. inbound' = inbound /\ net' = net \cup {Plain("RESOURCE_ADV")}
    BY <1>1 DEF send_resource
  <2> QED
    BY <1>static, <1>same, <2>1, KnownFrame, PlainFits
<1>2. CASE handle_ADV
  <2>1. CASE active["receiver"]
    <3>1. net \subseteq {Plain("RESOURCE_ADV"), Plain("RESOURCE_ICL")}
      BY <1>2 DEF handle_ADV, Unstarted
    <3>2. \A x \in net' : PacketFits(x, inbound')
      BY <1>2, <2>1, <3>1, AdvertisementEffect, PlainFits
    <3>3. Prefix(inbound') /\ StoredFirst(inbound')
      BY <1>2, <2>1, AdvertisementEffect
    <3> QED
      BY <1>static, <3>2, <3>3, PrimeFact DEF Known
  <2>2. CASE ~active["receiver"]
    <3>1. inbound' = inbound /\ net' \subseteq net
      BY <1>2, <2>2 DEF handle_ADV
    <3> QED
      BY <1>static, <1>same, <3>1, KnownFrame
  <2> QED
    BY <2>1, <2>2
<1>3. ASSUME NEW q \in net, handle_REQ(q) PROVE Known'
  <2>1. q \in Packet /\ q.kind = "RESOURCE_REQ" /\ inbound \in Inbound
    BY <1>3 DEF handle_REQ, TypeOK
  <2>2. q.hashes \subseteq KnownHashes(inbound) /\ q.last \subseteq KnownHashes(inbound) /\ Prefix(inbound)
    BY <2>1 DEF Known, PacketFits
  <2>3. \A x \in on_request(q) : PacketFits(x, inbound)
    <3> SUFFICES ASSUME NEW x \in on_request(q) PROVE PacketFits(x, inbound)
      OBVIOUS
    <3>1. \/ x.kind = "RESOURCE" /\ x.part \in inbound.map /\ First(x.part)
          \/ x.kind = "RESOURCE_HMU" /\ x.segment * HASHMAP_MAX_LEN \in inbound.map
      BY <2>1, <2>2, AnswerFact
    <3> QED
      BY <3>1 DEF PacketFits
  <2>4. inbound' = inbound /\ net' \subseteq net \cup on_request(q)
    BY <1>3 DEF handle_REQ
  <2> QED
    BY <1>static, <1>same, <2>3, <2>4, KnownFrame
<1>4. ASSUME NEW q \in net, handle_HMU(q) PROVE Known'
  <2>1. CASE active["receiver"] /\ receiving
    <3>1. /\ inbound.map \subseteq inbound'.map /\ inbound'.stored = inbound.stored /\ Prefix(inbound')
          /\ \A x \in net' : x \in net \/ PacketFits(x, inbound')
      BY <1>4, <2>1, UpdateEffect
    <3>2. StoredFirst(inbound')
      BY <1>same, <3>1 DEF StoredFirst
    <3> QED
      BY <1>static, <3>1, <3>2, KnownFrame
  <2>2. CASE ~(active["receiver"] /\ receiving)
    <3>1. inbound' = inbound /\ net' \subseteq net
      BY <1>4, <2>2 DEF handle_HMU
    <3> QED
      BY <1>static, <1>same, <3>1, KnownFrame
  <2> QED
    BY <2>1, <2>2
<1>5. ASSUME NEW p \in Part, handle_resource_part(p) PROVE Known'
  <2>1. CASE UNCHANGED inbound /\ net' \subseteq net
    BY <1>static, <1>same, <2>1, KnownFrame
  <2>2. ASSUME receiving, NEW i \in Matches(inbound, p), accept_part(p, i) PROVE Known'
    <3>1. /\ inbound'.map = inbound.map /\ i \in Part /\ HashOf[i] = HashOf[p] /\ inbound'.stored[i] = p
          /\ \A j \in Part \ {i} : inbound'.stored[j] = inbound.stored[j]
      BY <2>2, AcceptEffect
    <3>2. \A x \in net' : x \in net \/ PacketFits(x, inbound')
      BY <2>2, AcceptEffect, PlainFits
    <3>3. Prefix(inbound')
      BY <1>same, <3>1 DEF Prefix
    <3>4. First(p)
      <4>1. [kind |-> "RESOURCE", part |-> p] \in net
        BY <1>5 DEF handle_resource_part
      <4>2. PacketFits([kind |-> "RESOURCE", part |-> p], inbound)
        BY <4>1 DEF Known
      <4> QED
        BY <4>2 DEF PacketFits
    <3>5. StoredFirst(inbound')
      BY <1>same, <3>1, <3>4 DEF StoredFirst
    <3> QED
      BY <1>static, <3>1, <3>2, <3>3, <3>5, KnownFrame
  <2> QED
    BY <1>5, <2>1, <2>2 DEF handle_resource_part
<1>6. CASE handle_resource_proof
  <2>1. inbound' = inbound /\ net' \subseteq net
    BY <1>6 DEF handle_resource_proof
  <2> QED
    BY <1>static, <1>same, <2>1, KnownFrame
<1>7. ASSUME NEW e \in End, NEW kind \in {"RESOURCE_ICL", "RESOURCE_RCL"}, handle_cancel(e, kind) PROVE Known'
  <2>1. inbound' = inbound /\ net' \subseteq net
    BY <1>7 DEF handle_cancel
  <2> QED
    BY <1>static, <1>same, <2>1, KnownFrame
<1>8. ASSUME NEW entropy \in BOOLEAN, tick(entropy) PROVE Known'
  <2>1. receiving /\ Retries(entropy)
    BY <1>8 DEF tick
  <2>2. Known'
    <3>1. /\ inbound'.map = inbound.map /\ inbound'.stored = inbound.stored
          /\ \A x \in net' : x \in net \/ PacketFits(x, inbound')
      BY <2>1, RetriesEffect
    <3>2. Prefix(inbound') /\ StoredFirst(inbound')
      BY <1>same, <3>1 DEF Prefix, StoredFirst
    <3> QED
      BY <1>static, <3>1, <3>2, KnownFrame
  <2> QED
    BY <2>2
<1>9. ASSUME NEW e \in End, NEW entropy \in BOOLEAN, close_link(e, entropy) PROVE Known'
  <2>1. CASE receiving /\ Retries(entropy)
    <3>1. /\ inbound'.map = inbound.map /\ inbound'.stored = inbound.stored
          /\ \A x \in net' : x \in net \/ PacketFits(x, inbound')
      BY <2>1, RetriesEffect
    <3>2. Prefix(inbound') /\ StoredFirst(inbound')
      BY <1>same, <3>1 DEF Prefix, StoredFirst
    <3> QED
      BY <1>static, <3>1, <3>2, KnownFrame
  <2>2. CASE UNCHANGED <<inbound, net>>
    BY <1>static, <1>same, <2>2, KnownFrame
  <2> QED
    BY <1>9, <2>1, <2>2 DEF close_link
<1>10. ASSUME NEW e \in End, foreign_cancel(e) PROVE Known'
  <2>1. inbound' = inbound /\ net' \subseteq net \cup {Plain("RESOURCE_ICL"), Plain("RESOURCE_RCL")}
    BY <1>10 DEF foreign_cancel
  <2> QED
    BY <1>static, <1>same, <2>1, KnownFrame, PlainFits
<1>11. ASSUME NEW q \in net, Lose(q) PROVE Known'
  <2>1. inbound' = inbound /\ net' \subseteq net
    BY <1>11 DEF Lose
  <2> QED
    BY <1>static, <1>same, <2>1, KnownFrame
<1>12. CASE Elapse
  <2>1. inbound'.map = inbound.map /\ inbound'.stored = inbound.stored
    BY <1>12, ElapseFact
  <2>2. Prefix(inbound') /\ StoredFirst(inbound') /\ net' = net
    BY <1>12, <1>same, <2>1 DEF Prefix, StoredFirst, Elapse
  <2> QED
    BY <1>static, <2>1, <2>2, KnownFrame
<1>13. CASE UNCHANGED vars
  <2>1. inbound' = inbound /\ net' \subseteq net
    BY <1>13 DEF vars
  <2> QED
    BY <1>static, <1>same, <2>1, KnownFrame
<1> QED
  BY <1>1, <1>2, <1>3, <1>4, <1>5, <1>6, <1>7, <1>8, <1>9, <1>10, <1>11, <1>12,
     <1>13 DEF Next, Deliver

(* A transfer that something was sent for has started.                     *)
LEMMA HasStarted ==
  ASSUME Unstarted, receiving \/ \E x \in net : x.kind \notin {"RESOURCE_ADV", "RESOURCE_ICL"}
  PROVE  outbound # "None" /\ Plain("RESOURCE_ADV") \notin net
BY PlainFact DEF Unstarted

(* It stays started unless an advertisement is sent.                       *)
LEMMA StartFrame ==
  ASSUME Unstarted, receiving \/ \E x \in net : x.kind \notin {"RESOURCE_ADV", "RESOURCE_ICL"},
         outbound' \in {outbound, "Removed"},
         \A x \in net' : x \in net \/ x.kind # "RESOURCE_ADV"
  PROVE  Unstarted'
<1>1. outbound' # "None" /\ Plain("RESOURCE_ADV") \notin net'
  BY HasStarted, PlainFact
<1> QED
  BY <1>1 DEF Unstarted

LEMMA CancelsFrame ==
  ASSUME Cancels, cancelled => cancelled',
         \A x \in net' : x \in net \/ x.kind \notin {"RESOURCE_ICL", "RESOURCE_RCL"}
  PROVE  Cancels'
BY PlainFact DEF Cancels

(* A step that only takes away keeps what has not started that way.        *)
LEMMA UnstartedFrame ==
  ASSUME Unstarted, outbound' = outbound \/ outbound' = "Removed", net' \subseteq net,
         receiving' => receiving, DOMAIN seen' \subseteq DOMAIN seen,
         ~cancelled' => ~cancelled /\ events'["receiver"] = events["receiver"],
         "ResourceComplete" \in Reported("sender")' => "ResourceComplete" \in Reported("sender")
  PROVE  Unstarted'
BY DEF Unstarted

(* The advertisement comes first, and once.                                *)
LEMMA StartStep == TypeOK /\ NeverIdle /\ Start /\ [Next]_vars => Start'
<1> SUFFICES ASSUME TypeOK, NeverIdle, Start, [Next]_vars PROVE Start'
  OBVIOUS
<1>static. world' = world /\ Part' = Part /\ Inbound' = Inbound /\ Packet' = Packet
  BY StaticStep
<1>1. CASE send_resource
  <2>1. /\ outbound = "None" /\ outbound' = "Serving" /\ net' = net \cup {Plain("RESOURCE_ADV")}
        /\ UNCHANGED <<receiving, seen, events, cancelled>>
    BY <1>1 DEF send_resource
  <2>2. UNCHANGED Reported("sender")
    BY <2>1 DEF Reported
  <2>3. net = {} /\ ~receiving /\ DOMAIN seen = {} /\ (~cancelled => events["receiver"] = <<>>)
        /\ "ResourceComplete" \notin Reported("sender")
    BY <2>1 DEF Start, Unstarted
  <2>4. Unstarted'
    BY <2>1, <2>2, <2>3 DEF Unstarted
  <2>5. Cancels'
    BY <2>1, PlainFact, CancelsFrame DEF Start
  <2> QED
    BY <2>4, <2>5 DEF Start
<1>2. CASE handle_ADV
  <2>1. Plain("RESOURCE_ADV") \in net /\ outbound' = outbound /\ cancelled' = cancelled
    BY <1>2 DEF handle_ADV
  <2>2. outbound # "None"
    BY <2>1 DEF Start, Unstarted
  <2>3. \A x \in net' : (x \in net /\ x # Plain("RESOURCE_ADV")) \/ x.kind = "RESOURCE_REQ"
    <3>1. CASE active["receiver"]
      BY <1>2, <3>1, AdvertisementEffect
    <3>2. CASE ~active["receiver"]
      BY <1>2, <3>2 DEF handle_ADV
    <3> QED
      BY <3>1, <3>2
  <2>4. Plain("RESOURCE_ADV") \notin net'
    BY <2>3, PlainFact
  <2>5. Unstarted'
    BY <2>1, <2>2, <2>4 DEF Unstarted
  <2>6. Cancels'
    BY <2>1, <2>3, CancelsFrame DEF Start
  <2> QED
    BY <2>5, <2>6 DEF Start
<1>3. ASSUME NEW q \in net, handle_REQ(q) PROVE Start'
  <2>1. q.kind = "RESOURCE_REQ" /\ outbound' = outbound /\ cancelled' = cancelled
    BY <1>3 DEF handle_REQ
  <2>2. \A x \in net' : x \in net \/ x.kind \in {"RESOURCE", "RESOURCE_HMU"}
    BY <1>3 DEF handle_REQ, on_request
  <2>3. Unstarted'
    BY <2>1, <2>2, StartFrame DEF Start
  <2>4. Cancels'
    BY <2>1, <2>2, CancelsFrame DEF Start
  <2> QED
    BY <2>3, <2>4 DEF Start
<1>4. ASSUME NEW q \in net, handle_HMU(q) PROVE Start'
  <2>1. q.kind = "RESOURCE_HMU" /\ outbound' = outbound /\ cancelled' = cancelled
    BY <1>4 DEF handle_HMU
  <2>2. \A x \in net' : x \in net \/ x.kind = "RESOURCE_REQ"
    BY <1>4 DEF handle_HMU, Request
  <2>3. Unstarted'
    BY <2>1, <2>2, StartFrame DEF Start
  <2>4. Cancels'
    BY <2>1, <2>2, CancelsFrame DEF Start
  <2> QED
    BY <2>3, <2>4 DEF Start
<1>5. ASSUME NEW p \in Part, handle_resource_part(p) PROVE Start'
  <2>1. [kind |-> "RESOURCE", part |-> p] \in net /\ outbound' = outbound /\ cancelled' = cancelled
    BY <1>5 DEF handle_resource_part
  <2>2. \A x \in net' : x \in net \/ x.kind \in {"RESOURCE_REQ", "RESOURCE_PRF"}
    <3>1. CASE net' \subseteq net
      BY <3>1
    <3>2. ASSUME receiving, NEW i \in Matches(inbound, p), accept_part(p, i)
          PROVE  \A x \in net' : x \in net \/ x.kind \in {"RESOURCE_REQ", "RESOURCE_PRF"}
      <4>1. \A x \in net' : x \in net \/ x.kind = "RESOURCE_REQ" \/ x = Plain("RESOURCE_PRF")
        BY <3>2, AcceptEffect
      <4>2. Plain("RESOURCE_PRF").kind = "RESOURCE_PRF"
        BY PlainFact
      <4> QED
        BY <4>1, <4>2
    <3> QED
      BY <1>5, <3>1, <3>2 DEF handle_resource_part
  <2>3. \E x \in net : x.kind \notin {"RESOURCE_ADV", "RESOURCE_ICL"}
    BY <2>1
  <2>4. Unstarted'
    BY <2>1, <2>2, <2>3, StartFrame DEF Start
  <2>5. Cancels'
    BY <2>1, <2>2, CancelsFrame DEF Start
  <2> QED
    BY <2>4, <2>5 DEF Start
<1>6. CASE handle_resource_proof
  <2>1. Plain("RESOURCE_PRF") \in net /\ outbound' \in {outbound, "Removed"} /\ cancelled' = cancelled /\ net' \subseteq net
    BY <1>6 DEF handle_resource_proof
  <2>2. \E x \in net : x.kind \notin {"RESOURCE_ADV", "RESOURCE_ICL"}
    BY <2>1, PlainFact
  <2>3. Unstarted'
    BY <2>1, <2>2, StartFrame DEF Start
  <2>4. Cancels'
    BY <2>1, CancelsFrame DEF Start
  <2> QED
    BY <2>3, <2>4 DEF Start
<1>7. ASSUME NEW e \in End, NEW kind \in {"RESOURCE_ICL", "RESOURCE_RCL"}, handle_cancel(e, kind) PROVE Start'
  <2>1. /\ Plain(kind) \in net /\ net' \subseteq net /\ seen' = seen /\ cancelled' = cancelled
        /\ outbound' \in {outbound, "Removed"}
    BY <1>7 DEF handle_cancel
  <2>2. cancelled
    BY <2>1 DEF Start, Cancels
  <2>3. receiving' => receiving
    BY <1>7 DEF handle_cancel, TypeOK
  <2>4. "ResourceComplete" \in Reported("sender")' => "ResourceComplete" \in Reported("sender")
    <3>1. CASE events' = events
      BY <3>1 DEF Reported
    <3>2. CASE Emit(e, "ResourceFailed")
      BY <3>2, EmitFact DEF End
    <3> QED
      BY <1>7, <3>1, <3>2 DEF handle_cancel
  <2>5. Unstarted'
    BY <2>1, <2>2, <2>3, <2>4, UnstartedFrame DEF Start
  <2>6. Cancels'
    BY <2>1, CancelsFrame DEF Start
  <2> QED
    BY <2>5, <2>6 DEF Start
<1>8. ASSUME NEW entropy \in BOOLEAN, tick(entropy) PROVE Start'
  <2>1. receiving /\ Retries(entropy)
    BY <1>8 DEF tick
  <2>2. Start'
    <3>1. outbound' = outbound /\ cancelled' = cancelled
      BY <1>8 DEF tick
    <3>2. \A x \in net' : x \in net \/ x.kind = "RESOURCE_REQ"
      BY <2>1, RetriesEffect
    <3>3. Unstarted'
      BY <2>1, <3>1, <3>2, StartFrame DEF Start
    <3>4. Cancels'
      BY <3>1, <3>2, CancelsFrame DEF Start
    <3> QED
      BY <3>3, <3>4 DEF Start
  <2> QED
    BY <2>2
<1>9. ASSUME NEW e \in End, NEW entropy \in BOOLEAN, close_link(e, entropy) PROVE Start'
  <2>1. CASE receiving /\ Retries(entropy)
    <3>1. outbound' = outbound /\ cancelled' = cancelled
      BY <1>9 DEF close_link
    <3>2. \A x \in net' : x \in net \/ x.kind = "RESOURCE_REQ"
      BY <2>1, RetriesEffect
    <3>3. Unstarted'
      BY <2>1, <3>1, <3>2, StartFrame DEF Start
    <3>4. Cancels'
      BY <3>1, <3>2, CancelsFrame DEF Start
    <3> QED
      BY <3>3, <3>4 DEF Start
  <2>2. CASE UNCHANGED <<receiving, net, events>>
    <3>1. UNCHANGED <<outbound, seen, cancelled>>
      BY <1>9 DEF close_link
    <3>2. UNCHANGED Reported("sender")
      BY <2>2 DEF Reported
    <3> QED
      BY <2>2, <3>1, <3>2, UnstartedFrame, CancelsFrame DEF Start
  <2> QED
    BY <1>9, <2>1, <2>2 DEF close_link
<1>10. ASSUME NEW e \in End, foreign_cancel(e) PROVE Start'
  <2>1. cancelled' = TRUE /\ UNCHANGED <<seen, events>> /\ outbound # "None"
    BY <1>10 DEF foreign_cancel
  <2>2. Cancels'
    BY <2>1 DEF Cancels
  <2>3. CASE outbound' = "Removed" /\ net' = net \cup {Plain("RESOURCE_ICL")} /\ UNCHANGED receiving
    <3>1. UNCHANGED Reported("sender")
      BY <2>1 DEF Reported
    <3>2. Plain("RESOURCE_ADV") \in net' => Plain("RESOURCE_ADV") \in net
      BY <2>3 DEF Plain
    <3>3. Unstarted'
      BY <2>1, <2>3, <3>1, <3>2 DEF Start, Unstarted
    <3> QED
      BY <2>2, <3>3 DEF Start
  <2>4. CASE receiving /\ net' = net \cup {Plain("RESOURCE_RCL")} /\ UNCHANGED outbound
    <3>1. Unstarted'
      BY <2>4, StartFrame, PlainFact DEF Start
    <3> QED
      BY <2>2, <3>1 DEF Start
  <2> QED
    BY <1>10, <2>3, <2>4 DEF foreign_cancel
<1>11. ASSUME NEW q \in net, Lose(q) PROVE Start'
  <2>1. net' \subseteq net /\ UNCHANGED <<outbound, receiving, seen, events, cancelled>>
    BY <1>11 DEF Lose
  <2>2. UNCHANGED Reported("sender")
    BY <2>1 DEF Reported
  <2> QED
    BY <2>1, <2>2, UnstartedFrame, CancelsFrame DEF Start
<1>12. CASE Elapse
  <2>1. net' = net /\ UNCHANGED <<outbound, receiving, events, cancelled>> /\ DOMAIN seen' \subseteq DOMAIN seen
    BY <1>12 DEF Elapse
  <2>2. UNCHANGED Reported("sender")
    BY <2>1 DEF Reported
  <2> QED
    BY <2>1, <2>2, UnstartedFrame, CancelsFrame DEF Start
<1>13. CASE UNCHANGED vars
  <2>1. net' \subseteq net /\ UNCHANGED <<outbound, receiving, seen, events, cancelled>>
    BY <1>13 DEF vars
  <2>2. UNCHANGED Reported("sender")
    BY <2>1 DEF Reported
  <2> QED
    BY <2>1, <2>2, UnstartedFrame, CancelsFrame DEF Start
<1> QED
  BY <1>1, <1>2, <1>3, <1>4, <1>5, <1>6, <1>7, <1>8, <1>9, <1>10, <1>11, <1>12,
     <1>13 DEF Next, Deliver

(* Two sequences of two elements.                                          *)
LEMMA PairEqual ==
  ASSUME NEW S, NEW s \in Seq(S), NEW t \in Seq(S), Len(s) = 2, Len(t) = 2, s[1] = t[1], s[2] = t[2]
  PROVE  s = t
OBVIOUS

(* What is reported first and second.                                      *)
LEMMA ReportFact ==
  ASSUME NEW v
  PROVE  /\ Append(<<>>, v) = <<v>> /\ Len(<<v>>) = 1 /\ <<v>>[1] = v /\ <<v>> # <<>> /\ Len(<<>>) = 0
         /\ Append(<<"ResourceStarted">>, v) = <<"ResourceStarted", v>>
         /\ Len(<<"ResourceStarted", v>>) = 2 /\ <<"ResourceStarted", v>>[1] = "ResourceStarted"
<1>1. Len(<<v>>) = 1 /\ <<v>>[1] = v /\ Len(<<>>) = 0
  OBVIOUS
<1>2. <<v>> # <<>>
  BY <1>1
<1>3. Append(<<>>, v) = <<v>>
  OBVIOUS
<1>4. Append(<<"ResourceStarted">>, v) = <<"ResourceStarted", v>>
  <2> DEFINE S == {"ResourceStarted", v}
  <2>1. <<"ResourceStarted">> \in Seq(S) /\ v \in S /\ <<"ResourceStarted", v>> \in Seq(S)
    OBVIOUS
  <2>2. Append(<<"ResourceStarted">>, v) \in Seq(S)
    BY <2>1
  <2>3. /\ Len(<<"ResourceStarted">>) = 1 /\ <<"ResourceStarted">>[1] = "ResourceStarted" /\ Len(<<"ResourceStarted", v>>) = 2
        /\ <<"ResourceStarted", v>>[1] = "ResourceStarted" /\ <<"ResourceStarted", v>>[2] = v
    OBVIOUS
  <2> HIDE DEF S
  <2>4. Len(Append(<<"ResourceStarted">>, v)) = 2 /\ Append(<<"ResourceStarted">>, v)[1] = "ResourceStarted" /\ Append(<<"ResourceStarted">>, v)[2] = v
    BY <2>1, <2>3
  <2>5. Append(<<"ResourceStarted">>, v)[1] = <<"ResourceStarted", v>>[1] /\ Append(<<"ResourceStarted">>, v)[2] = <<"ResourceStarted", v>>[2]
    BY <2>3, <2>4, Zenon
  <2> QED
    BY <2>1, <2>2, <2>3, <2>4, <2>5, PairEqual, Zenon
<1>5. Len(<<"ResourceStarted", v>>) = 2 /\ <<"ResourceStarted", v>>[1] = "ResourceStarted"
  OBVIOUS
<1> QED
  BY <1>1, <1>2, <1>3, <1>4, <1>5

(* Ends are no longer as they were, but have reported nothing since.       *)
LEMMA OutcomesFrame ==
  ASSUME Outcomes, ~cancelled' => ~cancelled, events' = events,
         receiving' => receiving, outbound' # "Removed" => outbound # "Removed"
  PROVE  Outcomes'
BY DEF Outcomes

(* The receiver's second and last report.                                  *)
LEMMA LastReport ==
  ASSUME TypeOK, Outcomes, receiving, ~receiving',
         NEW v \in {"ResourceComplete", "ResourceFailed"}, Emit("receiver", v),
         ~cancelled' => ~cancelled, outbound' = outbound
  PROVE  Outcomes' /\ (~cancelled => events'["receiver"] = <<"ResourceStarted", v>>)
<1>1. events'["receiver"] = Append(events["receiver"], v) /\ events'["sender"] = events["sender"]
  BY EmitFact DEF End
<1>2. ~cancelled => events["receiver"] = <<"ResourceStarted">>
  BY DEF Outcomes
<1>3. ~cancelled => events'["receiver"] = <<"ResourceStarted", v>>
  BY <1>1, <1>2, ReportFact
<1>4. Len(<<"ResourceStarted", v>>) <= 2 /\ <<"ResourceStarted", v>>[1] = "ResourceStarted"
  BY ReportFact
<1> QED
  BY <1>1, <1>3, <1>4 DEF Outcomes

(* An end that has an entry has not reported its outcome, and reporting it *)
(* removes the entry.                                                      *)
LEMMA OutcomeStep == TypeOK /\ NeverIdle /\ Start /\ Outcomes /\ [Next]_vars => Outcomes'
<1> SUFFICES ASSUME TypeOK, NeverIdle, Start, Outcomes, [Next]_vars PROVE Outcomes'
  OBVIOUS
<1>static. world' = world /\ Part' = Part /\ Inbound' = Inbound /\ Packet' = Packet
  BY StaticStep
<1>1. CASE send_resource
  BY <1>1, OutcomesFrame DEF send_resource
<1>2. CASE handle_ADV
  <2>1. CASE active["receiver"]
    <3>1. events'["receiver"] = Append(events["receiver"], "ResourceStarted") /\ events'["sender"] = events["sender"]
      BY <1>2, <2>1, AdvertisementEffect, EmitFact DEF End
    <3>2. ~cancelled => events["receiver"] = <<>>
      BY <1>2 DEF handle_ADV, Start, Unstarted
    <3>3. ~cancelled => events'["receiver"] = <<"ResourceStarted">>
      BY <3>1, <3>2, ReportFact
    <3>4. Len(<<"ResourceStarted">>) = 1 /\ <<"ResourceStarted">>[1] = "ResourceStarted"
      BY ReportFact
    <3>5. UNCHANGED <<cancelled, outbound>>
      BY <1>2 DEF handle_ADV
    <3> QED
      BY <3>1, <3>3, <3>4, <3>5 DEF Outcomes
  <2>2. CASE ~active["receiver"]
    BY <1>2, <2>2, OutcomesFrame DEF handle_ADV
  <2> QED
    BY <2>1, <2>2
<1>3. ASSUME NEW q \in net, handle_REQ(q) PROVE Outcomes'
  BY <1>3, OutcomesFrame DEF handle_REQ
<1>4. ASSUME NEW q \in net, handle_HMU(q) PROVE Outcomes'
  BY <1>4, OutcomesFrame DEF handle_HMU
<1>5. ASSUME NEW p \in Part, handle_resource_part(p) PROVE Outcomes'
  <2>0. UNCHANGED <<outbound, cancelled>>
    BY <1>5 DEF handle_resource_part
  <2>1. CASE UNCHANGED <<receiving, events>>
    BY <2>0, <2>1, OutcomesFrame
  <2>2. ASSUME receiving, NEW i \in Matches(inbound, p), accept_part(p, i) PROVE Outcomes'
    <3>1. CASE events' = events
      BY <2>0, <2>2, <3>1, OutcomesFrame
    <3>2. CASE receiving' = FALSE /\ Emit("receiver", "ResourceComplete")
      BY <2>0, <2>2, <3>2, LastReport
    <3>3. CASE receiving' = FALSE /\ Emit("receiver", "ResourceFailed")
      BY <2>0, <2>2, <3>3, LastReport
    <3> QED
      BY <2>2, <3>1, <3>2, <3>3, AcceptEffect
  <2> QED
    BY <1>5, <2>1, <2>2 DEF handle_resource_part
<1>6. CASE handle_resource_proof
  <2>1. UNCHANGED <<receiving, cancelled>>
    BY <1>6 DEF handle_resource_proof
  <2>2. CASE outbound # "Serving" /\ UNCHANGED <<outbound, events>>
    BY <2>1, <2>2, OutcomesFrame
  <2>3. CASE outbound = "Serving" /\ outbound' = "Removed" /\ Emit("sender", "ResourceComplete")
    <3>1. events'["sender"] = Append(events["sender"], "ResourceComplete") /\ events'["receiver"] = events["receiver"]
      BY <2>3, EmitFact DEF End
    <3>2. ~cancelled => events'["sender"] = <<"ResourceComplete">>
      BY <2>3, <3>1, ReportFact DEF Outcomes
    <3>3. Len(<<"ResourceComplete">>) = 1
      BY ReportFact
    <3> QED
      BY <2>1, <2>3, <3>1, <3>2, <3>3 DEF Outcomes
  <2> QED
    BY <1>6, <2>2, <2>3 DEF handle_resource_proof
<1>7. ASSUME NEW e \in End, NEW kind \in {"RESOURCE_ICL", "RESOURCE_RCL"}, handle_cancel(e, kind) PROVE Outcomes'
  <2>1. Plain(kind) \in net /\ cancelled' = cancelled
    BY <1>7 DEF handle_cancel
  <2>2. cancelled
    BY <2>1 DEF Start, Cancels
  <2> QED
    BY <2>1, <2>2 DEF Outcomes
<1>8. ASSUME NEW entropy \in BOOLEAN, tick(entropy) PROVE Outcomes'
  <2>1. receiving /\ Retries(entropy)
    BY <1>8 DEF tick
  <2>2. Outcomes'
    <3>1. UNCHANGED <<outbound, cancelled>>
      BY <1>8 DEF tick
    <3>2. CASE events' = events
      BY <2>1, <3>1, <3>2, OutcomesFrame
    <3>3. CASE receiving' = FALSE /\ Emit("receiver", "ResourceFailed")
      BY <2>1, <3>1, <3>3, LastReport
    <3> QED
      BY <2>1, <3>2, <3>3, RetriesEffect
  <2> QED
    BY <2>2
<1>9. ASSUME NEW e \in End, NEW entropy \in BOOLEAN, close_link(e, entropy) PROVE Outcomes'
  <2>1. CASE receiving /\ Retries(entropy)
    <3>1. UNCHANGED <<outbound, cancelled>>
      BY <1>9 DEF close_link
    <3>2. CASE events' = events
      BY <2>1, <3>1, <3>2, OutcomesFrame
    <3>3. CASE receiving' = FALSE /\ Emit("receiver", "ResourceFailed")
      BY <2>1, <3>1, <3>3, LastReport
    <3> QED
      BY <2>1, <3>2, <3>3, RetriesEffect
  <2>2. CASE UNCHANGED <<receiving, events>>
    BY <1>9, <2>2, OutcomesFrame DEF close_link
  <2> QED
    BY <1>9, <2>1, <2>2 DEF close_link
<1>10. ASSUME NEW e \in End, foreign_cancel(e) PROVE Outcomes'
  BY <1>10 DEF foreign_cancel, Outcomes
<1>11. ASSUME NEW q \in net, Lose(q) PROVE Outcomes'
  BY <1>11, OutcomesFrame DEF Lose
<1>12. CASE Elapse
  BY <1>12, OutcomesFrame DEF Elapse
<1>13. CASE UNCHANGED vars
  BY <1>13, OutcomesFrame DEF vars
<1> QED
  BY <1>1, <1>2, <1>3, <1>4, <1>5, <1>6, <1>7, <1>8, <1>9, <1>10, <1>11, <1>12,
     <1>13 DEF Next, Deliver

(* Steps that neither prove anything nor touch what is proved.             *)
LEMMA DeliveredFrame ==
  ASSUME Delivered, world' = world, inbound'.stored = inbound.stored, receiving' => receiving,
         Plain("RESOURCE_PRF") \in net' => Plain("RESOURCE_PRF") \in net,
         "ResourceComplete" \in Reported("sender")' => "ResourceComplete" \in Reported("sender"),
         "ResourceComplete" \in Reported("receiver") => "ResourceComplete" \in Reported("receiver")'
  PROVE  Delivered'
<1>1. finalize(inbound) => finalize(inbound)'
  BY StaticFact DEF finalize
<1> QED
  BY <1>1 DEF Delivered

(* While a transfer runs there is nothing to prove.                        *)
LEMMA NotYet ==
  ASSUME Delivered, receiving,
         Plain("RESOURCE_PRF") \in net' => Plain("RESOURCE_PRF") \in net,
         UNCHANGED Reported("sender")
  PROVE  Delivered'
BY DEF Delivered

(* The proof is sent when the last part has made the data complete and right, *)
(* and the entry it came from is gone.                                     *)
LEMMA DeliverStep == TypeOK /\ NeverIdle /\ Start /\ Delivered /\ [Next]_vars => Delivered'
<1> SUFFICES ASSUME TypeOK, NeverIdle, Start, Delivered, [Next]_vars PROVE Delivered'
  OBVIOUS
<1>static. world' = world /\ Part' = Part /\ Inbound' = Inbound /\ Packet' = Packet
  BY StaticStep
<1>1. CASE send_resource
  <2>1. UNCHANGED <<inbound, receiving, events>> /\ net' = net \cup {Plain("RESOURCE_ADV")}
    BY <1>1 DEF send_resource
  <2>2. UNCHANGED <<Reported("sender"), Reported("receiver")>>
    BY <2>1 DEF Reported
  <2>3. Plain("RESOURCE_PRF") \in net' => Plain("RESOURCE_PRF") \in net
    BY <2>1, PlainFact
  <2> QED
    BY <1>static, <2>1, <2>2, <2>3, DeliveredFrame
<1>2. CASE handle_ADV
  <2>1. Plain("RESOURCE_PRF") \notin net /\ "ResourceComplete" \notin Reported("sender")
    <3>1. Plain("RESOURCE_ADV") \in net
      BY <1>2 DEF handle_ADV
    <3>2. net \subseteq {Plain("RESOURCE_ADV"), Plain("RESOURCE_ICL")} /\ "ResourceComplete" \notin Reported("sender")
      BY <3>1 DEF Start, Unstarted
    <3> QED
      BY <3>2, PlainFact
  <2>2. CASE active["receiver"]
    <3>1. \A x \in net' : x \in net \/ x.kind = "RESOURCE_REQ"
      BY <1>2, <2>2, AdvertisementEffect
    <3>2. UNCHANGED Reported("sender")
      BY <1>2, <2>2, AdvertisementEffect, EmitFact DEF End
    <3>3. Plain("RESOURCE_PRF") \notin net'
      BY <2>1, <3>1, PlainFact
    <3> QED
      BY <2>1, <3>2, <3>3 DEF Delivered
  <2>3. CASE ~active["receiver"]
    <3>1. net' \subseteq net /\ events' = events
      BY <1>2, <2>3 DEF handle_ADV
    <3>2. UNCHANGED Reported("sender")
      BY <3>1 DEF Reported
    <3> QED
      BY <2>1, <3>1, <3>2 DEF Delivered
  <2> QED
    BY <2>2, <2>3
<1>3. ASSUME NEW q \in net, handle_REQ(q) PROVE Delivered'
  <2>1. UNCHANGED <<inbound, receiving, events>>
    BY <1>3 DEF handle_REQ
  <2>2. UNCHANGED <<Reported("sender"), Reported("receiver")>>
    BY <2>1 DEF Reported
  <2>3. \A x \in net' : x \in net \/ x.kind \in {"RESOURCE", "RESOURCE_HMU"}
    BY <1>3 DEF handle_REQ, on_request
  <2>4. Plain("RESOURCE_PRF") \in net' => Plain("RESOURCE_PRF") \in net
    BY <2>3, PlainFact
  <2> QED
    BY <1>static, <2>1, <2>2, <2>4, DeliveredFrame
<1>4. ASSUME NEW q \in net, handle_HMU(q) PROVE Delivered'
  <2>1. events' = events /\ receiving' = receiving
    BY <1>4 DEF handle_HMU
  <2>2. UNCHANGED <<Reported("sender"), Reported("receiver")>>
    BY <2>1 DEF Reported
  <2>3. \A x \in net' : x \in net \/ x.kind = "RESOURCE_REQ"
    BY <1>4 DEF handle_HMU, Request
  <2>4. Plain("RESOURCE_PRF") \in net' => Plain("RESOURCE_PRF") \in net
    BY <2>3, PlainFact
  <2>5. CASE receiving
    BY <2>2, <2>4, <2>5, NotYet
  <2>6. CASE ~receiving
    <3>1. inbound' = inbound
      BY <1>4, <2>6 DEF handle_HMU
    <3> QED
      BY <1>static, <2>1, <2>2, <2>4, <3>1, DeliveredFrame
  <2> QED
    BY <2>5, <2>6
<1>5. ASSUME NEW p \in Part, handle_resource_part(p) PROVE Delivered'
  <2>1. CASE UNCHANGED <<inbound, receiving, events>> /\ net' \subseteq net
    <3>1. UNCHANGED <<Reported("sender"), Reported("receiver")>>
      BY <2>1 DEF Reported
    <3> QED
      BY <1>static, <2>1, <3>1, DeliveredFrame
  <2>2. ASSUME receiving, NEW i \in Matches(inbound, p), accept_part(p, i) PROVE Delivered'
    <3>1. Plain("RESOURCE_PRF") \notin net /\ "ResourceComplete" \notin Reported("sender")
      BY <2>2 DEF Delivered
    <3>2. events' = events \/ Emit("receiver", "ResourceComplete") \/ Emit("receiver", "ResourceFailed")
      BY <2>2, AcceptEffect
    <3>3. UNCHANGED Reported("sender")
      <4>1. CASE events' = events
        BY <4>1 DEF Reported
      <4>2. CASE Emit("receiver", "ResourceComplete") \/ Emit("receiver", "ResourceFailed")
        BY <4>2, EmitFact DEF End
      <4> QED
        BY <3>2, <4>1, <4>2
    <3>4. ASSUME Plain("RESOURCE_PRF") \in net'
          PROVE  receiving' = FALSE /\ finalize(inbound') /\ "ResourceComplete" \in Reported("receiver")'
      <4>1. receiving' = FALSE /\ finalize(inbound') /\ Emit("receiver", "ResourceComplete")
        BY <2>2, <3>1, <3>4, AcceptEffect, PlainFact
      <4>2. Reported("receiver")' = Reported("receiver") \cup {"ResourceComplete"}
        BY <4>1, EmitFact DEF End
      <4> QED
        BY <4>1, <4>2
    <3> QED
      BY <1>static, <3>1, <3>3, <3>4, PrimeFact DEF Delivered
  <2> QED
    BY <1>5, <2>1, <2>2 DEF handle_resource_part
<1>6. CASE handle_resource_proof
  <2>1. Plain("RESOURCE_PRF") \in net /\ UNCHANGED <<inbound, receiving>>
    BY <1>6 DEF handle_resource_proof
  <2>2. "ResourceComplete" \in Reported("receiver") /\ finalize(inbound) /\ ~receiving
    BY <2>1 DEF Delivered
  <2>3. UNCHANGED Reported("receiver")
    <3>1. CASE events' = events
      BY <3>1 DEF Reported
    <3>2. CASE Emit("sender", "ResourceComplete")
      BY <3>2, EmitFact DEF End
    <3> QED
      BY <1>6, <3>1, <3>2 DEF handle_resource_proof
  <2>4. finalize(inbound)'
    BY <1>static, <2>1, <2>2 DEF finalize
  <2> QED
    BY <2>1, <2>2, <2>3, <2>4 DEF Delivered
<1>7. ASSUME NEW e \in End, NEW kind \in {"RESOURCE_ICL", "RESOURCE_RCL"}, handle_cancel(e, kind) PROVE Delivered'
  <2>1. inbound' = inbound /\ net' \subseteq net
    BY <1>7 DEF handle_cancel
  <2>2. receiving' => receiving
    BY <1>7 DEF handle_cancel, TypeOK
  <2>3. /\ "ResourceComplete" \in Reported("sender")' => "ResourceComplete" \in Reported("sender")
        /\ "ResourceComplete" \in Reported("receiver") => "ResourceComplete" \in Reported("receiver")'
    <3>1. CASE events' = events
      BY <3>1 DEF Reported
    <3>2. CASE Emit(e, "ResourceFailed")
      BY <3>2, EmitFact DEF End
    <3> QED
      BY <1>7, <3>1, <3>2 DEF handle_cancel
  <2> QED
    BY <1>static, <2>1, <2>2, <2>3, DeliveredFrame
<1>8. ASSUME NEW entropy \in BOOLEAN, tick(entropy) PROVE Delivered'
  <2>1. receiving /\ Retries(entropy)
    BY <1>8 DEF tick
  <2>2. Delivered'
    <3>1. \A x \in net' : x \in net \/ x.kind = "RESOURCE_REQ"
      BY <2>1, RetriesEffect
    <3>2. events' = events \/ Emit("receiver", "ResourceFailed")
      BY <2>1, RetriesEffect
    <3>3. UNCHANGED Reported("sender")
      <4>1. CASE events' = events
        BY <4>1 DEF Reported
      <4>2. CASE Emit("receiver", "ResourceFailed")
        BY <4>2, EmitFact DEF End
      <4> QED
        BY <3>2, <4>1, <4>2
    <3>4. Plain("RESOURCE_PRF") \in net' => Plain("RESOURCE_PRF") \in net
      BY <3>1, PlainFact
    <3> QED
      BY <2>1, <3>3, <3>4, NotYet
  <2> QED
    BY <2>2
<1>9. ASSUME NEW e \in End, NEW entropy \in BOOLEAN, close_link(e, entropy) PROVE Delivered'
  <2>1. CASE receiving /\ Retries(entropy)
    <3>1. \A x \in net' : x \in net \/ x.kind = "RESOURCE_REQ"
      BY <2>1, RetriesEffect
    <3>2. events' = events \/ Emit("receiver", "ResourceFailed")
      BY <2>1, RetriesEffect
    <3>3. UNCHANGED Reported("sender")
      <4>1. CASE events' = events
        BY <4>1 DEF Reported
      <4>2. CASE Emit("receiver", "ResourceFailed")
        BY <4>2, EmitFact DEF End
      <4> QED
        BY <3>2, <4>1, <4>2
    <3>4. Plain("RESOURCE_PRF") \in net' => Plain("RESOURCE_PRF") \in net
      BY <3>1, PlainFact
    <3> QED
      BY <2>1, <3>3, <3>4, NotYet
  <2>2. CASE UNCHANGED <<receiving, inbound, net, events>>
    <3>1. UNCHANGED <<Reported("sender"), Reported("receiver")>>
      BY <2>2 DEF Reported
    <3> QED
      BY <1>static, <2>2, <3>1, DeliveredFrame
  <2> QED
    BY <1>9, <2>1, <2>2 DEF close_link
<1>10. ASSUME NEW e \in End, foreign_cancel(e) PROVE Delivered'
  <2>1. UNCHANGED <<inbound, events>> /\ net' \subseteq net \cup {Plain("RESOURCE_ICL"), Plain("RESOURCE_RCL")}
    BY <1>10 DEF foreign_cancel
  <2>2. receiving' => receiving
    BY <1>10 DEF foreign_cancel, TypeOK
  <2>3. UNCHANGED <<Reported("sender"), Reported("receiver")>>
    BY <2>1 DEF Reported
  <2>4. Plain("RESOURCE_PRF") \in net' => Plain("RESOURCE_PRF") \in net
    BY <2>1, PlainFact
  <2> QED
    BY <1>static, <2>1, <2>2, <2>3, <2>4, DeliveredFrame
<1>11. ASSUME NEW q \in net, Lose(q) PROVE Delivered'
  <2>1. UNCHANGED <<inbound, receiving, events>> /\ net' \subseteq net
    BY <1>11 DEF Lose
  <2>2. UNCHANGED <<Reported("sender"), Reported("receiver")>>
    BY <2>1 DEF Reported
  <2> QED
    BY <1>static, <2>1, <2>2, DeliveredFrame
<1>12. CASE Elapse
  <2>1. UNCHANGED <<receiving, events, net>> /\ inbound'.stored = inbound.stored
    BY <1>12, ElapseFact DEF Elapse
  <2>2. UNCHANGED <<Reported("sender"), Reported("receiver")>>
    BY <2>1 DEF Reported
  <2> QED
    BY <1>static, <2>1, <2>2, DeliveredFrame
<1>13. CASE UNCHANGED vars
  <2>1. UNCHANGED <<inbound, receiving, events>> /\ net' \subseteq net
    BY <1>13 DEF vars
  <2>2. UNCHANGED <<Reported("sender"), Reported("receiver")>>
    BY <2>1 DEF Reported
  <2> QED
    BY <1>static, <2>1, <2>2, DeliveredFrame
<1> QED
  BY <1>1, <1>2, <1>3, <1>4, <1>5, <1>6, <1>7, <1>8, <1>9, <1>10, <1>11, <1>12,
     <1>13 DEF Next, Deliver

(* Steps that neither retry nor report.                                    *)
LEMMA CountsFrame ==
  ASSUME Counts, world' = world, UNCHANGED <<resent, starved>>, receiving' => receiving,
         inbound'.retries = inbound.retries, inbound'.stored = inbound.stored,
         ~cancelled' => ~cancelled /\ events'["receiver"] = events["receiver"]
  PROVE  Counts'
<1>1. is_complete(inbound)' <=> is_complete(inbound)
  BY StaticFact DEF is_complete, Missing
<1> QED
  BY <1>1 DEF Counts, Counted, FailsAfterRetries

(* A transfer that goes on has not failed.                                 *)
LEMMA CountsRunning ==
  ASSUME Outcomes, receiving \/ receiving', Outcomes', receiving', Counted' PROVE Counts'
<1>1. ~cancelled' => events'["receiver"] = <<"ResourceStarted">>
  BY DEF Outcomes
<1>2. <<"ResourceStarted">> # <<"ResourceStarted", "ResourceFailed">>
  OBVIOUS
<1> QED
  BY <1>1, <1>2 DEF Counts, FailsAfterRetries

(* Every retry that is counted has been sent, or was due without entropy.  *)
LEMMA CountStep == TypeOK /\ NeverIdle /\ Known /\ Start /\ Outcomes /\ Counts /\ [Next]_vars => Counts'
<1> SUFFICES ASSUME TypeOK, NeverIdle, Known, Start, Outcomes, Counts, [Next]_vars PROVE Counts'
  OBVIOUS
<1>static. world' = world /\ Part' = Part /\ Inbound' = Inbound /\ Packet' = Packet
  BY StaticStep
<1>next. Outcomes'
  BY OutcomeStep
<1>1. CASE send_resource
  <2>1. UNCHANGED <<inbound, receiving, events, resent, starved, cancelled>>
    BY <1>1 DEF send_resource
  <2> QED
    BY <1>static, <2>1, CountsFrame
<1>2. CASE handle_ADV
  <2>1. CASE active["receiver"]
    <3>1. receiving' = TRUE /\ inbound'.retries = 0 /\ resent' = resent
      BY <1>2, <2>1, AdvertisementEffect DEF handle_ADV
    <3>2. Counted'
      BY <3>1 DEF Counted, TypeOK
    <3> QED
      BY <1>next, <3>1, <3>2, CountsRunning
  <2>2. CASE ~active["receiver"]
    BY <1>2, <1>static, <2>2, CountsFrame DEF handle_ADV
  <2> QED
    BY <2>1, <2>2
<1>3. ASSUME NEW q \in net, handle_REQ(q) PROVE Counts'
  <2>1. UNCHANGED <<inbound, receiving, events, resent, starved, cancelled>>
    BY <1>3 DEF handle_REQ
  <2> QED
    BY <1>static, <2>1, CountsFrame
<1>4. ASSUME NEW q \in net, handle_HMU(q) PROVE Counts'
  <2>1. UNCHANGED <<receiving, events, resent, starved, cancelled>>
    BY <1>4 DEF handle_HMU
  <2>2. inbound'.retries = inbound.retries /\ inbound'.stored = inbound.stored
    <3>1. CASE active["receiver"] /\ receiving
      BY <1>4, <3>1, UpdateEffect
    <3>2. CASE ~(active["receiver"] /\ receiving)
      BY <1>4, <3>2 DEF handle_HMU
    <3> QED
      BY <3>1, <3>2
  <2> QED
    BY <1>static, <2>1, <2>2, CountsFrame
<1>5. ASSUME NEW p \in Part, handle_resource_part(p) PROVE Counts'
  <2>0. cancelled' = cancelled
    BY <1>5 DEF handle_resource_part
  <2>1. CASE UNCHANGED <<receiving, inbound, events, resent, starved>>
    BY <1>static, <2>0, <2>1, CountsFrame
  <2>2. ASSUME receiving, NEW i \in Matches(inbound, p), accept_part(p, i) PROVE Counts'
    <3>1. Counted'
      <4>1. resent' \in Nat /\ (~starved' => \/ inbound'.retries = 0
                                             \/ ~starved /\ resent' = resent /\ inbound'.retries = inbound.retries)
        BY <2>2, AcceptEffect
      <4> QED
        BY <2>2, <4>1 DEF Counts, Counted
    <3>2. CASE receiving' = TRUE
      BY <1>next, <3>1, <3>2, CountsRunning
    <3>3. CASE is_complete(inbound')
      BY <1>static, <3>1, <3>3, PrimeFact DEF Counts, FailsAfterRetries
    <3> QED
      BY <2>2, <3>2, <3>3, AcceptEffect
  <2> QED
    BY <1>5, <2>1, <2>2 DEF handle_resource_part
<1>6. CASE handle_resource_proof
  <2>1. UNCHANGED <<inbound, receiving, resent, starved, cancelled>>
    BY <1>6 DEF handle_resource_proof
  <2>2. events'["receiver"] = events["receiver"]
    <3>1. CASE events' = events
      BY <3>1
    <3>2. CASE Emit("sender", "ResourceComplete")
      BY <3>2, EmitFact DEF End
    <3> QED
      BY <1>6, <3>1, <3>2 DEF handle_resource_proof
  <2> QED
    BY <1>static, <2>1, <2>2, CountsFrame
<1>7. ASSUME NEW e \in End, NEW kind \in {"RESOURCE_ICL", "RESOURCE_RCL"}, handle_cancel(e, kind) PROVE Counts'
  <2>1. Plain(kind) \in net /\ UNCHANGED <<inbound, resent, starved, cancelled>>
    BY <1>7 DEF handle_cancel
  <2>2. cancelled
    BY <2>1 DEF Start, Cancels
  <2>3. receiving' => receiving
    BY <1>7 DEF handle_cancel, TypeOK
  <2> QED
    BY <1>static, <2>1, <2>2, <2>3, CountsFrame
<1>8. ASSUME NEW entropy \in BOOLEAN, tick(entropy) PROVE Counts'
  <2>1. receiving /\ Retries(entropy)
    BY <1>8 DEF tick
  <2>2. Counts'
    <3>1. inbound \in Inbound /\ resent \in Nat
      BY DEF TypeOK
    <3>2. inbound.retries \in Nat /\ MAX_RETRIES \in Nat
      BY <3>1, InboundFact, ResourceAssumption
    <3>3. CASE /\ receiving' = FALSE /\ inbound.retries >= MAX_RETRIES
               /\ UNCHANGED <<inbound, resent, starved>>
      <4>1. ~starved => resent >= MAX_RETRIES
        BY <2>1, <3>1, <3>2, <3>3 DEF Counts, Counted
      <4> QED
        BY <3>3, <4>1 DEF Counts, Counted, FailsAfterRetries
    <3>4. CASE /\ receiving' = TRUE
               /\ ~starved' => ~starved /\ resent' = resent + 1 /\ inbound'.retries = inbound.retries + 1
      <4>1. Counted'
        BY <2>1, <3>1, <3>2, <3>4 DEF Counts, Counted
      <4> QED
        BY <1>next, <3>4, <4>1, CountsRunning
    <3> QED
      BY <2>1, <3>3, <3>4, RetriesEffect
  <2> QED
    BY <2>2
<1>9. ASSUME NEW e \in End, NEW entropy \in BOOLEAN, close_link(e, entropy) PROVE Counts'
  <2>1. CASE receiving /\ Retries(entropy)
    <3>1. inbound \in Inbound /\ resent \in Nat
      BY DEF TypeOK
    <3>2. inbound.retries \in Nat /\ MAX_RETRIES \in Nat
      BY <3>1, InboundFact, ResourceAssumption
    <3>3. CASE /\ receiving' = FALSE /\ inbound.retries >= MAX_RETRIES
               /\ UNCHANGED <<inbound, resent, starved>>
      <4>1. ~starved => resent >= MAX_RETRIES
        BY <2>1, <3>1, <3>2, <3>3 DEF Counts, Counted
      <4> QED
        BY <3>3, <4>1 DEF Counts, Counted, FailsAfterRetries
    <3>4. CASE /\ receiving' = TRUE
               /\ ~starved' => ~starved /\ resent' = resent + 1 /\ inbound'.retries = inbound.retries + 1
      <4>1. Counted'
        BY <2>1, <3>1, <3>2, <3>4 DEF Counts, Counted
      <4> QED
        BY <1>next, <3>4, <4>1, CountsRunning
    <3> QED
      BY <2>1, <3>3, <3>4, RetriesEffect
  <2>2. CASE UNCHANGED <<receiving, inbound, resent, starved, events>>
    <3>1. UNCHANGED cancelled
      BY <1>9 DEF close_link
    <3> QED
      BY <1>static, <2>2, <3>1, CountsFrame
  <2> QED
    BY <1>9, <2>1, <2>2 DEF close_link
<1>10. ASSUME NEW e \in End, foreign_cancel(e) PROVE Counts'
  <2>1. cancelled' = TRUE /\ UNCHANGED <<inbound, resent, starved>>
    BY <1>10 DEF foreign_cancel
  <2>2. receiving' => receiving
    BY <1>10 DEF foreign_cancel, TypeOK
  <2> QED
    BY <1>static, <2>1, <2>2, CountsFrame
<1>11. ASSUME NEW q \in net, Lose(q) PROVE Counts'
  <2>1. UNCHANGED <<inbound, receiving, events, resent, starved, cancelled>>
    BY <1>11 DEF Lose
  <2> QED
    BY <1>static, <2>1, CountsFrame
<1>12. CASE Elapse
  <2>1. UNCHANGED <<receiving, events, resent, starved, cancelled>>
    BY <1>12 DEF Elapse
  <2>2. inbound'.retries = inbound.retries /\ inbound'.stored = inbound.stored
    BY <1>12, ElapseFact
  <2> QED
    BY <1>static, <2>1, <2>2, CountsFrame
<1>13. CASE UNCHANGED vars
  <2>1. UNCHANGED <<inbound, receiving, events, resent, starved, cancelled>>
    BY <1>13 DEF vars
  <2> QED
    BY <1>static, <2>1, CountsFrame
<1> QED
  BY <1>1, <1>2, <1>3, <1>4, <1>5, <1>6, <1>7, <1>8, <1>9, <1>10, <1>11, <1>12,
     <1>13 DEF Next, Deliver

(* Steps that take nothing away from the receiver.                         *)
LEMMA DedupFrame ==
  ASSUME DedupHarmless, receiving' => receiving, active'["receiver"] => active["receiver"],
         inbound'.stored = inbound.stored, DOMAIN seen' \subseteq DOMAIN seen
  PROVE  DedupHarmless'
BY DEF DedupHarmless

(* A part that arrives is known and the first of its hash: it is filed under *)
(* its own index, or its bytes are there already.                          *)
LEMMA DedupStep == TypeOK /\ NeverIdle /\ Known /\ Start /\ DedupHarmless /\ [Next]_vars => DedupHarmless'
<1> SUFFICES ASSUME TypeOK, NeverIdle, Known, Start, DedupHarmless, [Next]_vars PROVE DedupHarmless'
  OBVIOUS
<1>static. world' = world /\ Part' = Part /\ Inbound' = Inbound /\ Packet' = Packet
  BY StaticStep
<1>1. CASE send_resource
  <2>1. UNCHANGED <<active, inbound, receiving, seen>>
    BY <1>1 DEF send_resource
  <2> QED
    BY <2>1, DedupFrame
<1>2. CASE handle_ADV
  <2>1. DOMAIN seen = {} /\ seen' = seen
    BY <1>2 DEF handle_ADV, Start, Unstarted
  <2> QED
    BY <2>1 DEF DedupHarmless
<1>3. ASSUME NEW q \in net, handle_REQ(q) PROVE DedupHarmless'
  <2>1. UNCHANGED <<active, inbound, receiving, seen>>
    BY <1>3 DEF handle_REQ
  <2> QED
    BY <2>1, DedupFrame
<1>4. ASSUME NEW q \in net, handle_HMU(q) PROVE DedupHarmless'
  <2>1. UNCHANGED <<active, receiving, seen>>
    BY <1>4 DEF handle_HMU
  <2>2. inbound'.stored = inbound.stored
    <3>1. CASE active["receiver"] /\ receiving
      BY <1>4, <3>1, UpdateEffect
    <3>2. CASE ~(active["receiver"] /\ receiving)
      BY <1>4, <3>2 DEF handle_HMU
    <3> QED
      BY <3>1, <3>2
  <2> QED
    BY <2>1, <2>2, DedupFrame
<1>5. ASSUME NEW p \in Part, handle_resource_part(p) PROVE DedupHarmless'
  <2> SUFFICES ASSUME receiving', active'["receiver"] PROVE \A x \in DOMAIN seen' : inbound'.stored[x] = x
    BY DEF DedupHarmless
  <2>0. active["receiver"] /\ inbound \in Inbound
    BY <1>5 DEF handle_resource_part, TypeOK
  <2>1. p \in inbound.map /\ First(p)
    <3>1. [kind |-> "RESOURCE", part |-> p] \in net
      BY <1>5 DEF handle_resource_part
    <3>2. PacketFits([kind |-> "RESOURCE", part |-> p], inbound)
      BY <3>1 DEF Known
    <3> QED
      BY <3>2 DEF PacketFits
  <2>2. inbound.stored[p] # 0 => inbound.stored[p] = p
    <3> SUFFICES ASSUME inbound.stored[p] # 0 PROVE inbound.stored[p] = p
      OBVIOUS
    <3>1. inbound.stored[p] \in Part
      BY <2>0, InboundFact
    <3>2. HashOf[inbound.stored[p]] = HashOf[p] /\ First(inbound.stored[p])
      BY DEF Known, StoredFirst
    <3>3. inbound.stored[p] <= p /\ p <= inbound.stored[p] /\ p \in Nat /\ inbound.stored[p] \in Nat
      BY <2>1, <3>1, <3>2, WorldFact DEF First
    <3> QED
      BY <3>3
  <2>3. inbound.stored[p] = 0 => p \in Matches(inbound, p)
    BY <2>1 DEF Matches, Missing
  <2>4. CASE p \in DOMAIN seen
    <3>1. UNCHANGED <<receiving, inbound, seen>>
      BY <1>5, <2>4 DEF handle_resource_part
    <3> QED
      BY <2>0, <3>1 DEF DedupHarmless
  <2>5. CASE p \notin DOMAIN seen
    <3>1. DOMAIN seen' = DOMAIN seen \cup {p}
      BY <1>5, <2>5 DEF handle_resource_part
    <3>2. CASE /\ UNCHANGED <<receiving, inbound>>
               /\ ~(active["receiver"] /\ receiving /\ Matches(inbound, p) # {})
      <4>1. inbound.stored[p] = p
        BY <2>0, <2>2, <2>3, <3>2
      <4> QED
        BY <2>0, <3>1, <3>2, <4>1 DEF DedupHarmless
    <3>3. ASSUME receiving, NEW i \in Matches(inbound, p), \A j \in Matches(inbound, p) : i <= j, accept_part(p, i)
          PROVE  \A x \in DOMAIN seen' : inbound'.stored[x] = x
      <4>1. /\ i \in Part /\ HashOf[i] = HashOf[p] /\ inbound'.stored[i] = p
            /\ \A j \in Part \ {i} : inbound'.stored[j] = inbound.stored[j]
        BY <3>3, AcceptEffect
      <4>2. i \in Missing(inbound) /\ inbound.stored[i] = 0
        BY DEF Matches, Missing
      <4>3. ASSUME NEW x \in DOMAIN seen PROVE inbound'.stored[x] = x
        <5>1. x \in Part /\ inbound.stored[x] = x /\ x # 0
          BY <2>0, <3>3, <4>3, WorldFact DEF DedupHarmless, TypeOK
        <5> QED
          BY <4>1, <4>2, <5>1
      <4>4. inbound'.stored[p] = p
        <5>1. CASE inbound.stored[p] = 0
          <6>1. i <= p /\ p <= i /\ p \in Nat /\ i \in Nat
            BY <2>1, <2>3, <3>3, <4>1, <5>1, WorldFact DEF First
          <6>2. i = p
            BY <6>1
          <6> QED
            BY <4>1, <6>2
        <5>2. CASE inbound.stored[p] # 0
          BY <2>2, <4>1, <4>2, <5>2
        <5> QED
          BY <5>1, <5>2
      <4> QED
        BY <3>1, <4>3, <4>4
    <3> QED
      BY <1>5, <2>5, <3>2, <3>3 DEF handle_resource_part
  <2> QED
    BY <2>4, <2>5
<1>6. CASE handle_resource_proof
  <2>1. UNCHANGED <<active, inbound, receiving, seen>>
    BY <1>6 DEF handle_resource_proof
  <2> QED
    BY <2>1, DedupFrame
<1>7. ASSUME NEW e \in End, NEW kind \in {"RESOURCE_ICL", "RESOURCE_RCL"}, handle_cancel(e, kind) PROVE DedupHarmless'
  <2>1. UNCHANGED <<active, inbound, seen>>
    BY <1>7 DEF handle_cancel
  <2>2. receiving' => receiving
    BY <1>7 DEF handle_cancel, TypeOK
  <2> QED
    BY <2>1, <2>2, DedupFrame
<1>8. ASSUME NEW entropy \in BOOLEAN, tick(entropy) PROVE DedupHarmless'
  <2>1. receiving /\ UNCHANGED <<active, seen>>
    BY <1>8 DEF tick
  <2>2. inbound'.stored = inbound.stored
    BY <1>8, RetriesEffect DEF tick
  <2> QED
    BY <2>1, <2>2, DedupFrame
<1>9. ASSUME NEW e \in End, NEW entropy \in BOOLEAN, close_link(e, entropy) PROVE DedupHarmless'
  <2>1. seen' = seen /\ (active'["receiver"] => active["receiver"])
    BY <1>9 DEF close_link, TypeOK, End
  <2>2. CASE receiving /\ Retries(entropy)
    <3>1. inbound'.stored = inbound.stored
      BY <2>2, RetriesEffect
    <3> QED
      BY <2>1, <2>2, <3>1, DedupFrame
  <2>3. CASE UNCHANGED <<receiving, inbound>>
    BY <2>1, <2>3, DedupFrame
  <2> QED
    BY <1>9, <2>2, <2>3 DEF close_link
<1>10. ASSUME NEW e \in End, foreign_cancel(e) PROVE DedupHarmless'
  <2>1. UNCHANGED <<active, inbound, seen>>
    BY <1>10 DEF foreign_cancel
  <2>2. receiving' => receiving
    BY <1>10 DEF foreign_cancel, TypeOK
  <2> QED
    BY <2>1, <2>2, DedupFrame
<1>11. ASSUME NEW q \in net, Lose(q) PROVE DedupHarmless'
  <2>1. UNCHANGED <<active, inbound, receiving, seen>>
    BY <1>11 DEF Lose
  <2> QED
    BY <2>1, DedupFrame
<1>12. CASE Elapse
  <2>1. UNCHANGED <<active, receiving>> /\ DOMAIN seen' \subseteq DOMAIN seen
    BY <1>12 DEF Elapse
  <2>2. inbound'.stored = inbound.stored
    BY <1>12, ElapseFact
  <2> QED
    BY <2>1, <2>2, DedupFrame
<1>13. CASE UNCHANGED vars
  <2>1. UNCHANGED <<active, inbound, receiving, seen>>
    BY <1>13 DEF vars
  <2> QED
    BY <2>1, DedupFrame
<1> QED
  BY <1>1, <1>2, <1>3, <1>4, <1>5, <1>6, <1>7, <1>8, <1>9, <1>10, <1>11, <1>12,
     <1>13 DEF Next, Deliver

---------------------------------------------------------------------------
LEMMA InitFact == Init => RInv
<1> SUFFICES ASSUME Init PROVE RInv
  OBVIOUS
<1>1. /\ world \in Worlds /\ world.parts \in 1 .. N /\ world.losses \in Nat /\ world.zero \in BOOLEAN
  BY ResourceAssumption DEF Init
<1>2. <<>> \in Seq({"ResourceStarted", "ResourceComplete", "ResourceFailed"}) /\ Len(<<>>) = 0 /\ 1 .. 0 = {}
  OBVIOUS
<1>3. from_advertisement \in Inbound
  <2>1. Segment(0) \subseteq Part
    BY DEF Segment
  <2>2. WINDOW \in WINDOW_MIN .. WINDOW_MAX /\ 0 \in 0 .. MAX_RETRIES /\ 0 \in 0 .. REQUEST_TIMEOUT_SECS
    BY ResourceAssumption
  <2> QED
    BY <2>1, <2>2 DEF from_advertisement, Inbound
<1>4. TypeOK
  <2>1. active \in [End -> BOOLEAN]
    BY DEF Init
  <2>2. events \in [End -> Seq({"ResourceStarted", "ResourceComplete", "ResourceFailed"})]
    BY <1>2 DEF Init
  <2>3. seen = [p \in {} |-> 0]
    BY DEF Init
  <2>4. DOMAIN seen = {}
    BY <2>3
  <2>5. lost \in 0 .. world.losses /\ resent \in Nat
    BY <1>1 DEF Init
  <2>6. zero \in BOOLEAN
    BY <1>1 DEF Init
  <2>7. /\ outbound = "None" /\ receiving = FALSE /\ inbound = from_advertisement /\ net = {}
        /\ starved = FALSE /\ cancelled = FALSE
    BY DEF Init
  <2>8. DOMAIN seen \subseteq Part /\ \A p \in DOMAIN seen : seen[p] < PACKET_HASH_TTL_SECS
    BY <2>4
  <2> QED
    BY <1>1, <1>3, <2>1, <2>2, <2>5, <2>6, <2>7, <2>8 DEF TypeOK
<1>5. /\ net = {} /\ ~receiving /\ DOMAIN seen = {} /\ ~cancelled /\ outbound = "None"
      /\ events["sender"] = <<>> /\ events["receiver"] = <<>> /\ inbound = from_advertisement
  BY DEF Init, End
<1>6. NeverIdle /\ DedupHarmless
  BY <1>5 DEF NeverIdle, DedupHarmless
<1>7. Known
  BY <1>4, <1>5, AdvertisementFact DEF Known
<1>8. Reported("sender") = {}
  BY <1>2, <1>5 DEF Reported
<1>9. Start /\ Delivered
  BY <1>5, <1>8 DEF Start, Unstarted, Cancels, Delivered
<1>10. Outcomes
  BY <1>2, <1>5 DEF Outcomes
<1>11. Counts
  <2>1. <<>> # <<"ResourceStarted", "ResourceFailed">>
    OBVIOUS
  <2> QED
    BY <1>5, <2>1 DEF Counts, Counted, FailsAfterRetries
<1> QED
  BY <1>4, <1>6, <1>7, <1>9, <1>10, <1>11 DEF RInv

(* The inductive invariant.                                                *)
THEOREM Invariance == Spec => []RInv
<1>1. RInv /\ [Next]_vars => RInv'
  <2> SUFFICES ASSUME RInv, [Next]_vars PROVE RInv'
    OBVIOUS
  <2>1. TypeOK' /\ NeverIdle'
    BY TypeStep, IdleStep DEF RInv
  <2>2. Known' /\ Start'
    BY KnownStep, StartStep DEF RInv, Start
  <2>3. Outcomes' /\ Delivered' /\ Counts' /\ DedupHarmless'
    BY OutcomeStep, DeliverStep, CountStep, DedupStep DEF RInv
  <2> QED
    BY <2>1, <2>2, <2>3 DEF RInv
<1> QED
  BY <1>1, InitFact, PTL DEF Spec

(* Type correctness of both ends and of the medium: the window stays       *)
(* between its limits and the retries never exceed MAX_RETRIES.            *)
THEOREM TypeCorrect == Spec => []TypeOK
<1>1. RInv => TypeOK
  BY DEF RInv
<1> QED
  BY <1>1, Invariance, PTL

(* A receiver always waits for something it asked for, whatever is lost,   *)
(* repeated or late: ready_for_request cannot be missed for good.          *)
THEOREM ReceiverNeverIdle == Spec => []NeverIdle
<1>1. RInv => NeverIdle
  BY DEF RInv
<1> QED
  BY <1>1, Invariance, PTL

(* The sender's ResourceComplete means that the receiver has the data.     *)
THEOREM CompleteIsDelivered == Spec => []CompleteMeansDelivered
<1>1. RInv => CompleteMeansDelivered
  BY DEF RInv, Delivered, CompleteMeansDelivered, Reported
<1> QED
  BY <1>1, Invariance, PTL

(* Each end reports one outcome, after the start.                          *)
THEOREM OutcomesOnce == Spec => []OneOutcome
<1>1. RInv => OneOutcome
  <2>1. Len(<<"ResourceStarted">>) # 2
    OBVIOUS
  <2> QED
    BY <2>1 DEF RInv, Outcomes, OneOutcome
<1> QED
  BY <1>1, Invariance, PTL

(* The memory of packets never swallows a part that is still needed, even  *)
(* where map hashes collide.                                               *)
THEOREM DedupNeverHarms == Spec => []DedupHarmless
<1>1. RInv => DedupHarmless
  BY DEF RInv
<1> QED
  BY <1>1, Invariance, PTL

(* The retry timer gives up only after MAX_RETRIES requests sent again.    *)
THEOREM FailureAfterRetries == Spec => []FailsAfterRetries
<1>1. RInv => FailsAfterRetries
  BY DEF RInv, Counts
<1> QED
  BY <1>1, Invariance, PTL
===========================================================================
