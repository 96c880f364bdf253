----------------------------- MODULE Resource -----------------------------
(***************************************************************************)
(* One resource transfer over an established link, from                    *)
(* crates/reticulum-node/src/resource_state.rs (OutboundResource and       *)
(* InboundResource) and the handlers of node.rs that drive them: the       *)
(* advertisement, the windowed part requests, hashmap updates, retries     *)
(* from tick, completion and the proof, over a medium that loses and       *)
(* reorders packets.                                                       *)
(*                                                                         *)
(* A part is its index, its bytes are the index they were cut from, and    *)
(* its 4-byte map hash is HashOf[index].  Packets sealed under the link    *)
(* key have a fresh IV, so no two are equal and seen_packets lets each be  *)
(* handled once: they leave the net when handled.  A RESOURCE part is sent *)
(* as it is, so a retransmission is the same packet as the original and    *)
(* the receiver's memory of it ("seen") matters.                           *)
(* Timestamps are ages, as in module Link.                                 *)
(***************************************************************************)
EXTENDS Naturals, Sequences, FiniteSets

CONSTANTS
  N,                     \* bound on the number of parts
  HashOf,                \* the map hash of each part
  WINDOW, WINDOW_MIN, WINDOW_MAX,
  MAX_RETRIES,
  HASHMAP_MAX_LEN,       \* map hashes in an advertisement or a hashmap update
  REQUEST_TIMEOUT_SECS,
  PACKET_HASH_TTL_SECS,
  Worlds                 \* the circumstances considered; see below

(* A world says how many parts the resource has, whether time waits for    *)
(* packets under way and due ticks (prompt; otherwise a packet that is     *)
(* never delivered is a lost one), how many packets of the kinds that are  *)
(* retried get lost, whether the clock reads 0 until time first elapses,   *)
(* and whether it is troubled: links close, foreign peers cancel, and      *)
(* ticks come without entropy.                                             *)
ASSUME ResourceAssumption ==
  /\ N \in Nat \ {0}
  /\ HashOf \in [1 .. N -> Nat]
  /\ WINDOW_MIN \in Nat \ {0} /\ WINDOW \in Nat /\ WINDOW_MAX \in Nat
  /\ WINDOW_MIN <= WINDOW /\ WINDOW <= WINDOW_MAX
  /\ MAX_RETRIES \in Nat
  /\ HASHMAP_MAX_LEN \in Nat \ {0}
  /\ REQUEST_TIMEOUT_SECS \in Nat \ {0}
  /\ PACKET_HASH_TTL_SECS \in Nat \ {0}
  /\ Worlds \subseteq [parts : 1 .. N, prompt : BOOLEAN, losses : Nat, zero : BOOLEAN,
                  troubled : BOOLEAN]

(* OutboundResource::new draws a new random hash until no two of any       *)
(* CollisionGuard + 1 consecutive map hashes are equal; hashes further     *)
(* apart are not compared.                                                 *)
CollisionGuard == 2 * WINDOW_MAX + HASHMAP_MAX_LEN

ASSUME CollisionAssumption ==
  \A i, j \in 1 .. N : i < j /\ HashOf[i] = HashOf[j] => j - i > CollisionGuard

VARIABLES
  active,     \* is the link Active, at the sender and at the receiver
  outbound,   \* the sender's entry in outbound_resources: not yet there,
              \* there, or removed
  receiving,  \* the receiver's entry in inbound_resources exists
  inbound,    \* that InboundResource
  seen,       \* seen_packets of the receiver: RESOURCE parts and their ages
  net,        \* packets under way
  zero,       \* the clock still reads 0
  events,     \* resource events emitted at each end
  resent,     \* retry requests sent since the last window was filled
  starved,    \* since then, a retry was due in a tick without entropy
  cancelled,  \* a foreign peer cancelled the transfer
  lost,       \* packets lost so far
  world       \* the world this behaviour takes place in

vars == <<active, outbound, receiving, inbound, seen, net, zero, events,
          resent, starved, cancelled, lost, world>>

Part == 1 .. world.parts
Hash == {HashOf[i] : i \in Part}

End == {"sender", "receiver"}

Packet ==
  [kind : {"RESOURCE_ADV", "RESOURCE_PRF", "RESOURCE_ICL", "RESOURCE_RCL"}]
    \cup [kind : {"RESOURCE_REQ"}, last : SUBSET Hash, hashes : SUBSET Hash]
    \cup [kind : {"RESOURCE"}, part : Part]
    \cup [kind : {"RESOURCE_HMU"}, segment : Nat]

Plain(kind) == [kind |-> kind]

Emit(e, event) == events' = [events EXCEPT ![e] = Append(@, event)]

---------------------------------------------------------------------------
(* InboundResource.  map: the indices whose hash is known.  stored[i]: the *)
(* bytes kept for part i, 0 for None.  stamped: last_request # 0.          *)

Inbound ==
  [map : SUBSET Part, stored : [Part -> Part \cup {0}], outstanding : SUBSET Hash,
   window : WINDOW_MIN .. WINDOW_MAX, retries : 0 .. MAX_RETRIES,
   age : 0 .. REQUEST_TIMEOUT_SECS, stamped : BOOLEAN, waiting_for_hmu : BOOLEAN]

Segment(s) == {i \in Part : s * HASHMAP_MAX_LEN < i /\ i <= (s + 1) * HASHMAP_MAX_LEN}

from_advertisement ==
  [map |-> Segment(0), stored |-> [i \in Part |-> 0], outstanding |-> {},
   window |-> WINDOW, retries |-> 0, age |-> 0, stamped |-> FALSE, waiting_for_hmu |-> FALSE]

Missing(r) == {i \in Part : r.stored[i] = 0}

is_complete(r) == Missing(r) = {}

FirstMissing(r, i) == i \in Missing(r) /\ \A j \in Missing(r) : i <= j

(* The parts one request names: missing, known, within the window.         *)
Wanted(r, first) == {i \in Missing(r) \cap r.map : first <= i /\ i < first + r.window}

(* next_request, for the first missing index: the new state and the packet.*)
next_request(r, first) ==
  IF first \in r.map
  THEN [r EXCEPT !.outstanding = {HashOf[i] : i \in Wanted(r, first)},
                 !.age = 0, !.stamped = ~zero]
  ELSE [r EXCEPT !.waiting_for_hmu = TRUE, !.age = 0, !.stamped = ~zero]

(* The hash a request for more of the map quotes: the last known one       *)
(* before the first missing part.  There is one: segment 0 came with the   *)
(* advertisement, so next_request never returns early for lack of it.      *)
LastKnown(r, first) ==
  {HashOf[i] : i \in {i \in r.map : i < first /\ \A j \in r.map : j < first => j <= i}}

(* A request without a "last" hash is HASHMAP_IS_NOT_EXHAUSTED.            *)
Request(r, first) ==
  IF first \in r.map
  THEN [kind |-> "RESOURCE_REQ", last |-> {}, hashes |-> {HashOf[i] : i \in Wanted(r, first)}]
  ELSE [kind |-> "RESOURCE_REQ", last |-> LastKnown(r, first), hashes |-> {}]

(* Mutant of Matches: only what the last request named is accepted.        *)
MatchesOutstanding(r, p) ==
  {i \in Missing(r) \cap r.map : HashOf[i] = HashOf[p] /\ HashOf[i] \in r.outstanding}

(* The index on_part files some bytes under: the first missing one whose   *)
(* known hash is that of the bytes.                                        *)
Matches(r, p) == {i \in Missing(r) \cap r.map : HashOf[i] = HashOf[p]}

(* Mutant of on_part: the hash stays outstanding.                          *)
on_part_not_retained(r, i, p) == [r EXCEPT !.stored[i] = p]

(* Mutant of on_part: the window grows without a limit.                    *)
on_part_uncapped(r, i, p) ==
  LET left == r.outstanding \ {HashOf[p]}
      kept == [r EXCEPT !.stored[i] = p, !.outstanding = left]
  IN IF left = {} THEN [kept EXCEPT !.window = @ + 1, !.retries = 0] ELSE kept

on_part(r, i, p) ==
  LET left == r.outstanding \ {HashOf[p]}
      kept == [r EXCEPT !.stored[i] = p, !.outstanding = left]
  IN IF left = {}
     THEN [kept EXCEPT !.window = IF @ < WINDOW_MAX THEN @ + 1 ELSE @, !.retries = 0]
     ELSE kept

on_hashmap_update(r, s) == [r EXCEPT !.map = @ \cup Segment(s), !.waiting_for_hmu = FALSE]

ready_for_request(r) == ~is_complete(r) /\ r.outstanding = {} /\ ~r.waiting_for_hmu

retry_due(r) == r.stamped /\ r.age >= REQUEST_TIMEOUT_SECS /\ ~is_complete(r)

(* Mutant of retried: the retry is not counted.                            *)
retried_uncounted(r) == [r EXCEPT !.window = IF @ > WINDOW_MIN THEN @ - 1 ELSE WINDOW_MIN]

retried(r) ==
  [r EXCEPT !.retries = @ + 1, !.window = IF @ > WINDOW_MIN THEN @ - 1 ELSE WINDOW_MIN]

(* The first index of each hash, which is what a search of the map finds.  *)
FirstIndices(hashes) ==
  {i \in Part : HashOf[i] \in hashes /\ \A j \in Part : HashOf[j] = HashOf[i] => i <= j}

(* Mutant of on_request: the segment sent is the one just exhausted.       *)
on_request_same_segment(q) ==
  {[kind |-> "RESOURCE", part |-> i] : i \in FirstIndices(q.hashes)}
    \cup {[kind |-> "RESOURCE_HMU", segment |-> i \div HASHMAP_MAX_LEN - 1] :
            i \in {i \in FirstIndices(q.last) : i % HASHMAP_MAX_LEN = 0 /\ i < world.parts}}

(* OutboundResource::on_request: every named hash is answered with the     *)
(* first part that has it, and an exhausted map with the next segment.     *)
on_request(q) ==
  {[kind |-> "RESOURCE", part |-> i] : i \in FirstIndices(q.hashes)}
    \cup {[kind |-> "RESOURCE_HMU", segment |-> i \div HASHMAP_MAX_LEN] :
            i \in {i \in FirstIndices(q.last) : i % HASHMAP_MAX_LEN = 0 /\ i < world.parts}}

---------------------------------------------------------------------------
Init ==
  /\ world \in Worlds
  /\ active = [e \in End |-> TRUE]
  /\ outbound = "None"
  /\ receiving = FALSE
  /\ inbound = from_advertisement
  /\ seen = [p \in {} |-> 0]
  /\ net = {}
  /\ zero = world.zero
  /\ events = [e \in End |-> <<>>]
  /\ resent = 0 /\ starved = FALSE
  /\ cancelled = FALSE
  /\ lost = 0

(* The sender's application offers the data, over an Active link.          *)
send_resource ==
  /\ active["sender"]
  /\ outbound = "None"
  /\ outbound' = "Serving"
  /\ net' = net \cup {Plain("RESOURCE_ADV")}
  /\ UNCHANGED <<active, receiving, inbound, seen, zero, events, resent, starved, cancelled, lost, world>>

(* RESOURCE_ADV: a new InboundResource and its first request.              *)
handle_ADV ==
  /\ Plain("RESOURCE_ADV") \in net
  /\ \/ /\ active["receiver"]
        /\ receiving' = TRUE
        /\ \E first \in Part :
             /\ FirstMissing(from_advertisement, first)
             /\ inbound' = next_request(from_advertisement, first)
             /\ net' = (net \ {Plain("RESOURCE_ADV")}) \cup {Request(from_advertisement, first)}
        /\ Emit("receiver", "ResourceStarted")
     \/ /\ ~active["receiver"]
        /\ net' = net \ {Plain("RESOURCE_ADV")}
        /\ UNCHANGED <<receiving, inbound, events>>
  /\ UNCHANGED <<active, outbound, seen, zero, resent, starved, cancelled, lost, world>>

(* RESOURCE_REQ at the sender: parts and hashmap updates go out.           *)
handle_REQ(q) ==
  /\ q.kind = "RESOURCE_REQ"
  /\ net' = (net \ {q}) \cup IF active["sender"] /\ outbound = "Serving" THEN on_request(q) ELSE {}
  /\ UNCHANGED <<active, outbound, receiving, inbound, seen, zero, events, resent, starved, cancelled, lost, world>>

(* RESOURCE_HMU at the receiver: the map grows and a request follows.      *)
handle_HMU(q) ==
  /\ q.kind = "RESOURCE_HMU"
  /\ \/ /\ active["receiver"] /\ receiving
        /\ \E first \in Part :
             LET r == on_hashmap_update(inbound, q.segment) IN
             /\ FirstMissing(r, first)
             /\ inbound' = next_request(r, first)
             /\ net' = (net \ {q}) \cup {Request(r, first)}
     \/ /\ ~(active["receiver"] /\ receiving)
        /\ net' = net \ {q}
        /\ UNCHANGED inbound
  /\ UNCHANGED <<active, outbound, receiving, seen, zero, events, resent, starved, cancelled, lost, world>>

(* finalize opens the reassembled stream and checks the resource hash:     *)
(* only the right bytes in every place pass.                               *)
finalize(r) == \A i \in Part : r.stored[i] = i

(* Mutant of accept_part: the proof goes out with the first full window.   *)
accept_part_early_proof(p, i) ==
  LET r == on_part(inbound, i, p)
  IN /\ r.outstanding = {}
     /\ resent' = 0 /\ starved' = FALSE
     /\ receiving' = FALSE
     /\ inbound' = r
     /\ net' = (net \ {[kind |-> "RESOURCE", part |-> p]}) \cup {Plain("RESOURCE_PRF")}
     /\ Emit("receiver", "ResourceComplete")

(* A part that a resource of the link accepts: kept, and then either the   *)
(* last one (proof and ResourceComplete, or ResourceFailed), or the end of *)
(* a window (the next request), or neither.                                *)
accept_part(p, i) ==
  LET r == on_part(inbound, i, p)
      rest == net \ {[kind |-> "RESOURCE", part |-> p]}
  IN /\ resent' = IF r.outstanding = {} THEN 0 ELSE resent
     /\ starved' = (starved /\ r.outstanding # {})
     /\ \/ /\ is_complete(r)
           /\ receiving' = FALSE
           /\ inbound' = r
           /\ \/ /\ finalize(r)
                 /\ net' = rest \cup {Plain("RESOURCE_PRF")}
                 /\ Emit("receiver", "ResourceComplete")
              \/ /\ ~finalize(r)
                 /\ net' = rest
                 /\ Emit("receiver", "ResourceFailed")
        \/ /\ ready_for_request(r)
           /\ \E first \in Part :
                /\ FirstMissing(r, first)
                /\ inbound' = next_request(r, first)
                /\ net' = IF r.retries = 0 THEN rest \cup {Request(r, first)} ELSE rest
           /\ UNCHANGED <<receiving, events>>
        \/ /\ ~is_complete(r) /\ ~ready_for_request(r)
           /\ inbound' = r
           /\ net' = rest
           /\ UNCHANGED <<receiving, events>>

(* A RESOURCE packet at the receiver.  Its hash is remembered before       *)
(* anything else is looked at; a remembered one is dropped.                *)
handle_resource_part(p) ==
  /\ [kind |-> "RESOURCE", part |-> p] \in net
  /\ \/ /\ p \notin DOMAIN seen
        /\ seen' = [q \in DOMAIN seen \cup {p} |-> IF q = p THEN 0 ELSE seen[q]]
        /\ \/ /\ active["receiver"] /\ receiving
              /\ \E i \in Matches(inbound, p) :
                   /\ \A j \in Matches(inbound, p) : i <= j
                   /\ accept_part(p, i)
           \/ /\ ~(active["receiver"] /\ receiving /\ Matches(inbound, p) # {})
              /\ net' = net \ {[kind |-> "RESOURCE", part |-> p]}
              /\ UNCHANGED <<receiving, inbound, events, resent, starved>>
     \/ /\ p \in DOMAIN seen
        /\ net' = net \ {[kind |-> "RESOURCE", part |-> p]}
        /\ UNCHANGED <<receiving, inbound, seen, events, resent, starved>>
  /\ UNCHANGED <<active, outbound, zero, cancelled, lost, world>>

(* RESOURCE_PRF at the sender, whatever the status of its link.            *)
handle_resource_proof ==
  /\ Plain("RESOURCE_PRF") \in net
  /\ net' = net \ {Plain("RESOURCE_PRF")}
  /\ \/ /\ outbound = "Serving"
        /\ outbound' = "Removed"
        /\ Emit("sender", "ResourceComplete")
     \/ /\ outbound # "Serving"
        /\ UNCHANGED <<outbound, events>>
  /\ UNCHANGED <<active, receiving, inbound, seen, zero, resent, starved, cancelled, lost, world>>

(* RESOURCE_ICL or RESOURCE_RCL: the entries go, ResourceFailed is emitted *)
(* even when there was nothing left to remove.                             *)
handle_cancel(e, kind) ==
  /\ <<e, kind>> \in {<<"receiver", "RESOURCE_ICL">>, <<"sender", "RESOURCE_RCL">>}
  /\ Plain(kind) \in net
  /\ net' = net \ {Plain(kind)}
  /\ \/ /\ active[e]
        /\ receiving' = (receiving /\ e # "receiver")
        /\ outbound' = IF e = "sender" THEN "Removed" ELSE outbound
        /\ Emit(e, "ResourceFailed")
     \/ /\ ~active[e]
        /\ UNCHANGED <<receiving, outbound, events>>
  /\ UNCHANGED <<active, inbound, seen, zero, resent, starved, cancelled, lost, world>>

(* Mutant of Retries: the failed resource is not removed.                  *)
RetriesNotRemoved(entropy) ==
  /\ retry_due(inbound)
  /\ \/ /\ inbound.retries >= MAX_RETRIES
        /\ Emit("receiver", "ResourceFailed")
        /\ UNCHANGED <<receiving, inbound, net, resent, starved>>
     \/ /\ inbound.retries < MAX_RETRIES
        /\ inbound' = [retried(inbound) EXCEPT !.age = 0]
        /\ UNCHANGED <<receiving, net, resent, starved, events>>

(* Mutant of Retries: one retry short.                                     *)
RetriesOneShort(entropy) ==
  /\ retry_due(inbound) /\ inbound.retries + 1 >= MAX_RETRIES
  /\ receiving' = FALSE
  /\ Emit("receiver", "ResourceFailed")
  /\ UNCHANGED <<inbound, net, resent, starved>>

(* The part of tick_inner that serves the receiver's resource when its     *)
(* retry is due: a new request, or failure when the retries are used up.   *)
(* The request is enqueued only if the tick has entropy to seal it with;   *)
(* the status of the link is not looked at.                                *)
Retries(entropy) ==
  /\ retry_due(inbound)
  /\ \/ /\ inbound.retries >= MAX_RETRIES
        /\ receiving' = FALSE
        /\ Emit("receiver", "ResourceFailed")
        /\ UNCHANGED <<inbound, net, resent, starved>>
     \/ /\ inbound.retries < MAX_RETRIES
        /\ \E first \in Part :
             /\ FirstMissing(inbound, first)
             /\ inbound' = next_request(retried(inbound), first)
             /\ net' = IF entropy THEN net \cup {Request(retried(inbound), first)} ELSE net
        /\ resent' = IF entropy THEN resent + 1 ELSE resent
        /\ starved' = (starved \/ ~entropy)
        /\ UNCHANGED <<receiving, events>>

(* A tick at the receiver: the periodic one has entropy; the one that      *)
(* follows the closing of another link has none.                           *)
tick(entropy) ==
  /\ entropy \/ world.troubled
  /\ receiving
  /\ Retries(entropy)
  /\ UNCHANGED <<active, outbound, seen, zero, cancelled, lost, world>>

(* The link of the transfer closes at one end, and the resources of the    *)
(* link stay.  The same call ticks: with entropy when the stale timer      *)
(* closed the link, without for the CloseLink command or a LINKCLOSE.      *)
close_link(e, entropy) ==
  /\ world.troubled
  /\ active[e]
  /\ active' = [active EXCEPT ![e] = FALSE]
  /\ \/ e = "receiver" /\ receiving /\ Retries(entropy)
     \/ /\ ~(e = "receiver" /\ receiving /\ retry_due(inbound))
        /\ UNCHANGED <<receiving, inbound, net, resent, starved, events>>
  /\ UNCHANGED <<outbound, seen, zero, cancelled, lost, world>>

---------------------------------------------------------------------------
(* The environment.                                                        *)

(* The peer is another implementation and its application cancels.         *)
foreign_cancel(e) ==
  /\ world.troubled
  /\ active[e]
  /\ outbound # "None" /\ ~cancelled
  /\ cancelled' = TRUE
  /\ \/ /\ e = "sender" /\ outbound = "Serving"
        /\ outbound' = "Removed"
        /\ net' = net \cup {Plain("RESOURCE_ICL")}
        /\ UNCHANGED receiving
     \/ /\ e = "receiver" /\ receiving
        /\ receiving' = FALSE
        /\ net' = net \cup {Plain("RESOURCE_RCL")}
        /\ UNCHANGED outbound
  /\ UNCHANGED <<active, inbound, seen, zero, events, resent, starved, lost, world>>

Lose(q) ==
  /\ q.kind \in {"RESOURCE_REQ", "RESOURCE", "RESOURCE_HMU"}
  /\ lost < world.losses
  /\ lost' = lost + 1
  /\ net' = net \ {q}
  /\ UNCHANGED <<active, outbound, receiving, inbound, seen, zero, events, resent, starved, cancelled, world>>

(* Time passes.                                                            *)
Elapse ==
  /\ world.prompt => net = {} /\ ~(receiving /\ retry_due(inbound))
  /\ zero' = FALSE
  /\ inbound' = [inbound EXCEPT !.age = IF @ < REQUEST_TIMEOUT_SECS THEN @ + 1 ELSE @]
  /\ seen' = [p \in {q \in DOMAIN seen : seen[q] + 1 < PACKET_HASH_TTL_SECS} |-> seen[p] + 1]
  /\ UNCHANGED <<active, outbound, receiving, net, events, resent, starved, cancelled, lost, world>>

Deliver ==
  \/ handle_ADV
  \/ \E q \in net : handle_REQ(q)
  \/ \E q \in net : handle_HMU(q)
  \/ \E p \in Part : handle_resource_part(p)
  \/ handle_resource_proof
  \/ \E e \in End, kind \in {"RESOURCE_ICL", "RESOURCE_RCL"} : handle_cancel(e, kind)

Next ==
  \/ send_resource
  \/ Deliver
  \/ \E entropy \in BOOLEAN : tick(entropy)
  \/ \E e \in End, entropy \in BOOLEAN : close_link(e, entropy)
  \/ \E e \in End : foreign_cancel(e)
  \/ \E q \in net : Lose(q)
  \/ Elapse

Spec == Init /\ [][Next]_vars

(* The clock advances, the driver's periodic tick, which has entropy,      *)
(* keeps coming, and in a prompt world the medium gets on with it.         *)
Fairness ==
  /\ WF_vars(Elapse)
  /\ WF_vars(tick(TRUE))
  /\ WF_vars(world.prompt /\ Deliver)

FairSpec == Spec /\ Fairness

---------------------------------------------------------------------------
(* Properties.                                                             *)

(* Type correctness of both ends and of the medium.                        *)
TypeOK ==
  /\ active \in [End -> BOOLEAN]
  /\ outbound \in {"None", "Serving", "Removed"}
  /\ receiving \in BOOLEAN
  /\ inbound \in Inbound
  /\ DOMAIN seen \subseteq Part
  /\ \A p \in DOMAIN seen : seen[p] < PACKET_HASH_TTL_SECS
  /\ net \subseteq Packet
  /\ zero \in BOOLEAN /\ cancelled \in BOOLEAN
  /\ events \in [End -> Seq({"ResourceStarted", "ResourceComplete", "ResourceFailed"})]
  /\ resent \in Nat /\ starved \in BOOLEAN
  /\ world \in Worlds
  /\ lost \in 0 .. world.losses

(* The receiver is never idle: while a transfer is under way it is waiting *)
(* for parts it asked for, all of them still missing and known by hash, or *)
(* for a hashmap update.  Otherwise handle_resource_part would never ask   *)
(* for the next window (ready_for_request).                                *)
NeverIdle ==
  receiving =>
    /\ ~is_complete(inbound)
    /\ inbound.outstanding # {} \/ inbound.waiting_for_hmu
    /\ inbound.outstanding \subseteq {HashOf[i] : i \in Missing(inbound) \cap inbound.map}

(* The sender reports ResourceComplete only after the receiver has the     *)
(* data, every part in its place.                                          *)
CompleteMeansDelivered ==
  "ResourceComplete" \in {events["sender"][i] : i \in 1 .. Len(events["sender"])}
    => /\ "ResourceComplete" \in {events["receiver"][i] : i \in 1 .. Len(events["receiver"])}
       /\ finalize(inbound)

(* Each end reports one outcome, after the start and never a second time,  *)
(* unless a cancel of the peer crosses the outcome on its way.             *)
OneOutcome ==
  ~cancelled => /\ Len(events["sender"]) <= 1
                /\ Len(events["receiver"]) <= 2
                /\ Len(events["receiver"]) = 2 => ~receiving
                /\ events["receiver"] # <<>> => events["receiver"][1] = "ResourceStarted"

(* A part packet in seen_packets is a part the receiver has: the dedup     *)
(* window never swallows a retransmission that is still needed.            *)
DedupHarmless ==
  (receiving /\ active["receiver"]) => \A p \in DOMAIN seen : inbound.stored[p] = p

(* ResourceFailed from the retry timer comes only after MAX_RETRIES        *)
(* requests have really been sent again without filling a window, unless a *)
(* retry was due in a tick without entropy: that one counts without being  *)
(* sent.                                                                   *)
FailsAfterRetries ==
  (~cancelled /\ ~starved /\ events["receiver"] = <<"ResourceStarted", "ResourceFailed">>
     /\ ~is_complete(inbound))
    => resent >= MAX_RETRIES

(* A transfer the receiver started ends there, completed or failed,        *)
(* whatever is lost and whichever link end closes, unless the last request *)
(* was made when the clock read 0, which retry_due takes for none.         *)
ReceiverEnds == (receiving /\ inbound.stamped) ~> ~receiving

(* A transfer that nobody disturbs completes: as long as no more parts,    *)
(* requests and hashmap updates are lost than there are retries, these     *)
(* bring it to its end, with ResourceComplete at both ends.                *)
TransferCompletes ==
  (world.prompt /\ ~world.troubled /\ world.losses <= MAX_RETRIES /\ outbound = "Serving")
    ~> /\ events["receiver"] = <<"ResourceStarted", "ResourceComplete">>
       /\ events["sender"] = <<"ResourceComplete">>
===========================================================================
