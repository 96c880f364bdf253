------------------------------- MODULE Link -------------------------------
(***************************************************************************)
(* The life cycle of one RNS link between two nodes, from                  *)
(* crates/reticulum-node/src/node.rs: the initiator's establish_link, the  *)
(* LINKREQUEST / LRPROOF handshake, link data, keepalives, the stale timer *)
(* and closing, over a medium that loses, duplicates, delays and reorders  *)
(* packets.  Links share no state but the clock, so one link is the whole  *)
(* story; the packets of another link have another link id and another     *)
(* packet hash.                                                            *)
(*                                                                         *)
(* Time.  A timestamp of the code is kept as its age, now - timestamp, and *)
(* an age stops growing at the largest threshold the code compares it to.  *)
(* Elapse is one unit of time; every duration below is in that unit.       *)
(***************************************************************************)
EXTENDS Integers, Sequences

CONSTANTS
  Keys,                  \* session keys: one for every responder ephemeral
  Msgs,                  \* plaintexts handed to link_send (each has its own IV)
  LINK_KEEPALIVE_SECS,
  LINK_STALE_SECS,
  PACKET_HASH_TTL_SECS,
  Worlds,                \* the media and process lives considered; see below
  NoKey, NoMsg

(* A world says whether time waits for whatever is due (prompt: nothing is *)
(* lost and no node falls behind), until what age a copy of a packet may   *)
(* arrive, and how often processes restart.                                *)
ASSUME LinkAssumption ==
  /\ LINK_KEEPALIVE_SECS \in Nat \ {0}
  /\ LINK_STALE_SECS \in Nat \ {0}
  /\ PACKET_HASH_TTL_SECS \in Nat \ {0}
  /\ Worlds \subseteq [prompt : BOOLEAN, lifetime : Nat, restarts : Nat]
  /\ NoKey \notin Keys
  /\ NoMsg \notin Msgs
  /\ {"LinkEstablished", "LinkClosed", "Error"} \cap Msgs = {}

(* How the timers relate: 360 + 2 * 60 seconds against 720.                *)
ASSUME TimerAssumption ==
  LINK_KEEPALIVE_SECS + 2 * PACKET_HASH_TTL_SECS <= LINK_STALE_SECS + 1

VARIABLES
  status,     \* LinkEntry.status at each end; "Absent": no entry in the registry
  key,        \* LinkEntry.derived_key
  activity,   \* age of LinkEntry.last_activity
  keepalive,  \* age of LinkEntry.last_keepalive
  seen,       \* seen_packets: the packets remembered, with their ages
  net,        \* the packets under way, with the age of the youngest copy
  sent,       \* the plaintexts each end has passed to link_send
  got,        \* the plaintexts each end was handed, in all its lives
  events,     \* the events each node has emitted for this link, in this life
  asked,      \* some end was told to close the link
  restarts,   \* process restarts so far
  world       \* the world this behaviour takes place in

vars == <<status, key, activity, keepalive, seen, net, sent, got, events, asked, restarts, world>>
timers == <<activity, keepalive>>
history == <<sent, got, asked, restarts, world>>

End == {"initiator", "responder"}

Peer(e) == IF e = "initiator" THEN "responder" ELSE "initiator"

Status == {"Absent", "Pending", "Active", "Closed"}

Kind == {"LINKREQUEST", "LRPROOF", "LRRTT", "DATA", "KEEPALIVE", "LINKCLOSE"}

(* A packet of this link.  "key" is the key that seals it (for an LRPROOF, *)
(* the key its ephemeral leads to); a keepalive is sent in the clear, 0xFF *)
(* from the initiator and 0xFE from the responder, so that all keepalives  *)
(* of one end are the same packet.                                         *)
Packet == [kind : Kind, from : End, key : Keys \cup {NoKey}, msg : Msgs \cup {NoMsg}]

Pkt(kind, from, k, m) == [kind |-> kind, from |-> from, key |-> k, msg |-> m]

LinkRequest == Pkt("LINKREQUEST", "initiator", NoKey, NoMsg)

---------------------------------------------------------------------------
(* Sets of aged packets: a function from the packets to their ages.        *)

Nothing == [q \in {} |-> 0]

Stamp(f, p) == [q \in DOMAIN f \cup {p} |-> IF q = p THEN 0 ELSE f[q]]

Aged(f, limit) == [q \in {r \in DOMAIN f : f[r] + 1 < limit} |-> f[q] + 1]

Older(age, limit) == IF age < limit THEN age + 1 ELSE age

Send(p) == net' = Stamp(net, p)

Emit(e, event) == events' = [events EXCEPT ![e] = Append(@, event)]

---------------------------------------------------------------------------
Init ==
  /\ status = [e \in End |-> "Absent"]
  /\ key = [e \in End |-> NoKey]
  /\ activity = [e \in End |-> 0]
  /\ keepalive = [e \in End |-> 0]
  /\ seen = [e \in End |-> Nothing]
  /\ net = Nothing
  /\ sent = [e \in End |-> {}]
  /\ got = [e \in End |-> <<>>]
  /\ events = [e \in End |-> <<>>]
  /\ asked = FALSE
  /\ restarts = 0
  /\ world \in Worlds

(* The initiator's application opens the link; its id comes from a fresh   *)
(* ephemeral, so this happens once.  The entry is Pending.                 *)
establish_link ==
  /\ status["initiator"] = "Absent" /\ restarts = 0
  /\ status' = [status EXCEPT !["initiator"] = "Pending"]
  /\ activity' = [activity EXCEPT !["initiator"] = 0]
  /\ keepalive' = [keepalive EXCEPT !["initiator"] = 0]
  /\ Send(LinkRequest)
  /\ UNCHANGED <<key, seen, events, history>>

(* An application sends a plaintext: Active links only, and the sender's   *)
(* own activity timer restarts.                                            *)
link_send(e, m) ==
  /\ status[e] = "Active"
  /\ \A f \in End : m \notin sent[f]
  /\ sent' = [sent EXCEPT ![e] = @ \cup {m}]
  /\ activity' = [activity EXCEPT ![e] = 0]
  /\ Send(Pkt("DATA", e, key[e], m))
  /\ UNCHANGED <<status, key, keepalive, seen, got, events, asked, restarts, world>>

(* One more plaintext, which the other end does not get: its packet is     *)
(* lost, or finds no Active link there.  Msgs bounds the plaintexts that   *)
(* are told apart, and these are all the others: an application may go on  *)
(* sending for ever, and all that link_send then leaves behind is the      *)
(* sender's restarted activity timer.                                      *)
link_send_unheard(e) ==
  /\ status[e] = "Active"
  /\ world.prompt => status[Peer(e)] # "Active"
  /\ activity' = [activity EXCEPT ![e] = 0]
  /\ UNCHANGED <<status, key, keepalive, seen, net, events, history>>

(* The driver's CloseLink command: close_link and then tick, which drains  *)
(* the LinkClosed event.  No packet tells the peer.                        *)
close_link(e) ==
  /\ status[e] \in {"Pending", "Active"}
  /\ status' = [status EXCEPT ![e] = "Closed"]
  /\ Emit(e, "LinkClosed")
  /\ asked' = TRUE
  /\ UNCHANGED <<key, timers, seen, net, sent, got, restarts, world>>

(* A peer of another implementation closes and does send a LINKCLOSE.      *)
foreign_teardown(e) ==
  /\ status[e] = "Active"
  /\ status' = [status EXCEPT ![e] = "Closed"]
  /\ Emit(e, "LinkClosed")
  /\ asked' = TRUE
  /\ Send(Pkt("LINKCLOSE", e, key[e], NoMsg))
  /\ UNCHANGED <<key, timers, seen, sent, got, restarts, world>>

(* tick_inner on an Active link that has been silent for too long.         *)
tick_stale(e) ==
  /\ status[e] = "Active"
  /\ activity[e] >= LINK_STALE_SECS
  /\ status' = [status EXCEPT ![e] = "Closed"]
  /\ Emit(e, "LinkClosed")
  /\ UNCHANGED <<key, timers, seen, net, history>>

(* tick_inner on an Active link that is not stale: the initiator sends a   *)
(* keepalive when the last one is old enough.                              *)
tick_keepalive(e) ==
  /\ status[e] = "Active"
  /\ activity[e] < LINK_STALE_SECS
  /\ e = "initiator"
  /\ keepalive[e] >= LINK_KEEPALIVE_SECS
  /\ keepalive' = [keepalive EXCEPT ![e] = 0]
  /\ Send(Pkt("KEEPALIVE", e, NoKey, NoMsg))
  /\ UNCHANGED <<status, key, activity, seen, events, history>>

---------------------------------------------------------------------------
(* Mutant of handle_inbound: the hash is looked up but never recorded.     *)
handle_inbound_unrecorded(e, p) ==
  /\ p \in DOMAIN net
  /\ p.from = Peer(e)
  /\ p \notin DOMAIN seen[e]
  /\ seen' = seen

(* handle_inbound_inner: a packet whose hash is remembered is dropped; any *)
(* other is remembered first and dispatched afterwards.  A copy that finds *)
(* its hash in seen_packets changes nothing and is no step of the model.   *)
handle_inbound(e, p) ==
  /\ p \in DOMAIN net
  /\ p.from = Peer(e)
  /\ p \notin DOMAIN seen[e]
  /\ seen' = [seen EXCEPT ![e] = Stamp(@, p)]

FreshKeys == Keys \ ({key[e] : e \in End} \cup {p.key : p \in DOMAIN net})

(* Mutant of handle_link_request: the registry is not asked whether the    *)
(* link id is known.                                                       *)
handle_link_request_unchecked(e, p) ==
  /\ p.kind = "LINKREQUEST"
  /\ handle_inbound(e, p)
  /\ \E k \in FreshKeys :
       /\ key' = [key EXCEPT ![e] = k]
       /\ Send(Pkt("LRPROOF", e, k, NoMsg))
  /\ status' = [status EXCEPT ![e] = "Active"]
  /\ activity' = [activity EXCEPT ![e] = 0]
  /\ keepalive' = [keepalive EXCEPT ![e] = 0]
  /\ Emit(e, "LinkEstablished")
  /\ UNCHANGED history

(* The responder: an unknown link id makes an Active entry at once, with a *)
(* key from a fresh ephemeral; a known one, whatever its status, is left.  *)
handle_link_request(e, p) ==
  /\ p.kind = "LINKREQUEST"
  /\ handle_inbound(e, p)
  /\ \/ /\ status[e] = "Absent"
        /\ \E k \in FreshKeys :
             /\ key' = [key EXCEPT ![e] = k]
             /\ Send(Pkt("LRPROOF", e, k, NoMsg))
        /\ status' = [status EXCEPT ![e] = "Active"]
        /\ activity' = [activity EXCEPT ![e] = 0]
        /\ keepalive' = [keepalive EXCEPT ![e] = 0]
        /\ Emit(e, "LinkEstablished")
        /\ UNCHANGED history
     \/ /\ status[e] # "Absent"
        /\ UNCHANGED <<status, key, timers, net, events, history>>

(* Mutant of handle_link_proof: any entry takes the proof.                 *)
handle_link_proof_any_status(e, p) ==
  /\ p.kind = "LRPROOF"
  /\ handle_inbound(e, p)
  /\ status[e] # "Absent"
  /\ status' = [status EXCEPT ![e] = "Active"]
  /\ key' = [key EXCEPT ![e] = p.key]
  /\ activity' = [activity EXCEPT ![e] = 0]
  /\ Send(Pkt("LRRTT", e, p.key, NoMsg))
  /\ Emit(e, "LinkEstablished")
  /\ UNCHANGED <<keepalive, history>>

(* Mutant of handle_link_proof: Active before the key is derived.          *)
handle_link_proof_no_key(e, p) ==
  /\ p.kind = "LRPROOF"
  /\ handle_inbound(e, p)
  /\ status[e] = "Pending"
  /\ status' = [status EXCEPT ![e] = "Active"]
  /\ activity' = [activity EXCEPT ![e] = 0]
  /\ Emit(e, "LinkEstablished")
  /\ UNCHANGED <<key, keepalive, net, history>>

(* The initiator: only a Pending entry takes the proof.  last_keepalive is *)
(* not touched; an LRRTT packet is sent back.                              *)
handle_link_proof(e, p) ==
  /\ p.kind = "LRPROOF"
  /\ handle_inbound(e, p)
  /\ \/ /\ status[e] = "Pending"
        /\ status' = [status EXCEPT ![e] = "Active"]
        /\ key' = [key EXCEPT ![e] = p.key]
        /\ activity' = [activity EXCEPT ![e] = 0]
        /\ Send(Pkt("LRRTT", e, p.key, NoMsg))
        /\ Emit(e, "LinkEstablished")
        /\ UNCHANGED <<keepalive, history>>
     \/ /\ status[e] # "Pending"
        /\ UNCHANGED <<status, key, timers, net, events, history>>

(* The contexts of a packet that opened under the link key.                *)
handle_context(e, p) ==
  \/ /\ p.kind = "LRRTT"
     /\ UNCHANGED <<status, got, events, asked>>
  \/ /\ p.kind = "DATA"
     /\ Emit(e, p.msg)
     /\ got' = [got EXCEPT ![e] = Append(@, p.msg)]
     /\ UNCHANGED <<status, asked>>
  \/ /\ p.kind = "LINKCLOSE"
     /\ status' = [status EXCEPT ![e] = "Closed"]
     /\ Emit(e, "LinkClosed")
     /\ asked' = TRUE
     /\ UNCHANGED got

(* Mutant of Hears: a keepalive is answered whatever the status.           *)
HearsAnyStatus(e, p) == status[e] = "Active" \/ p.kind = "KEEPALIVE"

(* handle_link_data does nothing unless the link is Active.                *)
Hears(e, p) == status[e] = "Active"

(* Mutant of Refresh: a keepalive does not count as activity.              *)
RefreshSealed(e, p) ==
  IF p.kind = "KEEPALIVE" THEN activity ELSE [activity EXCEPT ![e] = 0]

(* What has arrived and belongs to the link counts as activity.            *)
Refresh(e, p) == [activity EXCEPT ![e] = 0]

(* Link data: a keepalive is answered and counts as activity without being *)
(* opened; anything else must open under the link key, or an Error event   *)
(* is all that happens.                                                    *)
handle_link_data(e, p) ==
  /\ p.kind \in {"KEEPALIVE", "LRRTT", "DATA", "LINKCLOSE"}
  /\ handle_inbound(e, p)
  /\ UNCHANGED <<key, keepalive, sent, restarts, world>>
  /\ \/ /\ ~Hears(e, p)
        /\ UNCHANGED <<status, activity, net, got, events, asked>>
     \/ /\ Hears(e, p)
        /\ p.kind = "KEEPALIVE"
        /\ activity' = Refresh(e, p)
        /\ net' = IF p.from = "initiator"
                  THEN Stamp(net, Pkt("KEEPALIVE", e, NoKey, NoMsg)) ELSE net
        /\ UNCHANGED <<status, got, events, asked>>
     \/ /\ Hears(e, p)
        /\ p.kind # "KEEPALIVE"
        /\ p.key = key[e]
        /\ activity' = Refresh(e, p)
        /\ handle_context(e, p)
        /\ UNCHANGED net
     \/ /\ Hears(e, p)
        /\ p.kind # "KEEPALIVE"
        /\ p.key # key[e]
        /\ Emit(e, "Error")
        /\ UNCHANGED <<status, activity, net, got, asked>>

---------------------------------------------------------------------------
(* The environment.                                                        *)

TickDue(e) ==
  /\ status[e] = "Active"
  /\ \/ activity[e] >= LINK_STALE_SECS
     \/ e = "initiator" /\ keepalive[e] >= LINK_KEEPALIVE_SECS

(* Time passes.  In a prompt world it waits for every packet under way to  *)
(* arrive and for every timer that is due; otherwise a packet that is not  *)
(* delivered while it is young enough is lost.  Expired hashes leave       *)
(* seen_packets: maybe_prune drops them before any packet of the new       *)
(* second is looked up.                                                    *)
Elapse ==
  /\ world.prompt => /\ \A p \in DOMAIN net : p \in DOMAIN seen[Peer(p.from)]
                     /\ \A e \in End : ~TickDue(e)
  /\ activity' = [e \in End |-> IF status[e] = "Active"
                                THEN Older(activity[e], LINK_STALE_SECS) ELSE activity[e]]
  /\ keepalive' = [e \in End |-> IF status[e] \in {"Pending", "Active"}
                                 THEN Older(keepalive[e], LINK_KEEPALIVE_SECS) ELSE keepalive[e]]
  /\ seen' = [e \in End |-> Aged(seen[e], PACKET_HASH_TTL_SECS)]
  /\ net' = Aged(net, world.lifetime + 1)
  /\ UNCHANGED <<status, key, events, history>>

(* The process of one end restarts.  Nothing of a link is on disk.         *)
Restart(e) ==
  /\ restarts < world.restarts
  /\ status[e] # "Absent"
  /\ restarts' = restarts + 1
  /\ status' = [status EXCEPT ![e] = "Absent"]
  /\ key' = [key EXCEPT ![e] = NoKey]
  /\ activity' = [activity EXCEPT ![e] = 0]
  /\ keepalive' = [keepalive EXCEPT ![e] = 0]
  /\ seen' = [seen EXCEPT ![e] = Nothing]
  /\ events' = [events EXCEPT ![e] = <<>>]
  /\ UNCHANGED <<net, sent, got, asked, world>>

Receive(e, p) ==
  \/ handle_link_request(e, p)
  \/ handle_link_proof(e, p)
  \/ handle_link_data(e, p)

Tick(e) == tick_stale(e) \/ tick_keepalive(e)

Next ==
  \/ establish_link
  \/ \E e \in End, m \in Msgs : link_send(e, m)
  \/ \E e \in End : link_send_unheard(e)
  \/ \E e \in End : close_link(e)
  \/ \E e \in End : foreign_teardown(e)
  \/ \E e \in End : Tick(e)
  \/ \E e \in End : \E p \in DOMAIN net : Receive(e, p)
  \/ Elapse
  \/ \E e \in End : Restart(e)

Spec == Init /\ [][Next]_vars

(* The clock advances, the driver's one-second interval keeps firing, and  *)
(* in a prompt world what is under way arrives.                            *)
Fairness ==
  /\ WF_vars(Elapse)
  /\ \A e \in End : WF_vars(Tick(e))
  /\ WF_vars(world.prompt /\ \E e \in End : \E p \in DOMAIN net : Receive(e, p))

FairSpec == Spec /\ Fairness

---------------------------------------------------------------------------
(* Properties.                                                             *)

AgedPackets(f, limit) ==
  /\ f = [p \in DOMAIN f |-> f[p]]
  /\ DOMAIN f \subseteq Packet
  /\ \A p \in DOMAIN f : f[p] \in 0 .. (limit - 1)

EventName == Msgs \cup {"LinkEstablished", "LinkClosed", "Error"}

(* Type correctness; and a link is Active only with a derived key, as      *)
(* link_send and handle_link_data expect of a LinkEntry.                   *)
TypeOK ==
  /\ status \in [End -> Status]
  /\ key \in [End -> Keys \cup {NoKey}]
  /\ activity \in [End -> 0 .. LINK_STALE_SECS]
  /\ keepalive \in [End -> 0 .. LINK_KEEPALIVE_SECS]
  /\ seen = [e \in End |-> seen[e]]
  /\ \A e \in End : AgedPackets(seen[e], PACKET_HASH_TTL_SECS)
  /\ AgedPackets(net, world.lifetime + 1)
  /\ sent \in [End -> SUBSET Msgs]
  /\ got \in [End -> Seq(Msgs)]
  /\ events \in [End -> Seq(EventName)]
  /\ asked \in BOOLEAN
  /\ world \in Worlds
  /\ restarts \in 0 .. world.restarts
  /\ \A e \in End : status[e] = "Active" => key[e] \in Keys

(* Key agreement: while no process has restarted, an initiator that took a *)
(* proof (handle_link_proof) holds the very key its responder holds, and   *)
(* the responder got there first: no duplicated, delayed or reordered      *)
(* LINKREQUEST or LRPROOF leaves the two ends with different keys.         *)
KeyAgreement ==
  (restarts = 0 /\ key["initiator"] # NoKey) => key["responder"] = key["initiator"]

WellFormed(s) ==
  \A i \in 1 .. Len(s) :
    /\ s[i] = "LinkEstablished" => i = 1
    /\ s[i] = "LinkClosed" => i = Len(s)
    /\ s[i] \in Msgs => s[1] = "LinkEstablished"
    /\ s[i] = "Error" => restarts > 0

(* What the application sees of a link (Event::LinkEstablished, LinkData,  *)
(* LinkClosed): established at most once and before any data, closed at    *)
(* most once and nothing after it, and no packet of the peer that fails to *)
(* open, whatever late copies of handshake packets arrive.                 *)
EventProtocol == \A e \in End : WellFormed(events[e])

S == INSTANCE Session WITH
       Links <- {"link"}, Payloads <- Msgs,
       phase <- [l \in {"link"} |-> status],
       crashed <- IF restarts > 0 THEN {"link"} ELSE {},
       sent <- [l \in {"link"} |-> sent],
       got <- [l \in {"link"} |-> got],
       exact <- world.lifetime < PACKET_HASH_TTL_SECS

(* A link implements a session: the responder is Active first; a closed or *)
(* lost end never comes back by a late packet (a crashed responder may be  *)
(* asked again); a plaintext is delivered only if the peer sent it on this *)
(* link, and at most once, across restarts too, as long as no copy of a    *)
(* packet outlives the 60-second memory of seen_packets.                   *)
ImplementsSession == S!SessionSpec

(* Keepalives do their work: when nothing is lost and no node falls        *)
(* behind, the stale timer of tick_inner never closes a link that nobody   *)
(* asked to close.  It needs the dedup window to be over before the next   *)
(* keepalive, which is the same packet again.                              *)
NoSpuriousStale == (world.prompt /\ ~asked /\ restarts = 0) => \A e \in End : status[e] # "Closed"

Sends(e) == (\E m \in Msgs : link_send(e, m)) \/ link_send_unheard(e)

(* An end that is alone notices it, once its application stops sending:    *)
(* when only one end is Active (the peer closed, restarted, or never got   *)
(* the proof), that end closes or the other one becomes Active.  While it  *)
(* sends it does not: link_send restarts the sender's own activity timer,  *)
(* and no answer is asked of the peer.                                     *)
HalfOpenEnds ==
  \A e \in End :
    <>[][~Sends(e)]_vars =>
      ((status[e] = "Active" /\ status[Peer(e)] # "Active")
        ~> (status[e] # "Active" \/ status[Peer(e)] = "Active"))
===========================================================================
