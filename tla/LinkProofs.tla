---------------------------- MODULE LinkProofs ----------------------------
(***************************************************************************)
(* Theorems about module Link, for every choice of its constants: type     *)
(* correctness, key agreement and the event protocol, from one inductive   *)
(* invariant; on top of it that keepalives keep a link open, and that a    *)
(* link implements a session.                                              *)
(***************************************************************************)
EXTENDS Link, TLAPS

Sealed == {"LRRTT", "DATA", "LINKCLOSE"}

(* Who sends what: requests come from the initiator, proofs from the       *)
(* responder and with a key, and data carries a plaintext.                 *)
PacketsOK ==
  \A p \in DOMAIN net :
    /\ p.kind = "LINKREQUEST" => p.from = "initiator"
    /\ p.kind = "LRPROOF" => p.from = "responder" /\ p.key \in Keys
    /\ p.kind = "DATA" => p.msg \in Msgs

(* An entry that is not yet Active has no key.                             *)
KeylessUntilActive ==
  \A e \in End : status[e] \in {"Absent", "Pending"} => key[e] = NoKey

(* Until a process restarts there is one key: the responder's.  A proof    *)
(* under way leads to it and whatever is sealed is sealed with it.         *)
OneKey ==
  restarts = 0 =>
    /\ KeyAgreement
    /\ \A p \in DOMAIN net :
         /\ p.kind = "LRPROOF" => p.key = key["responder"]
         /\ p.kind \in Sealed => p.key = key[p.from] /\ p.key \in Keys

(* What the application has seen fits the status of the entry.             *)
EventsFitAt(e) ==
  /\ status[e] \in {"Absent", "Pending"} => events[e] = <<>>
  /\ status[e] = "Active" =>
       /\ Len(events[e]) > 0
       /\ events[e][1] = "LinkEstablished"
       /\ \A i \in 1 .. Len(events[e]) : events[e][i] # "LinkClosed"

EventsFit == \A e \in End : EventsFitAt(e)

IInv == TypeOK /\ PacketsOK /\ KeylessUntilActive /\ OneKey /\ EventsFit /\ EventProtocol

---------------------------------------------------------------------------
(* Lemmas about the operators of Link.                                     *)

(* What is known of the world.                                             *)
LEMMA WorldFact ==
  ASSUME world \in Worlds
  PROVE  world.lifetime + 1 \in Nat \ {0} /\ world.restarts \in Nat
<1>1. world \in [prompt : BOOLEAN, lifetime : Nat, restarts : Nat]
  BY LinkAssumption
<1> QED
  BY <1>1

(* Peer maps each end to the other.                                        *)
LEMMA PeerFact ==
  /\ Peer("initiator") = "responder" /\ Peer("responder") = "initiator"
  /\ \A e \in End : Peer(e) \in End /\ Peer(Peer(e)) = e
BY DEF Peer, End

(* Pkt builds packets, with the fields it is given.                        *)
LEMMA PktFact ==
  ASSUME NEW kind \in Kind, NEW e \in End, NEW k \in Keys \cup {NoKey}, NEW m \in Msgs \cup {NoMsg}
  PROVE  /\ Pkt(kind, e, k, m) \in Packet
         /\ Pkt(kind, e, k, m).kind = kind /\ Pkt(kind, e, k, m).from = e
         /\ Pkt(kind, e, k, m).key = k /\ Pkt(kind, e, k, m).msg = m
BY DEF Pkt, Packet

(* Remembering or sending a packet adds that packet, with age 0.           *)
LEMMA StampFact ==
  ASSUME NEW f, NEW limit \in Nat \ {0}, AgedPackets(f, limit), NEW p \in Packet
  PROVE  /\ AgedPackets(Stamp(f, p), limit)
         /\ DOMAIN Stamp(f, p) = DOMAIN f \cup {p}
BY DEF Stamp, AgedPackets

(* Time only takes packets away.                                           *)
LEMMA AgedFact ==
  ASSUME NEW f, NEW limit \in Nat \ {0}, AgedPackets(f, limit)
  PROVE  /\ AgedPackets(Aged(f, limit), limit)
         /\ DOMAIN Aged(f, limit) \subseteq DOMAIN f
BY DEF Aged, AgedPackets

(* The empty memory of a node that has just started.                       *)
LEMMA NothingFact ==
  ASSUME NEW limit \in Nat \ {0}
  PROVE  AgedPackets(Nothing, limit) /\ DOMAIN Nothing = {}
BY DEF Nothing, AgedPackets

(* An age that stops at its limit stays within it.                         *)
LEMMA OlderFact ==
  ASSUME NEW limit \in Nat, NEW age \in 0 .. limit
  PROVE  Older(age, limit) \in 0 .. limit
BY DEF Older

---------------------------------------------------------------------------
(* The type invariant.                                                     *)

(* A handled packet is a packet, comes from the peer, and is remembered.   *)
LEMMA InboundFact ==
  ASSUME TypeOK, NEW e \in End, NEW p, handle_inbound(e, p)
  PROVE  /\ p \in DOMAIN net /\ p \in Packet /\ p.from = Peer(e)
         /\ seen' = [x \in End |-> seen'[x]]
         /\ \A x \in End : AgedPackets(seen'[x], PACKET_HASH_TTL_SECS)
<1>1. p \in DOMAIN net /\ p \in Packet /\ p.from = Peer(e)
  BY DEF handle_inbound, TypeOK, AgedPackets
<1>2. seen' = [x \in End |-> IF x = e THEN Stamp(seen[x], p) ELSE seen[x]]
  BY DEF handle_inbound, TypeOK
<1>3. AgedPackets(Stamp(seen[e], p), PACKET_HASH_TTL_SECS)
  BY <1>1, StampFact, LinkAssumption DEF TypeOK
<1> QED
  BY <1>1, <1>2, <1>3 DEF TypeOK

(* Sending a packet keeps the medium well typed.                           *)
LEMMA SendFact ==
  ASSUME TypeOK, NEW p \in Packet, net' = Stamp(net, p)
  PROVE  AgedPackets(net', world.lifetime + 1) /\ DOMAIN net' = DOMAIN net \cup {p}
<1>1. world.lifetime + 1 \in Nat \ {0}
  BY WorldFact DEF TypeOK
<1> QED
  BY <1>1, StampFact DEF TypeOK

(* Emitting an event keeps the histories well typed and appends to one.    *)
LEMMA EmitFact ==
  ASSUME TypeOK, NEW e \in End, NEW v \in EventName, Emit(e, v)
  PROVE  /\ events' \in [End -> Seq(EventName)]
         /\ events'[e] = Append(events[e], v)
         /\ \A x \in End : x # e => events'[x] = events[x]
BY DEF Emit, TypeOK

(* Init establishes the type invariant.                                    *)
LEMMA TypeInit == Init => TypeOK
<1> SUFFICES ASSUME Init PROVE TypeOK
  OBVIOUS
<1>1. world.lifetime + 1 \in Nat \ {0}
  BY WorldFact DEF Init
<1>2. AgedPackets(net, world.lifetime + 1)
  BY <1>1, NothingFact DEF Init
<1>3. \A e \in End : AgedPackets(seen[e], PACKET_HASH_TTL_SECS)
  BY NothingFact, LinkAssumption DEF Init
<1>4. /\ 0 \in 0 .. LINK_STALE_SECS /\ 0 \in 0 .. LINK_KEEPALIVE_SECS
      /\ 0 \in 0 .. world.restarts
  BY LinkAssumption, WorldFact DEF Init
<1>5. events \in [End -> Seq(EventName)] /\ got \in [End -> Seq(Msgs)]
  BY DEF Init
<1> QED
  BY <1>2, <1>3, <1>4, <1>5 DEF Init, TypeOK, Status

(* Every step keeps the type invariant; an LRPROOF must carry a key for    *)
(* the initiator to become Active with one.                                *)
LEMMA TypeStep == TypeOK /\ PacketsOK /\ [Next]_vars => TypeOK'
<1> SUFFICES ASSUME TypeOK, PacketsOK, [Next]_vars PROVE TypeOK'
  OBVIOUS
<1> USE LinkAssumption
<1> DEFINE Rest == /\ seen' = [e \in End |-> seen'[e]]
                   /\ \A e \in End : AgedPackets(seen'[e], PACKET_HASH_TTL_SECS)
           Medium == AgedPackets(net', world.lifetime + 1)
<1>same. (seen' = seen => Rest) /\ (net' = net => Medium)
  BY DEF TypeOK
<1> HIDE DEF Rest, Medium
<1>ends. "initiator" \in End /\ "responder" \in End
  BY DEF End
<1>kinds. {"LINKREQUEST", "LRPROOF", "LRRTT", "DATA", "KEEPALIVE", "LINKCLOSE"} \subseteq Kind
  BY DEF Kind
<1>names. Msgs \cup {"LinkEstablished", "LinkClosed", "Error"} \subseteq EventName
  BY DEF EventName
<1>zero. 0 \in 0 .. LINK_STALE_SECS /\ 0 \in 0 .. LINK_KEEPALIVE_SECS
  OBVIOUS
<1>1. CASE establish_link
  <2>1. Medium
    BY <1>1, <1>ends, <1>kinds, PktFact, SendFact DEF establish_link, Send, LinkRequest, Medium
  <2>2. /\ status' \in [End -> Status] /\ activity' \in [End -> 0 .. LINK_STALE_SECS]
        /\ keepalive' \in [End -> 0 .. LINK_KEEPALIVE_SECS]
    BY <1>1, <1>zero DEF establish_link, TypeOK, Status
  <2> QED
    BY <1>1, <2>1, <2>2, <1>same DEF establish_link, TypeOK, Rest, Medium, history
<1>2. ASSUME NEW e \in End, NEW m \in Msgs, link_send(e, m) PROVE TypeOK'
  <2>1. Medium
    <3>1. key[e] \in Keys \cup {NoKey}
      BY DEF TypeOK
    <3>2. Pkt("DATA", e, key[e], m) \in Packet
      BY <1>kinds, <3>1, PktFact
    <3> QED
      BY <1>2, <3>2, SendFact DEF link_send, Send, Medium
  <2>2. sent' \in [End -> SUBSET Msgs] /\ activity' \in [End -> 0 .. LINK_STALE_SECS]
    BY <1>2, <1>zero DEF link_send, TypeOK
  <2> QED
    BY <1>2, <2>1, <2>2, <1>same DEF link_send, TypeOK, Rest, Medium
<1>13. ASSUME NEW e \in End, link_send_unheard(e) PROVE TypeOK'
  <2>1. activity' \in [End -> 0 .. LINK_STALE_SECS]
    BY <1>13, <1>zero DEF link_send_unheard, TypeOK
  <2> QED
    BY <1>13, <2>1, <1>same DEF link_send_unheard, TypeOK, Rest, Medium, history
<1>3. ASSUME NEW e \in End, close_link(e) PROVE TypeOK'
  <2>1. events' \in [End -> Seq(EventName)]
    BY <1>3, <1>names, EmitFact DEF close_link
  <2> QED
    BY <1>3, <2>1, <1>same DEF close_link, TypeOK, Rest, Medium, timers, Status
<1>4. ASSUME NEW e \in End, foreign_teardown(e) PROVE TypeOK'
  <2>1. events' \in [End -> Seq(EventName)]
    BY <1>4, <1>names, EmitFact DEF foreign_teardown
  <2>2. Medium
    BY <1>4, <1>kinds, PktFact, SendFact DEF foreign_teardown, Send, TypeOK, Medium
  <2> QED
    BY <1>4, <2>1, <2>2, <1>same DEF foreign_teardown, TypeOK, Rest, Medium, timers, Status
<1>5. ASSUME NEW e \in End, tick_stale(e) PROVE TypeOK'
  <2>1. events' \in [End -> Seq(EventName)]
    BY <1>5, <1>names, EmitFact DEF tick_stale
  <2> QED
    BY <1>5, <2>1, <1>same DEF tick_stale, TypeOK, Rest, Medium, timers, history, Status
<1>6. ASSUME NEW e \in End, tick_keepalive(e) PROVE TypeOK'
  <2>1. Medium
    BY <1>6, <1>kinds, PktFact, SendFact DEF tick_keepalive, Send, Medium
  <2> QED
    BY <1>6, <2>1, <1>same DEF tick_keepalive, TypeOK, Rest, Medium, history
<1>7. ASSUME NEW e \in End, NEW p \in DOMAIN net, handle_link_request(e, p) PROVE TypeOK'
  <2>0. Rest
    BY <1>7, InboundFact DEF handle_link_request, Rest
  <2>1. CASE status[e] # "Absent"
    BY <1>7, <2>0, <2>1, <1>same DEF handle_link_request, TypeOK, Rest, Medium, timers, history
  <2>2. CASE status[e] = "Absent"
    <3> PICK k \in FreshKeys : key' = [key EXCEPT ![e] = k] /\ Send(Pkt("LRPROOF", e, k, NoMsg))
      BY <1>7, <2>2 DEF handle_link_request
    <3>1. k \in Keys
      BY DEF FreshKeys
    <3>2. Medium
      BY <3>1, <1>kinds, PktFact, SendFact DEF Send, Medium
    <3>3. events' \in [End -> Seq(EventName)]
      BY <1>7, <2>2, <1>names, EmitFact DEF handle_link_request
    <3>4. /\ status' = [status EXCEPT ![e] = "Active"]
          /\ activity' = [activity EXCEPT ![e] = 0]
          /\ keepalive' = [keepalive EXCEPT ![e] = 0]
          /\ UNCHANGED <<sent, got, asked, restarts, world>>
      BY <1>7, <2>2 DEF handle_link_request, history
    <3>5. activity' \in [End -> 0 .. LINK_STALE_SECS] /\ keepalive' \in [End -> 0 .. LINK_KEEPALIVE_SECS]
      BY <3>4, <1>zero DEF TypeOK
    <3>6. status' \in [End -> Status] /\ key' \in [End -> Keys \cup {NoKey}]
      BY <3>1, <3>4 DEF TypeOK, Status
    <3>7. \A x \in End : status'[x] = "Active" => key'[x] \in Keys
      BY <3>1, <3>4 DEF TypeOK
    <3> QED
      BY <2>0, <3>2, <3>3, <3>4, <3>5, <3>6, <3>7 DEF TypeOK, Rest, Medium
  <2> QED
    BY <2>1, <2>2
<1>8. ASSUME NEW e \in End, NEW p \in DOMAIN net, handle_link_proof(e, p) PROVE TypeOK'
  <2>0. Rest /\ p \in Packet
    BY <1>8, InboundFact DEF handle_link_proof, Rest
  <2>1. CASE status[e] # "Pending"
    BY <1>8, <2>0, <2>1, <1>same DEF handle_link_proof, TypeOK, Rest, Medium, timers, history
  <2>2. CASE status[e] = "Pending"
    <3>1. p.key \in Keys
      BY <1>8 DEF handle_link_proof, PacketsOK
    <3>p. Pkt("LRRTT", e, p.key, NoMsg) \in Packet
      BY <3>1, <1>kinds, PktFact
    <3>2. Medium
      BY <1>8, <2>2, <3>p, SendFact DEF handle_link_proof, Send, Medium
    <3>3. events' \in [End -> Seq(EventName)]
      BY <1>8, <2>2, <1>names, EmitFact DEF handle_link_proof
    <3>4. /\ status' = [status EXCEPT ![e] = "Active"]
          /\ key' = [key EXCEPT ![e] = p.key]
          /\ activity' = [activity EXCEPT ![e] = 0]
          /\ UNCHANGED <<keepalive, sent, got, asked, restarts, world>>
      BY <1>8, <2>2 DEF handle_link_proof, history
    <3>5. activity' \in [End -> 0 .. LINK_STALE_SECS]
      BY <3>4, <1>zero DEF TypeOK
    <3>6. status' \in [End -> Status] /\ key' \in [End -> Keys \cup {NoKey}]
      BY <3>1, <3>4 DEF TypeOK, Status
    <3>7. \A x \in End : status'[x] = "Active" => key'[x] \in Keys
      BY <3>1, <3>4 DEF TypeOK
    <3> QED
      BY <2>0, <3>2, <3>3, <3>4, <3>5, <3>6, <3>7 DEF TypeOK, Rest, Medium
  <2> QED
    BY <2>1, <2>2
<1>9. ASSUME NEW e \in End, NEW p \in DOMAIN net, handle_link_data(e, p) PROVE TypeOK'
  <2>0. Rest /\ p \in Packet
    BY <1>9, InboundFact DEF handle_link_data, Hears, Refresh, Rest
  <2>1. Medium
    <3>1. CASE net' = net
      BY <3>1, <1>same
    <3>2. CASE net' = Stamp(net, Pkt("KEEPALIVE", e, NoKey, NoMsg))
      BY <3>2, <1>kinds, PktFact, SendFact DEF Medium
    <3> QED
      BY <1>9, <3>1, <3>2 DEF handle_link_data, Hears, Refresh
  <2>2. events' \in [End -> Seq(EventName)]
    <3>1. CASE events' = events
      BY <3>1 DEF TypeOK
    <3>2. CASE p.kind = "DATA" /\ Emit(e, p.msg)
      BY <3>2, <1>names, EmitFact DEF PacketsOK
    <3>3. CASE Emit(e, "LinkClosed") \/ Emit(e, "Error")
      BY <3>3, <1>names, EmitFact
    <3> QED
      BY <1>9, <3>1, <3>2, <3>3 DEF handle_link_data, Hears, Refresh, handle_context
  <2>3. \/ status' = status
        \/ status' = [status EXCEPT ![e] = "Closed"]
    BY <1>9 DEF handle_link_data, Hears, Refresh, handle_context
  <2>4. asked' \in BOOLEAN
    BY <1>9 DEF handle_link_data, Hears, Refresh, handle_context, TypeOK
  <2>5. activity' = activity \/ activity' = [activity EXCEPT ![e] = 0]
    BY <1>9 DEF handle_link_data, Hears, Refresh
  <2>6. got' = got \/ (p.kind = "DATA" /\ got' = [got EXCEPT ![e] = Append(@, p.msg)])
    BY <1>9 DEF handle_link_data, Hears, Refresh, handle_context
  <2>7. got' \in [End -> Seq(Msgs)]
    <3>1. p.kind = "DATA" => p.msg \in Msgs
      BY DEF PacketsOK
    <3>2. got \in [End -> Seq(Msgs)]
      BY DEF TypeOK
    <3>3. p.msg \in Msgs => Append(got[e], p.msg) \in Seq(Msgs)
      BY <3>2
    <3> QED
      BY <2>6, <3>1, <3>2, <3>3
  <2>8. UNCHANGED <<key, keepalive, sent, restarts, world>>
    BY <1>9 DEF handle_link_data, Hears, Refresh
  <2>9. /\ status' \in [End -> Status] /\ activity' \in [End -> 0 .. LINK_STALE_SECS]
        /\ \A x \in End : status'[x] = "Active" => key'[x] \in Keys
    <3>1. status \in [End -> Status] /\ activity \in [End -> 0 .. LINK_STALE_SECS]
      BY DEF TypeOK
    <3>2. \A x \in End : status[x] = "Active" => key[x] \in Keys
      BY DEF TypeOK
    <3>3. status' \in [End -> Status] /\ \A x \in End : status'[x] = "Active" => status[x] = "Active"
      BY <2>3, <3>1 DEF Status
    <3>4. activity' \in [End -> 0 .. LINK_STALE_SECS]
      BY <2>5, <3>1, <1>zero
    <3> QED
      BY <2>8, <3>2, <3>3, <3>4
  <2> QED
    BY <2>0, <2>1, <2>2, <2>4, <2>7, <2>8, <2>9 DEF TypeOK, Rest, Medium
<1>10. CASE Elapse
  <2>1. Rest
    BY <1>10, AgedFact DEF Elapse, TypeOK, Rest
  <2>2. Medium
    <3>1. world.lifetime + 1 \in Nat \ {0}
      BY WorldFact DEF TypeOK
    <3> QED
      BY <1>10, <3>1, AgedFact DEF Elapse, TypeOK, Medium
  <2>3. activity' \in [End -> 0 .. LINK_STALE_SECS]
    BY <1>10, OlderFact DEF Elapse, TypeOK
  <2>4. keepalive' \in [End -> 0 .. LINK_KEEPALIVE_SECS]
    BY <1>10, OlderFact DEF Elapse, TypeOK
  <2> QED
    BY <1>10, <2>1, <2>2, <2>3, <2>4 DEF Elapse, TypeOK, Rest, Medium, history
<1>11. ASSUME NEW e \in End, Restart(e) PROVE TypeOK'
  <2>1. Rest
    BY <1>11, NothingFact DEF Restart, TypeOK, Rest
  <2>2. /\ status' \in [End -> Status] /\ key' \in [End -> Keys \cup {NoKey}]
        /\ activity' \in [End -> 0 .. LINK_STALE_SECS] /\ keepalive' \in [End -> 0 .. LINK_KEEPALIVE_SECS]
    BY <1>11, <1>zero DEF Restart, TypeOK, Status
  <2>3. events' \in [End -> Seq(EventName)]
    BY <1>11 DEF Restart, TypeOK
  <2>4. restarts' \in 0 .. world.restarts
    <3>1. world.restarts \in Nat /\ restarts \in 0 .. world.restarts
      BY WorldFact DEF TypeOK
    <3> QED
      BY <1>11, <3>1 DEF Restart
  <2> QED
    BY <1>11, <2>1, <2>2, <2>3, <2>4, <1>same DEF Restart, TypeOK, Rest, Medium
<1>12. CASE UNCHANGED vars
  BY <1>12, <1>same DEF vars, TypeOK, Rest, Medium
<1> QED
  BY <1>1, <1>2, <1>3, <1>4, <1>5, <1>6, <1>7, <1>8, <1>9, <1>10, <1>11, <1>12, <1>13
     DEF Next, Tick, Receive

---------------------------------------------------------------------------
(* Keys and packets.                                                       *)

(* What a step may add to the medium.                                      *)
NewPacket(p) ==
  \/ p.kind = "LINKREQUEST" /\ p.from = "initiator"
  \/ p.kind = "LRPROOF" /\ p.from = "responder" /\ p.key \in Keys /\ p.key = key'["responder"]
  \/ /\ p.kind \in Sealed /\ p.from \in End /\ p.key \in Keys /\ p.key = key'[p.from]
     /\ p.kind = "DATA" => p.msg \in Msgs
  \/ p.kind = "KEEPALIVE"

(* Every step of the system sends only such packets.                       *)
LEMMA NetStep ==
  ASSUME TypeOK, PacketsOK, [Next]_vars, NEW q \in DOMAIN net', q \notin DOMAIN net
  PROVE  NewPacket(q)
<1> USE LinkAssumption
<1>ends. "initiator" \in End /\ "responder" \in End
  BY DEF End
<1>kinds. {"LINKREQUEST", "LRPROOF", "LRRTT", "DATA", "KEEPALIVE", "LINKCLOSE"} \subseteq Kind
  BY DEF Kind
<1>alive. ASSUME NEW e \in End, status[e] = "Active" PROVE key[e] \in Keys
  BY <1>alive DEF TypeOK
<1>1. CASE establish_link
  <2>1. LinkRequest \in Packet /\ LinkRequest.kind = "LINKREQUEST" /\ LinkRequest.from = "initiator"
    BY <1>ends, <1>kinds, PktFact DEF LinkRequest
  <2>2. q = LinkRequest
    BY <1>1, <2>1, SendFact DEF establish_link, Send
  <2> QED
    BY <2>1, <2>2 DEF NewPacket
<1>2. ASSUME NEW e \in End, NEW m \in Msgs, link_send(e, m) PROVE NewPacket(q)
  <2> DEFINE p == Pkt("DATA", e, key[e], m)
  <2>1. key[e] \in Keys /\ key' = key /\ net' = Stamp(net, p)
    BY <1>2, <1>alive DEF link_send, Send
  <2>2. p \in Packet /\ p.kind = "DATA" /\ p.from = e /\ p.key = key[e] /\ p.msg = m
    BY <2>1, <1>kinds, PktFact
  <2>3. q = p
    BY <2>1, <2>2, SendFact
  <2> QED
    BY <2>1, <2>2, <2>3 DEF NewPacket, Sealed
<1>13. ASSUME NEW e \in End, link_send_unheard(e) PROVE NewPacket(q)
  BY <1>13 DEF link_send_unheard
<1>3. ASSUME NEW e \in End, close_link(e) PROVE NewPacket(q)
  BY <1>3 DEF close_link
<1>4. ASSUME NEW e \in End, foreign_teardown(e) PROVE NewPacket(q)
  <2> DEFINE p == Pkt("LINKCLOSE", e, key[e], NoMsg)
  <2>1. key[e] \in Keys /\ key' = key /\ net' = Stamp(net, p)
    BY <1>4, <1>alive DEF foreign_teardown, Send
  <2>2. p \in Packet /\ p.kind = "LINKCLOSE" /\ p.from = e /\ p.key = key[e]
    BY <2>1, <1>kinds, PktFact
  <2>3. q = p
    BY <2>1, <2>2, SendFact
  <2> QED
    BY <2>1, <2>2, <2>3 DEF NewPacket, Sealed
<1>5. ASSUME NEW e \in End, tick_stale(e) PROVE NewPacket(q)
  BY <1>5 DEF tick_stale
<1>k. ASSUME NEW e \in End, net' = Stamp(net, Pkt("KEEPALIVE", e, NoKey, NoMsg)) PROVE NewPacket(q)
  <2>1. Pkt("KEEPALIVE", e, NoKey, NoMsg) \in Packet /\ Pkt("KEEPALIVE", e, NoKey, NoMsg).kind = "KEEPALIVE"
    BY <1>kinds, PktFact
  <2> QED
    BY <1>k, <2>1, SendFact DEF NewPacket
<1>6. ASSUME NEW e \in End, tick_keepalive(e) PROVE NewPacket(q)
  BY <1>6, <1>k DEF tick_keepalive, Send
<1>7. ASSUME NEW e \in End, NEW r \in DOMAIN net, handle_link_request(e, r) PROVE NewPacket(q)
  <2>1. status[e] = "Absent"
    BY <1>7 DEF handle_link_request
  <2> PICK k \in FreshKeys : key' = [key EXCEPT ![e] = k] /\ Send(Pkt("LRPROOF", e, k, NoMsg))
    BY <1>7, <2>1 DEF handle_link_request
  <2> DEFINE p == Pkt("LRPROOF", e, k, NoMsg)
  <2>2. k \in Keys /\ net' = Stamp(net, p) /\ key'[e] = k
    BY DEF FreshKeys, Send, TypeOK
  <2>3. p \in Packet /\ p.kind = "LRPROOF" /\ p.from = e /\ p.key = k
    BY <2>2, <1>kinds, PktFact
  <2>4. q = p
    BY <2>2, <2>3, SendFact
  <2>5. r.from = "initiator" /\ r.from = Peer(e)
    BY <1>7 DEF handle_link_request, handle_inbound, PacketsOK
  <2>6. e = "responder"
    BY <2>5 DEF Peer, End
  <2> QED
    BY <2>2, <2>3, <2>4, <2>6 DEF NewPacket
<1>8. ASSUME NEW e \in End, NEW r \in DOMAIN net, handle_link_proof(e, r) PROVE NewPacket(q)
  <2> DEFINE p == Pkt("LRRTT", e, r.key, NoMsg)
  <2>1. r.key \in Keys
    BY <1>8 DEF handle_link_proof, PacketsOK
  <2>2. net' = Stamp(net, p) /\ key' = [key EXCEPT ![e] = r.key]
    BY <1>8 DEF handle_link_proof, Send
  <2>3. p \in Packet /\ p.kind = "LRRTT" /\ p.from = e /\ p.key = r.key
    BY <2>1, <1>kinds, PktFact
  <2>4. q = p /\ key'[e] = r.key
    BY <2>2, <2>3, SendFact DEF TypeOK
  <2> QED
    BY <2>1, <2>3, <2>4 DEF NewPacket, Sealed
<1>9. ASSUME NEW e \in End, NEW r \in DOMAIN net, handle_link_data(e, r) PROVE NewPacket(q)
  <2>1. net' = Stamp(net, Pkt("KEEPALIVE", e, NoKey, NoMsg))
    BY <1>9 DEF handle_link_data, Hears, Refresh
  <2> QED
    BY <2>1, <1>k
<1>10. CASE Elapse
  <2>1. world.lifetime + 1 \in Nat \ {0}
    BY WorldFact DEF TypeOK
  <2> QED
    BY <1>10, <2>1, AgedFact DEF Elapse, TypeOK
<1>11. ASSUME NEW e \in End, Restart(e) PROVE NewPacket(q)
  BY <1>11 DEF Restart
<1>12. CASE UNCHANGED vars
  BY <1>12 DEF vars
<1> QED
  BY <1>1, <1>2, <1>3, <1>4, <1>5, <1>6, <1>7, <1>8, <1>9, <1>10, <1>11, <1>12, <1>13
     DEF Next, Tick, Receive

(* So the packets under way stay in order.                                 *)
LEMMA PacketsStep == TypeOK /\ PacketsOK /\ [Next]_vars => PacketsOK'
<1> SUFFICES ASSUME TypeOK, PacketsOK, [Next]_vars, NEW q \in DOMAIN net'
             PROVE  /\ q.kind = "LINKREQUEST" => q.from = "initiator"
                    /\ q.kind = "LRPROOF" => q.from = "responder" /\ q.key \in Keys
                    /\ q.kind = "DATA" => q.msg \in Msgs
  BY DEF PacketsOK
<1>1. CASE q \in DOMAIN net
  BY <1>1 DEF PacketsOK
<1>2. CASE q \notin DOMAIN net
  <2>1. NewPacket(q)
    BY <1>2, NetStep
  <2> QED
    BY <2>1 DEF NewPacket, Sealed
<1> QED
  BY <1>1, <1>2

(* How a step may change the two keys and the status that goes with them.  *)
KeyMove ==
  \/ /\ key' = key
     /\ restarts' = restarts
     /\ \A e \in End : status'[e] \in {"Absent", "Pending"} => status[e] \in {"Absent", "Pending"}
  \/ /\ status["responder"] = "Absent" /\ status'["responder"] = "Active"
     /\ status'["initiator"] = status["initiator"]
     /\ key'["initiator"] = key["initiator"]
     /\ restarts' = restarts
  \/ /\ status["initiator"] = "Pending" /\ status'["initiator"] = "Active"
     /\ status'["responder"] = status["responder"]
     /\ key'["responder"] = key["responder"]
     /\ \E p \in DOMAIN net : p.kind = "LRPROOF" /\ key'["initiator"] = p.key
     /\ restarts' = restarts
  \/ /\ restarts' # 0
     /\ \E e \in End : /\ status' = [status EXCEPT ![e] = "Absent"]
                       /\ key' = [key EXCEPT ![e] = NoKey]

(* Every step moves the keys in one of these four ways.                    *)
LEMMA KeyStep == TypeOK /\ PacketsOK /\ [Next]_vars => KeyMove
<1> SUFFICES ASSUME TypeOK, PacketsOK, [Next]_vars PROVE KeyMove
  OBVIOUS
<1> USE DEF TypeOK
<1>1. CASE establish_link
  BY <1>1 DEF establish_link, history, KeyMove, End
<1>2. ASSUME NEW e \in End, NEW m \in Msgs, link_send(e, m) PROVE KeyMove
  BY <1>2 DEF link_send, KeyMove
<1>13. ASSUME NEW e \in End, link_send_unheard(e) PROVE KeyMove
  BY <1>13 DEF link_send_unheard, history, KeyMove
<1>3. ASSUME NEW e \in End, close_link(e) PROVE KeyMove
  BY <1>3 DEF close_link, KeyMove
<1>4. ASSUME NEW e \in End, foreign_teardown(e) PROVE KeyMove
  BY <1>4 DEF foreign_teardown, KeyMove
<1>5. ASSUME NEW e \in End, tick_stale(e) PROVE KeyMove
  BY <1>5 DEF tick_stale, history, KeyMove
<1>6. ASSUME NEW e \in End, tick_keepalive(e) PROVE KeyMove
  BY <1>6 DEF tick_keepalive, history, KeyMove
<1>7. ASSUME NEW e \in End, NEW r \in DOMAIN net, handle_link_request(e, r) PROVE KeyMove
  <2>1. r.from = "initiator" /\ r.from = Peer(e)
    BY <1>7 DEF handle_link_request, handle_inbound, PacketsOK
  <2>2. e = "responder"
    BY <2>1 DEF Peer, End
  <2>3. CASE status[e] = "Absent"
    BY <1>7, <2>2, <2>3 DEF handle_link_request, history, KeyMove, End
  <2>4. CASE status[e] # "Absent"
    BY <1>7, <2>4 DEF handle_link_request, history, KeyMove
  <2> QED
    BY <2>3, <2>4
<1>8. ASSUME NEW e \in End, NEW r \in DOMAIN net, handle_link_proof(e, r) PROVE KeyMove
  <2>1. r.from = "responder" /\ r.from = Peer(e) /\ r.kind = "LRPROOF"
    BY <1>8 DEF handle_link_proof, handle_inbound, PacketsOK
  <2>2. e = "initiator"
    BY <2>1 DEF Peer, End
  <2>3. CASE status[e] = "Pending"
    BY <1>8, <2>1, <2>2, <2>3 DEF handle_link_proof, history, KeyMove, End
  <2>4. CASE status[e] # "Pending"
    BY <1>8, <2>4 DEF handle_link_proof, history, KeyMove
  <2> QED
    BY <2>3, <2>4
<1>9. ASSUME NEW e \in End, NEW r \in DOMAIN net, handle_link_data(e, r) PROVE KeyMove
  <2>1. status' = status \/ status' = [status EXCEPT ![e] = "Closed"]
    BY <1>9 DEF handle_link_data, Hears, Refresh, handle_context
  <2> QED
    BY <1>9, <2>1 DEF handle_link_data, Hears, Refresh, KeyMove
<1>10. CASE Elapse
  BY <1>10 DEF Elapse, history, KeyMove
<1>11. ASSUME NEW e \in End, Restart(e) PROVE KeyMove
  <2>1. restarts' # 0
    BY <1>11, LinkAssumption DEF Restart
  <2> QED
    BY <1>11, <2>1 DEF Restart, KeyMove
<1>12. CASE UNCHANGED vars
  BY <1>12 DEF vars, KeyMove
<1> QED
  BY <1>1, <1>2, <1>3, <1>4, <1>5, <1>6, <1>7, <1>8, <1>9, <1>10, <1>11, <1>12, <1>13
     DEF Next, Tick, Receive

(* How a step may change the status of the ends.                           *)
StatusMove ==
  /\ \A e \in End : status'[e] = "Absent" => status[e] = "Absent" \/ restarts' # 0
  /\ status'["initiator"] = "Pending"
       => status["initiator"] = "Pending" \/ (status["initiator"] = "Absent" /\ restarts = 0)
  /\ status'["responder"] = "Pending" => status["responder"] = "Pending"
  /\ (status["responder"] = "Absent" /\ status'["responder"] # "Absent")
       => \E p \in DOMAIN net : p.from = "initiator"
  /\ restarts' = 0 => restarts = 0
  /\ \A q \in DOMAIN net' \ DOMAIN net : status'[q.from] # "Absent"

(* Every step changes it so; in particular, only an end that has an entry  *)
(* sends anything.                                                         *)
LEMMA StatusStep == TypeOK /\ PacketsOK /\ [Next]_vars => StatusMove
<1> SUFFICES ASSUME TypeOK, PacketsOK, [Next]_vars PROVE StatusMove
  OBVIOUS
<1>ends. "initiator" \in End /\ "responder" \in End /\ "initiator" # "responder"
  BY DEF End
<1>kept. ASSUME NEW e \in End, status' = status \/ (status[e] # "Absent" /\ status' = [status EXCEPT ![e] = "Closed"]),
                restarts' = restarts,
                \A q \in DOMAIN net' \ DOMAIN net : q.from = e /\ status[e] # "Absent"
         PROVE  StatusMove
  BY <1>kept, <1>ends DEF StatusMove, TypeOK
<1>stamp. ASSUME NEW kind, NEW e, NEW k, NEW m, net' = Stamp(net, Pkt(kind, e, k, m))
          PROVE  \A q \in DOMAIN net' \ DOMAIN net : q.from = e
  BY <1>stamp DEF Stamp, Pkt
<1> USE DEF TypeOK
<1>1. CASE establish_link
  <2>1. status' = [status EXCEPT !["initiator"] = "Pending"] /\ restarts' = restarts
        /\ status["initiator"] = "Absent" /\ restarts = 0 /\ net' = Stamp(net, LinkRequest)
    BY <1>1 DEF establish_link, history, Send
  <2>2. \A q \in DOMAIN net' \ DOMAIN net : q.from = "initiator"
    BY <2>1, <1>stamp DEF LinkRequest
  <2> QED
    BY <2>1, <2>2, <1>ends DEF StatusMove
<1>2. ASSUME NEW e \in End, NEW m \in Msgs, link_send(e, m) PROVE StatusMove
  BY <1>2, <1>kept, <1>stamp DEF link_send, Send
<1>13. ASSUME NEW e \in End, link_send_unheard(e) PROVE StatusMove
  BY <1>13, <1>kept DEF link_send_unheard, history
<1>3. ASSUME NEW e \in End, close_link(e) PROVE StatusMove
  BY <1>3, <1>kept DEF close_link
<1>4. ASSUME NEW e \in End, foreign_teardown(e) PROVE StatusMove
  BY <1>4, <1>kept, <1>stamp DEF foreign_teardown, Send
<1>5. ASSUME NEW e \in End, tick_stale(e) PROVE StatusMove
  BY <1>5, <1>kept DEF tick_stale, history
<1>6. ASSUME NEW e \in End, tick_keepalive(e) PROVE StatusMove
  BY <1>6, <1>kept, <1>stamp DEF tick_keepalive, Send, history
<1>7. ASSUME NEW e \in End, NEW r \in DOMAIN net, handle_link_request(e, r) PROVE StatusMove
  <2>1. CASE status[e] # "Absent"
    BY <1>7, <2>1, <1>kept DEF handle_link_request, history
  <2>2. CASE status[e] = "Absent"
    <3>1. r.from = "initiator" /\ r.from = Peer(e)
      BY <1>7 DEF handle_link_request, handle_inbound, PacketsOK
    <3>2. e = "responder"
      BY <3>1 DEF Peer, End
    <3>3. status' = [status EXCEPT !["responder"] = "Active"] /\ restarts' = restarts
      BY <1>7, <2>2, <3>2 DEF handle_link_request, history
    <3>4. \A q \in DOMAIN net' \ DOMAIN net : q.from = "responder"
      <4> PICK k \in FreshKeys : net' = Stamp(net, Pkt("LRPROOF", e, k, NoMsg))
        BY <1>7, <2>2 DEF handle_link_request, Send
      <4> QED
        BY <3>2, <1>stamp
    <3> QED
      BY <3>1, <3>3, <3>4, <1>ends DEF StatusMove
  <2> QED
    BY <2>1, <2>2
<1>8. ASSUME NEW e \in End, NEW r \in DOMAIN net, handle_link_proof(e, r) PROVE StatusMove
  <2>1. CASE status[e] # "Pending"
    BY <1>8, <2>1, <1>kept DEF handle_link_proof, history
  <2>2. CASE status[e] = "Pending"
    <3>1. status' = [status EXCEPT ![e] = "Active"] /\ restarts' = restarts
      BY <1>8, <2>2 DEF handle_link_proof, history
    <3>2. \A q \in DOMAIN net' \ DOMAIN net : q.from = e
      BY <1>8, <2>2, <1>stamp DEF handle_link_proof, Send
    <3> QED
      BY <2>2, <3>1, <3>2, <1>ends DEF StatusMove
  <2> QED
    BY <2>1, <2>2
<1>9. ASSUME NEW e \in End, NEW r \in DOMAIN net, handle_link_data(e, r) PROVE StatusMove
  <2>1. status' = status \/ (status[e] # "Absent" /\ status' = [status EXCEPT ![e] = "Closed"])
    BY <1>9 DEF handle_link_data, Hears, Refresh, handle_context
  <2>2. net' = net \/ (status[e] = "Active" /\ net' = Stamp(net, Pkt("KEEPALIVE", e, NoKey, NoMsg)))
    BY <1>9 DEF handle_link_data, Hears, Refresh
  <2>3. restarts' = restarts
    BY <1>9 DEF handle_link_data, Hears, Refresh
  <2>4. \A q \in DOMAIN net' \ DOMAIN net : q.from = e /\ status[e] # "Absent"
    BY <2>2, <1>stamp
  <2> QED
    BY <2>1, <2>3, <2>4, <1>kept
<1>10. CASE Elapse
  <2>1. status' = status /\ restarts' = restarts /\ DOMAIN net' \subseteq DOMAIN net
    BY <1>10 DEF Elapse, history, Aged
  <2> QED
    BY <2>1, <1>kept, <1>ends
<1>11. ASSUME NEW e \in End, Restart(e) PROVE StatusMove
  <2>1. restarts' # 0
    BY <1>11, LinkAssumption DEF Restart
  <2> QED
    BY <1>11, <2>1, <1>ends DEF Restart, StatusMove
<1>12. CASE UNCHANGED vars
  BY <1>12, <1>kept, <1>ends DEF vars
<1> QED
  BY <1>1, <1>2, <1>3, <1>4, <1>5, <1>6, <1>7, <1>8, <1>9, <1>10, <1>11, <1>12, <1>13
     DEF Next, Tick, Receive

(* An entry gets its key when it becomes Active, not before.               *)
LEMMA KeylessStep == TypeOK /\ PacketsOK /\ KeylessUntilActive /\ [Next]_vars => KeylessUntilActive'
<1> SUFFICES ASSUME TypeOK, PacketsOK, KeylessUntilActive, [Next]_vars PROVE KeylessUntilActive'
  OBVIOUS
<1>1. KeyMove
  BY KeyStep
<1> QED
  BY <1>1 DEF KeyMove, KeylessUntilActive, End, TypeOK

(* Until a restart, keys are never replaced and the two ends agree.        *)
LEMMA OneKeyStep ==
  TypeOK /\ PacketsOK /\ KeylessUntilActive /\ OneKey /\ [Next]_vars => OneKey'
<1> SUFFICES ASSUME TypeOK, PacketsOK, KeylessUntilActive, OneKey, [Next]_vars, restarts' = 0
             PROVE  /\ KeyAgreement'
                    /\ \A q \in DOMAIN net' :
                         /\ q.kind = "LRPROOF" => q.key = key'["responder"]
                         /\ q.kind \in Sealed => q.key = key'[q.from] /\ q.key \in Keys
  BY DEF OneKey
<1>1. KeyMove /\ restarts = 0
  <2>1. KeyMove
    BY KeyStep
  <2> QED
    BY <2>1 DEF KeyMove
<1>2. NoKey \notin Keys
  BY LinkAssumption
<1>3. \A e \in End : key[e] # NoKey => key'[e] = key[e]
  BY <1>1 DEF KeyMove, KeylessUntilActive, End
<1>4. KeyAgreement'
  <2>1. CASE key' = key
    BY <1>1, <2>1 DEF OneKey, KeyAgreement
  <2>2. CASE status["responder"] = "Absent" /\ key'["initiator"] = key["initiator"]
    <3>1. key["responder"] = NoKey
      BY <2>2 DEF KeylessUntilActive, End
    <3>2. key["initiator"] = NoKey
      BY <1>1, <3>1 DEF OneKey, KeyAgreement
    <3> QED
      BY <2>2, <3>2 DEF KeyAgreement
  <2>3. ASSUME key'["responder"] = key["responder"],
               NEW p \in DOMAIN net, p.kind = "LRPROOF", key'["initiator"] = p.key
        PROVE  KeyAgreement'
    BY <1>1, <2>3 DEF OneKey, KeyAgreement
  <2> QED
    BY <1>1, <2>1, <2>2, <2>3 DEF KeyMove
<1>5. ASSUME NEW q \in DOMAIN net'
      PROVE  /\ q.kind = "LRPROOF" => q.key = key'["responder"]
             /\ q.kind \in Sealed => q.key = key'[q.from] /\ q.key \in Keys
  <2>1. CASE q \in DOMAIN net
    <3>1. q \in Packet
      BY <2>1 DEF TypeOK, AgedPackets
    <3>2. q.from \in End
      BY <3>1 DEF Packet
    <3> QED
      BY <1>1, <1>2, <1>3, <2>1, <3>2 DEF OneKey, PacketsOK, End
  <2>2. CASE q \notin DOMAIN net
    <3>1. NewPacket(q)
      BY <2>2, NetStep
    <3> QED
      BY <3>1 DEF NewPacket, Sealed
  <2> QED
    BY <2>1, <2>2
<1> QED
  BY <1>4, <1>5

---------------------------------------------------------------------------
(* Events.                                                                 *)

(* How a step may extend the history of one end, with the status.          *)
EventMove(e) ==
  \/ /\ events'[e] = events[e]
     /\ status'[e] = status[e] \/ (status[e] = "Absent" /\ status'[e] = "Pending")
  \/ /\ status[e] \in {"Absent", "Pending"} /\ status'[e] = "Active"
     /\ events'[e] = Append(events[e], "LinkEstablished")
  \/ /\ status[e] \in {"Pending", "Active"} /\ status'[e] = "Closed"
     /\ events'[e] = Append(events[e], "LinkClosed")
  \/ /\ status[e] = "Active" /\ status'[e] = "Active"
     /\ \E v \in Msgs : events'[e] = Append(events[e], v)
  \/ /\ status[e] = "Active" /\ status'[e] = "Active" /\ restarts # 0
     /\ events'[e] = Append(events[e], "Error")
  \/ status'[e] = "Absent" /\ events'[e] = <<>>

(* Until a restart, an Active end opens whatever its peer has sealed.      *)
LEMMA Opens ==
  ASSUME TypeOK, OneKey, restarts = 0, NEW e \in End, status[e] = "Active",
         NEW p \in DOMAIN net, p.from = Peer(e), p.kind \in Sealed
  PROVE  p.key = key[e]
<1>1. p.key = key[Peer(e)] /\ p.key \in Keys /\ KeyAgreement
  BY DEF OneKey
<1>2. key[e] \in Keys /\ NoKey \notin Keys
  BY LinkAssumption DEF TypeOK
<1> QED
  BY <1>1, <1>2 DEF KeyAgreement, Peer, End

(* Every step extends the history of each end in one of these ways.        *)
LEMMA EventStep ==
  ASSUME TypeOK, PacketsOK, OneKey, [Next]_vars, NEW x \in End
  PROVE  EventMove(x) /\ (restarts' = 0 => restarts = 0)
<1> USE DEF TypeOK
<1>names. {"LinkEstablished", "LinkClosed", "Error"} \cup Msgs \subseteq EventName
  BY DEF EventName
<1>1. CASE establish_link
  BY <1>1 DEF establish_link, history, EventMove, End
<1>2. ASSUME NEW e \in End, NEW m \in Msgs, link_send(e, m) PROVE EventMove(x) /\ restarts' = restarts
  BY <1>2 DEF link_send, EventMove
<1>13. ASSUME NEW e \in End, link_send_unheard(e) PROVE EventMove(x) /\ restarts' = restarts
  BY <1>13 DEF link_send_unheard, history, EventMove
<1>3. ASSUME NEW e \in End, close_link(e) PROVE EventMove(x) /\ restarts' = restarts
  BY <1>3 DEF close_link, EventMove, Emit
<1>4. ASSUME NEW e \in End, foreign_teardown(e) PROVE EventMove(x) /\ restarts' = restarts
  BY <1>4 DEF foreign_teardown, EventMove, Emit
<1>5. ASSUME NEW e \in End, tick_stale(e) PROVE EventMove(x) /\ restarts' = restarts
  BY <1>5 DEF tick_stale, history, EventMove, Emit
<1>6. ASSUME NEW e \in End, tick_keepalive(e) PROVE EventMove(x) /\ restarts' = restarts
  BY <1>6 DEF tick_keepalive, history, EventMove
<1>7. ASSUME NEW e \in End, NEW r \in DOMAIN net, handle_link_request(e, r)
      PROVE  EventMove(x) /\ restarts' = restarts
  <2>1. CASE status[e] = "Absent"
    <3>1. /\ status' = [status EXCEPT ![e] = "Active"] /\ Emit(e, "LinkEstablished") /\ restarts' = restarts
      BY <1>7, <2>1 DEF handle_link_request, history
    <3> QED
      BY <2>1, <3>1 DEF EventMove, Emit
  <2>2. CASE status[e] # "Absent"
    BY <1>7, <2>2 DEF handle_link_request, history, EventMove
  <2> QED
    BY <2>1, <2>2
<1>8. ASSUME NEW e \in End, NEW r \in DOMAIN net, handle_link_proof(e, r)
      PROVE  EventMove(x) /\ restarts' = restarts
  <2>1. CASE status[e] = "Pending"
    <3>1. /\ status' = [status EXCEPT ![e] = "Active"] /\ Emit(e, "LinkEstablished") /\ restarts' = restarts
      BY <1>8, <2>1 DEF handle_link_proof, history
    <3> QED
      BY <2>1, <3>1 DEF EventMove, Emit
  <2>2. CASE status[e] # "Pending"
    BY <1>8, <2>2 DEF handle_link_proof, history, EventMove
  <2> QED
    BY <2>1, <2>2
<1>9. ASSUME NEW e \in End, NEW r \in DOMAIN net, handle_link_data(e, r)
      PROVE  EventMove(x) /\ restarts' = restarts
  <2>0. restarts' = restarts
    BY <1>9 DEF handle_link_data, Hears, Refresh
  <2>1. CASE UNCHANGED <<status, events>>
    BY <2>0, <2>1 DEF EventMove
  <2>2. CASE r.kind = "DATA" /\ status[e] = "Active" /\ status' = status /\ Emit(e, r.msg)
    <3>1. r.msg \in Msgs
      BY <2>2 DEF PacketsOK
    <3>2. events'[e] = Append(events[e], r.msg) /\ (x # e => events'[x] = events[x])
      BY <2>2, <3>1, <1>names, EmitFact
    <3> QED
      BY <2>0, <2>2, <3>1, <3>2 DEF EventMove
  <2>3. CASE /\ status[e] = "Active" /\ status' = [status EXCEPT ![e] = "Closed"]
             /\ Emit(e, "LinkClosed")
    BY <2>0, <2>3 DEF EventMove, Emit
  <2>4. CASE /\ status[e] = "Active" /\ status' = status /\ Emit(e, "Error")
             /\ r.kind \in Sealed /\ r.key # key[e]
    <3>1. r.from = Peer(e)
      BY <1>9 DEF handle_link_data, Hears, Refresh, handle_inbound
    <3>2. restarts # 0
      BY <2>4, <3>1, Opens
    <3> QED
      BY <2>0, <2>4, <3>2 DEF EventMove, Emit
  <2> QED
    BY <1>9, <2>1, <2>2, <2>3, <2>4 DEF handle_link_data, Hears, Refresh, handle_context, Sealed
<1>10. CASE Elapse
  BY <1>10 DEF Elapse, history, EventMove
<1>11. ASSUME NEW e \in End, Restart(e) PROVE EventMove(x) /\ restarts' # 0
  <2>1. restarts' # 0
    BY <1>11, LinkAssumption DEF Restart
  <2> QED
    BY <1>11, <2>1 DEF Restart, EventMove
<1>12. CASE UNCHANGED vars
  BY <1>12 DEF vars, EventMove
<1> QED
  BY <1>1, <1>2, <1>3, <1>4, <1>5, <1>6, <1>7, <1>8, <1>9, <1>10, <1>11, <1>12, <1>13
     DEF Next, Tick, Receive

(* The history of each end keeps fitting its status.                       *)
LEMMA EventsFitStep ==
  TypeOK /\ PacketsOK /\ OneKey /\ EventsFit /\ [Next]_vars => EventsFit'
<1> SUFFICES ASSUME TypeOK, PacketsOK, OneKey, EventsFit, [Next]_vars, NEW x \in End
             PROVE  EventsFitAt(x)'
  BY DEF EventsFit
<1>1. EventMove(x)
  BY EventStep
<1>2. events[x] \in Seq(EventName) /\ "LinkClosed" \notin Msgs
  BY LinkAssumption DEF TypeOK
<1>3. CASE events'[x] = events[x] /\ (status'[x] = status[x] \/ (status[x] = "Absent" /\ status'[x] = "Pending"))
  BY <1>3 DEF EventsFit, EventsFitAt
<1>4. CASE /\ status[x] \in {"Absent", "Pending"} /\ status'[x] = "Active"
           /\ events'[x] = Append(events[x], "LinkEstablished")
  BY <1>2, <1>4 DEF EventsFit, EventsFitAt
<1>5. CASE status'[x] = "Closed"
  BY <1>5 DEF EventsFitAt
<1>6. ASSUME status[x] = "Active", NEW v \in EventName \ {"LinkClosed"},
             events'[x] = Append(events[x], v), status'[x] = "Active"
      PROVE  EventsFitAt(x)'
  BY <1>2, <1>6 DEF EventsFit, EventsFitAt
<1>7. CASE status'[x] = "Absent" /\ events'[x] = <<>>
  BY <1>7 DEF EventsFitAt
<1>8. ASSUME NEW v \in Msgs PROVE v \in EventName \ {"LinkClosed"}
  BY <1>2 DEF EventName
<1>9. "Error" \in EventName \ {"LinkClosed"}
  BY DEF EventName
<1>10. CASE /\ status[x] = "Active" /\ status'[x] = "Active"
            /\ \E v \in Msgs : events'[x] = Append(events[x], v)
  BY <1>6, <1>8, <1>10
<1>11. CASE /\ status[x] = "Active" /\ status'[x] = "Active" /\ events'[x] = Append(events[x], "Error")
  BY <1>6, <1>9, <1>11
<1> QED
  BY <1>1, <1>3, <1>4, <1>5, <1>7, <1>10, <1>11 DEF EventMove

(* A history that fits its status stays well formed.                       *)
LEMMA EventProtocolStep ==
  TypeOK /\ PacketsOK /\ OneKey /\ EventsFit /\ EventProtocol /\ [Next]_vars => EventProtocol'
<1> SUFFICES ASSUME TypeOK, PacketsOK, OneKey, EventsFit, EventProtocol, [Next]_vars, NEW x \in End
             PROVE  WellFormed(events[x])'
  BY DEF EventProtocol
<1>1. EventMove(x) /\ (restarts' = 0 => restarts = 0)
  BY EventStep
<1>2. /\ events[x] \in Seq(EventName) /\ WellFormed(events[x])
      /\ "LinkClosed" \notin Msgs /\ "LinkEstablished" \notin Msgs /\ "Error" \notin Msgs
      /\ restarts \in Nat /\ restarts' \in Nat
  <2>1. TypeOK'
    BY TypeStep
  <2>2. restarts \in Nat /\ events \in [End -> Seq(EventName)]
    BY DEF TypeOK
  <2>3. restarts' \in Nat
    BY <2>1 DEF TypeOK
  <2>4. WellFormed(events[x])
    BY DEF EventProtocol
  <2>5. "LinkClosed" \notin Msgs /\ "LinkEstablished" \notin Msgs /\ "Error" \notin Msgs
    BY LinkAssumption
  <2> QED
    BY <2>2, <2>3, <2>4, <2>5
<1> USE DEF WellFormed
<1>3. CASE events'[x] = events[x]
  BY <1>1, <1>2, <1>3
<1>4. CASE status[x] \in {"Absent", "Pending"} /\ events'[x] = Append(events[x], "LinkEstablished")
  BY <1>1, <1>2, <1>4 DEF EventsFit, EventsFitAt
<1>5. CASE status[x] \in {"Pending", "Active"} /\ events'[x] = Append(events[x], "LinkClosed")
  BY <1>1, <1>2, <1>5 DEF EventsFit, EventsFitAt
<1>6. ASSUME status[x] = "Active", NEW v \in Msgs, events'[x] = Append(events[x], v)
      PROVE  WellFormed(events[x])'
  BY <1>1, <1>2, <1>6 DEF EventsFit, EventsFitAt
<1>7. CASE status[x] = "Active" /\ restarts # 0 /\ events'[x] = Append(events[x], "Error")
  BY <1>1, <1>2, <1>7 DEF EventsFit, EventsFitAt
<1>8. CASE events'[x] = <<>>
  BY <1>8
<1> QED
  BY <1>1, <1>3, <1>4, <1>5, <1>6, <1>7, <1>8 DEF EventMove

---------------------------------------------------------------------------
(* The theorems.                                                           *)

(* The inductive invariant holds of every reachable state.                 *)
THEOREM Invariance == Spec => []IInv
<1>1. Init => IInv
  <2> SUFFICES ASSUME Init PROVE IInv
    OBVIOUS
  <2>1. TypeOK
    BY TypeInit
  <2>2. DOMAIN net = {}
    BY NothingFact, LinkAssumption DEF Init
  <2>3. EventsFit /\ EventProtocol
    BY DEF Init, EventsFit, EventsFitAt, EventProtocol, WellFormed
  <2> QED
    BY <2>1, <2>2, <2>3 DEF Init, IInv, PacketsOK, KeylessUntilActive, OneKey, KeyAgreement, End
<1>2. IInv /\ [Next]_vars => IInv'
  BY TypeStep, PacketsStep, KeylessStep, OneKeyStep, EventsFitStep, EventProtocolStep DEF IInv
<1> QED
  BY <1>1, <1>2, PTL DEF Spec

(* Type correctness of the link registry, the dedup memory and the medium, *)
(* and an Active LinkEntry always has its derived key.                     *)
THEOREM TypeCorrect == Spec => []TypeOK
<1>1. IInv => TypeOK
  BY DEF IInv
<1> QED
  BY <1>1, Invariance, PTL

(* However LINKREQUEST and LRPROOF packets are lost, copied, delayed or    *)
(* reordered, the ends never hold different keys before a restart.         *)
THEOREM KeysAgree == Spec => []KeyAgreement
<1>1. IInv => KeyAgreement
  BY DEF IInv, OneKey, KeyAgreement
<1> QED
  BY <1>1, Invariance, PTL

(* The events of a link come in the order an application relies on, and    *)
(* before a restart no packet of the peer fails to open.                   *)
THEOREM EventsInOrder == Spec => []EventProtocol
<1>1. IInv => EventProtocol
  BY DEF IInv
<1> QED
  BY <1>1, Invariance, PTL

---------------------------------------------------------------------------
(* Timers.  In a prompt world, before anybody closes or restarts.          *)

Calm == world.prompt /\ ~asked /\ restarts = 0

(* The keepalive of end e, always the same packet.                         *)
Alive(e) == Pkt("KEEPALIVE", e, NoKey, NoMsg)

(* A packet under way that its receiver does not remember: time waits.     *)
Due(p) == p \in DOMAIN net /\ p \notin DOMAIN seen[Peer(p.from)]

NoneClosed == \A e \in End : status[e] # "Closed"

(* Nobody has heard of an end that has no entry.                           *)
Unheard ==
  /\ \A e \in End : status[e] = "Absent" =>
       /\ \A p \in DOMAIN net : p.from # e
       /\ DOMAIN seen[Peer(e)] = {}
  /\ status["initiator"] = "Absent" => status["responder"] = "Absent"
  /\ status["responder"] # "Pending"

(* The handshake takes no time: an initiator that waits has something to   *)
(* wait for.                                                               *)
Handshake ==
  status["initiator"] = "Pending" =>
    /\ keepalive["initiator"] = 0
    /\ \/ status["responder"] = "Absent" /\ Due(LinkRequest)
       \/ /\ status["responder"] = "Active" /\ activity["responder"] = 0
          /\ \E p \in DOMAIN net : p.kind = "LRPROOF" /\ p.from = "responder" /\ Due(p)

(* Who remembers a keepalive of the peer has been active since.            *)
Heard(e) == Alive(Peer(e)) \in DOMAIN seen[e] => activity[e] <= seen[e][Alive(Peer(e))]

(* How far the activity of the ends may lag behind: a keepalive that is    *)
(* dropped as a copy of the last one finds a receiver that heard that one  *)
(* less than PACKET_HASH_TTL_SECS ago.                                     *)
InTime ==
  status["initiator"] = "Active" =>
    /\ status["responder"] = "Active"
    /\ \A e \in End : Heard(e)
    /\ Alive("initiator") \in DOMAIN seen["responder"] =>
         \/ Due(Alive("responder"))
         \/ activity["initiator"] < seen["responder"][Alive("initiator")] + PACKET_HASH_TTL_SECS
    /\ \/ Due(Alive("initiator"))
       \/ activity["responder"] < keepalive["initiator"] + PACKET_HASH_TTL_SECS
    /\ \/ Due(Alive("initiator")) \/ Due(Alive("responder"))
       \/ activity["initiator"] < keepalive["initiator"] + 2 * PACKET_HASH_TTL_SECS - 1
    /\ activity["responder"] < LINK_KEEPALIVE_SECS + PACKET_HASH_TTL_SECS
    /\ activity["initiator"] < LINK_KEEPALIVE_SECS + 2 * PACKET_HASH_TTL_SECS - 1

TInv == Calm => NoneClosed /\ Unheard /\ Handshake /\ InTime

(* What closing and restarting leave behind does not go away.              *)
LEMMA CalmBefore == TypeOK /\ PacketsOK /\ [Next]_vars /\ Calm' => Calm
<1> SUFFICES ASSUME TypeOK, PacketsOK, [Next]_vars, Calm' PROVE Calm
  OBVIOUS
<1>1. restarts = 0
  BY StatusStep DEF StatusMove, Calm
<1>2. world' = world
  BY DEF Next, Tick, Receive, establish_link, link_send, link_send_unheard, close_link, foreign_teardown, tick_stale,
         tick_keepalive, handle_link_request, handle_link_proof, handle_link_data, Hears, Refresh, Elapse, Restart,
         history, vars
<1>3. asked => asked'
  <2>1. ASSUME NEW e \in End, NEW p \in DOMAIN net, Receive(e, p) PROVE asked => asked'
    <3>1. CASE handle_link_request(e, p) \/ handle_link_proof(e, p)
      BY <3>1 DEF handle_link_request, handle_link_proof, history
    <3>2. CASE handle_link_data(e, p)
      BY <3>2 DEF handle_link_data, Hears, Refresh, handle_context
    <3> QED
      BY <2>1, <3>1, <3>2 DEF Receive
  <2>2. ASSUME NEW e \in End, Tick(e) PROVE asked => asked'
    BY <2>2 DEF Tick, tick_stale, tick_keepalive, history
  <2>3. ASSUME NEW e \in End, close_link(e) \/ foreign_teardown(e) \/ Restart(e) PROVE asked => asked'
    BY <2>3 DEF close_link, foreign_teardown, Restart
  <2>4. ASSUME NEW e \in End, link_send_unheard(e) \/ \E m \in Msgs : link_send(e, m) PROVE asked => asked'
    BY <2>4 DEF link_send, link_send_unheard, history
  <2>5. CASE establish_link \/ Elapse \/ UNCHANGED vars
    BY <2>5 DEF establish_link, Elapse, history, vars
  <2> QED
    BY <2>1, <2>2, <2>3, <2>4, <2>5 DEF Next
<1> QED
  BY <1>1, <1>2, <1>3 DEF Calm

(* Ages are natural numbers, within their limits.                          *)
LEMMA AgeFact ==
  ASSUME TypeOK
  PROVE  /\ \A e \in End : activity[e] \in Nat /\ keepalive[e] \in Nat /\ keepalive[e] <= LINK_KEEPALIVE_SECS
         /\ \A e \in End : \A q \in DOMAIN seen[e] :
              seen[e][q] \in Nat /\ seen[e][q] < PACKET_HASH_TTL_SECS
<1>1. activity \in [End -> 0 .. LINK_STALE_SECS] /\ keepalive \in [End -> 0 .. LINK_KEEPALIVE_SECS]
  BY DEF TypeOK
<1>2. ASSUME NEW e \in End, NEW q \in DOMAIN seen[e]
      PROVE  seen[e][q] \in Nat /\ seen[e][q] < PACKET_HASH_TTL_SECS
  <2>1. seen[e][q] \in 0 .. (PACKET_HASH_TTL_SECS - 1)
    BY DEF TypeOK, AgedPackets
  <2> QED
    BY <2>1, LinkAssumption
<1> QED
  BY <1>1, <1>2, LinkAssumption

(* Remembering a packet, in terms of the functions it changes.             *)
LEMMA SeenFact ==
  ASSUME TypeOK, NEW e \in End, NEW p, handle_inbound(e, p)
  PROVE  /\ p \in DOMAIN net /\ p.from = Peer(e) /\ p \notin DOMAIN seen[e]
         /\ seen'[Peer(e)] = seen[Peer(e)]
         /\ DOMAIN seen'[e] = DOMAIN seen[e] \cup {p}
         /\ seen'[e][p] = 0
         /\ \A q \in DOMAIN seen[e] : seen'[e][q] = seen[e][q]
<1>1. seen' = [y \in End |-> IF y = e THEN Stamp(seen[y], p) ELSE seen[y]]
  BY DEF handle_inbound, TypeOK
<1>2. Peer(e) \in End /\ Peer(e) # e
  BY DEF Peer, End
<1>3. p \in DOMAIN net /\ p.from = Peer(e) /\ p \notin DOMAIN seen[e]
  BY DEF handle_inbound
<1> QED
  BY <1>1, <1>2, <1>3 DEF Stamp

(* No timer is so late that tick_inner would close the link.               *)
LEMMA NotStale ==
  ASSUME TypeOK, TInv, Calm, NEW e \in End, status[e] = "Active"
  PROVE  activity[e] < LINK_STALE_SECS
<1>1. Unheard /\ Handshake /\ InTime
  BY DEF TInv
<1>2. \A x \in End : activity[x] \in Nat
  BY AgeFact
<1>3. "initiator" \in End /\ "responder" \in End
  BY DEF End
<1>4. CASE status["initiator"] = "Active"
  <2>1. activity["responder"] < LINK_KEEPALIVE_SECS + PACKET_HASH_TTL_SECS
        /\ activity["initiator"] < LINK_KEEPALIVE_SECS + 2 * PACKET_HASH_TTL_SECS - 1
    BY <1>1, <1>4 DEF InTime
  <2>2. activity["responder"] < LINK_STALE_SECS /\ activity["initiator"] < LINK_STALE_SECS
    BY <1>2, <1>3, <2>1, LinkAssumption, TimerAssumption
  <2> QED
    BY <2>2 DEF End
<1>5. CASE status["initiator"] # "Active"
  <2>1. e = "responder"
    BY <1>5 DEF End
  <2>2. status["initiator"] = "Pending"
    <3>1. status["initiator"] # "Closed" /\ status["initiator"] # "Absent"
      BY <1>1, <1>3, <2>1 DEF TInv, NoneClosed, Unheard
    <3> QED
      BY <1>3, <1>5, <3>1 DEF TypeOK, Status
  <2>3. activity[e] = 0
    BY <1>1, <2>1, <2>2 DEF Handshake
  <2> QED
    BY <2>3, LinkAssumption
<1> QED
  BY <1>4, <1>5

(* So nothing closes.                                                      *)
LEMMA ClosedStep ==
  ASSUME TypeOK, TInv, Calm, Calm', [Next]_vars
  PROVE  NoneClosed'
<1>1. NoneClosed /\ asked' # TRUE
  BY DEF TInv, Calm
<1>2. \A e \in End : ~tick_stale(e)
  <2> SUFFICES ASSUME NEW e \in End, tick_stale(e) PROVE FALSE
    OBVIOUS
  <2>1. status[e] = "Active" /\ activity[e] >= LINK_STALE_SECS
    BY DEF tick_stale
  <2>2. activity[e] \in Nat /\ activity[e] < LINK_STALE_SECS
    BY <2>1, NotStale, AgeFact
  <2> QED
    BY <2>1, <2>2, LinkAssumption
<1>3. ASSUME NEW e \in End, NEW p \in DOMAIN net, handle_link_data(e, p) PROVE status' = status
  BY <1>1, <1>3 DEF handle_link_data, Hears, Refresh, handle_context
<1> QED
  BY <1>1, <1>2, <1>3 DEF NoneClosed, Next, Tick, Receive, establish_link, link_send, link_send_unheard, close_link,
         foreign_teardown, tick_keepalive, handle_link_request, handle_link_proof,
         Elapse, Restart, vars, TypeOK

(* What an end remembers came to it over the medium.                       *)
LEMMA SeenStep ==
  ASSUME TypeOK, [Next]_vars, NEW x \in End, NEW q \in DOMAIN seen'[x]
  PROVE  q \in DOMAIN seen[x] \/ (q \in DOMAIN net /\ q.from = Peer(x))
<1>1. ASSUME NEW e \in End, NEW p \in DOMAIN net, handle_inbound(e, p)
      PROVE  q \in DOMAIN seen[x] \/ (q \in DOMAIN net /\ q.from = Peer(x))
  <2>1. e = x \/ Peer(e) = x
    BY DEF Peer, End
  <2> QED
    BY <1>1, <2>1, SeenFact
<1>2. CASE Elapse
  BY <1>2 DEF Elapse, Aged
<1>3. ASSUME NEW e \in End, Restart(e) PROVE q \in DOMAIN seen[x]
  BY <1>3 DEF Restart, Nothing, TypeOK
<1> QED
  BY <1>1, <1>2, <1>3 DEF Next, Tick, Receive, establish_link, link_send, link_send_unheard, close_link, foreign_teardown,
         tick_stale, tick_keepalive, handle_link_request, handle_link_proof, handle_link_data, Hears, Refresh, vars

(* An end without an entry stays unheard of.                               *)
LEMMA UnheardStep ==
  ASSUME TypeOK, PacketsOK, Unheard, Calm', [Next]_vars
  PROVE  Unheard'
<1>1. StatusMove /\ restarts' = 0
  BY StatusStep DEF Calm
<1>2. "initiator" \in End /\ "responder" \in End
  BY DEF End
<1>3. ASSUME NEW e \in End, status'[e] = "Absent"
      PROVE  (\A p \in DOMAIN net' : p.from # e) /\ DOMAIN seen'[Peer(e)] = {}
  <2>1. status[e] = "Absent"
    BY <1>1, <1>3 DEF StatusMove
  <2>2. (\A p \in DOMAIN net : p.from # e) /\ DOMAIN seen[Peer(e)] = {}
    BY <2>1 DEF Unheard
  <2>3. \A p \in DOMAIN net' : p.from # e
    BY <1>1, <1>3, <2>2 DEF StatusMove
  <2>4. DOMAIN seen'[Peer(e)] = {}
    BY <2>2, SeenStep, PeerFact
  <2> QED
    BY <2>3, <2>4
<1>4. status'["initiator"] = "Absent" => status'["responder"] = "Absent"
  BY <1>1, <1>2 DEF StatusMove, Unheard
<1>5. status'["responder"] # "Pending"
  BY <1>1 DEF StatusMove, Unheard
<1> QED
  BY <1>3, <1>4, <1>5 DEF Unheard
(* Sending and receiving other packets leave a packet due.                 *)
LEMMA DueKept ==
  ASSUME TypeOK, NEW p \in DOMAIN net, Due(p), DOMAIN net \subseteq DOMAIN net',
         \/ seen' = seen
         \/ \E e \in End : \E q \in DOMAIN net : q # p /\ handle_inbound(e, q)
  PROVE  Due(p)'
<1>1. p \in Packet /\ p.from \in End
  BY DEF TypeOK, AgedPackets, Packet
<1>2. Peer(p.from) \in End
  BY <1>1, PeerFact
<1>3. ASSUME NEW e \in End, NEW q \in DOMAIN net, q # p, handle_inbound(e, q) PROVE p \notin DOMAIN seen'[Peer(p.from)]
  <2>1. e = Peer(p.from) \/ Peer(e) = Peer(p.from)
    BY <1>1 DEF Peer, End
  <2> QED
    BY <1>3, <2>1, SeenFact DEF Due
<1> QED
  BY <1>3 DEF Due

(* The handshake takes no time.                                            *)
LEMMA HandshakeStep ==
  ASSUME TypeOK, PacketsOK, TInv, Calm, Calm', NoneClosed', [Next]_vars
  PROVE  Handshake'
<1> SUFFICES ASSUME status'["initiator"] = "Pending"
             PROVE  Handshake'
  BY DEF Handshake
<1>i. "initiator" \in End /\ "responder" \in End /\ Peer("initiator") = "responder" /\ Peer("responder") = "initiator"
  BY DEF Peer, End
<1>t. NoneClosed /\ Unheard /\ Handshake /\ asked' # TRUE /\ restarts' = 0
  BY DEF TInv, Calm
<1>r. LinkRequest.kind = "LINKREQUEST" /\ LinkRequest.from = "initiator"
  BY DEF LinkRequest, Pkt
<1>keep. ASSUME status["initiator"] = "Pending", status'["responder"] = status["responder"],
                keepalive'["initiator"] = keepalive["initiator"],
                activity'["responder"] \in {0, activity["responder"]},
                DOMAIN net \subseteq DOMAIN net',
                \/ seen' = seen
                \/ \E e \in End : \E q \in DOMAIN net :
                      /\ handle_inbound(e, q)
                      /\ q.kind # "LRPROOF" /\ (status["responder"] = "Absent" => q.kind # "LINKREQUEST")
         PROVE  Handshake'
  <2>1. CASE status["responder"] = "Absent" /\ Due(LinkRequest)
    <3>1. LinkRequest \in DOMAIN net
      BY <2>1 DEF Due
    <3>2. Due(LinkRequest)'
      BY <1>keep, <1>r, <2>1, <3>1, DueKept
    <3> QED
      BY <1>keep, <1>t, <2>1, <3>2 DEF Handshake
  <2>2. ASSUME status["responder"] = "Active", activity["responder"] = 0,
               NEW p \in DOMAIN net, p.kind = "LRPROOF", p.from = "responder", Due(p)
        PROVE  status'["responder"] = "Active" /\ activity'["responder"] = 0 /\ p \in DOMAIN net' /\ Due(p)'
    <3>1. Due(p)'
      BY <1>keep, <2>2, DueKept
    <3> QED
      BY <1>keep, <2>2, <3>1
  <2> QED
    BY <1>keep, <1>t, <2>1, <2>2 DEF Handshake
<1>up. ASSUME NEW p, net' = Stamp(net, p) PROVE DOMAIN net \subseteq DOMAIN net'
  BY <1>up DEF Stamp
<1> USE DEF TypeOK
<1>1. CASE establish_link
  <2>1. /\ status["initiator"] = "Absent" /\ status' = [status EXCEPT !["initiator"] = "Pending"]
        /\ keepalive' = [keepalive EXCEPT !["initiator"] = 0] /\ net' = Stamp(net, LinkRequest) /\ seen' = seen
    BY <1>1 DEF establish_link, Send
  <2>2. status["responder"] = "Absent" /\ DOMAIN seen["responder"] = {}
    BY <1>t, <1>i, <2>1 DEF Unheard
  <2>3. Due(LinkRequest)'
    BY <1>i, <1>r, <2>1, <2>2 DEF Due, Stamp
  <2> QED
    BY <1>i, <2>1, <2>2, <2>3 DEF Handshake
<1>2. ASSUME NEW e \in End, NEW m \in Msgs, link_send(e, m) PROVE Handshake'
  BY <1>2, <1>keep, <1>up, <1>i DEF link_send, Send, Handshake
<1>13. ASSUME NEW e \in End, link_send_unheard(e) PROVE Handshake'
  BY <1>13, <1>keep, <1>i DEF link_send_unheard, Handshake
<1>3. ASSUME NEW e \in End, close_link(e) \/ foreign_teardown(e) PROVE FALSE
  BY <1>3, <1>t DEF close_link, foreign_teardown
<1>5. ASSUME NEW e \in End, tick_stale(e) PROVE FALSE
  BY <1>5 DEF tick_stale, NoneClosed
<1>6. ASSUME NEW e \in End, tick_keepalive(e) PROVE FALSE
  BY <1>6 DEF tick_keepalive
<1>7. ASSUME NEW e \in End, NEW r \in DOMAIN net, handle_link_request(e, r) PROVE Handshake'
  <2>1. r.from = "initiator" /\ r.from = Peer(e) /\ r.kind = "LINKREQUEST" /\ handle_inbound(e, r)
    BY <1>7 DEF handle_link_request, handle_inbound, PacketsOK
  <2>2. e = "responder"
    BY <2>1 DEF Peer, End
  <2>3. CASE status[e] # "Absent"
    <3>1. UNCHANGED <<status, activity, keepalive, net>>
      BY <1>7, <2>3 DEF handle_link_request, timers
    <3> QED
      BY <2>1, <2>2, <2>3, <3>1, <1>keep DEF Handshake
  <2>4. CASE status[e] = "Absent"
    <3> PICK k \in FreshKeys : net' = Stamp(net, Pkt("LRPROOF", e, k, NoMsg))
      BY <1>7, <2>4 DEF handle_link_request, Send
    <3> DEFINE p == Pkt("LRPROOF", e, k, NoMsg)
    <3>1. p.kind = "LRPROOF" /\ p.from = "responder" /\ p \in DOMAIN net'
      BY <2>2 DEF Pkt, Stamp
    <3> HIDE DEF p
    <3>2. seen'["initiator"] = seen["initiator"] /\ DOMAIN seen["initiator"] = {}
      BY <1>i, <1>t, <2>1, <2>2, <2>4, SeenFact DEF Unheard
    <3>3. Due(p)'
      BY <1>i, <3>1, <3>2 DEF Due
    <3>4. /\ status' = [status EXCEPT ![e] = "Active"] /\ activity' = [activity EXCEPT ![e] = 0]
          /\ keepalive' = [keepalive EXCEPT ![e] = 0]
      BY <1>7, <2>4 DEF handle_link_request
    <3>5. keepalive["initiator"] = 0
      BY <1>i, <1>t, <2>2, <3>4 DEF Handshake
    <3> QED
      BY <1>i, <2>2, <3>1, <3>3, <3>4, <3>5 DEF Handshake
  <2> QED
    BY <2>3, <2>4
<1>8. ASSUME NEW e \in End, NEW r \in DOMAIN net, handle_link_proof(e, r) PROVE FALSE
  <2>1. r.from = "responder" /\ r.from = Peer(e) /\ r.kind = "LRPROOF"
    BY <1>8 DEF handle_link_proof, handle_inbound, PacketsOK
  <2>2. e = "initiator"
    BY <2>1 DEF Peer, End
  <2> QED
    BY <1>8, <1>i, <2>2 DEF handle_link_proof
<1>9. ASSUME NEW e \in End, NEW r \in DOMAIN net, handle_link_data(e, r) PROVE Handshake'
  <2>1. handle_inbound(e, r) /\ keepalive' = keepalive /\ r.kind \notin {"LRPROOF", "LINKREQUEST"}
    BY <1>9 DEF handle_link_data, Hears, Refresh
  <2>2. status' = status
    BY <1>9, <1>t DEF handle_link_data, Hears, Refresh, handle_context
  <2>3. activity' = activity \/ activity' = [activity EXCEPT ![e] = 0]
    BY <1>9 DEF handle_link_data, Hears, Refresh
  <2>4. DOMAIN net \subseteq DOMAIN net'
    BY <1>9, <1>up DEF handle_link_data, Hears, Refresh
  <2>5. activity'["responder"] \in {0, activity["responder"]}
    BY <2>3, <1>i
  <2> QED
    BY <2>1, <2>2, <2>4, <2>5, <1>keep DEF Handshake
<1>10. CASE Elapse
  <2>1. status' = status /\ \A p \in DOMAIN net : p \in DOMAIN seen[Peer(p.from)]
    BY <1>10 DEF Elapse, Calm
  <2> QED
    BY <1>t, <2>1 DEF Handshake, Due
<1>11. ASSUME NEW e \in End, Restart(e) PROVE FALSE
  BY <1>11, <1>t, LinkAssumption DEF Restart
<1>12. CASE UNCHANGED vars
  <2>1. UNCHANGED <<status, activity, keepalive, net, seen>>
    BY <1>12 DEF vars
  <2> QED
    BY <2>1, <1>keep
<1> QED
  BY <1>1, <1>2, <1>3, <1>5, <1>6, <1>7, <1>8, <1>9, <1>10, <1>11, <1>12, <1>13
     DEF Next, Tick, Receive
(* The packets an end sends itself are not among those it remembers of its *)
(* peer: nothing but a keepalive received or aged touches InTime.          *)
LEMMA InTimeKept ==
  ASSUME TypeOK, InTime, status'["initiator"] = status["initiator"],
         status["initiator"] = "Active" => status'["responder"] = "Active",
         \A e \in End : activity'[e] \in {0, activity[e]}, keepalive' = keepalive,
         DOMAIN net \subseteq DOMAIN net',
         \/ seen' = seen
         \/ \E e \in End : \E q \in DOMAIN net : q.kind # "KEEPALIVE" /\ handle_inbound(e, q)
  PROVE  InTime'
<1> SUFFICES ASSUME status["initiator"] = "Active" PROVE InTime'
  BY DEF InTime
<1> USE LinkAssumption
<1>i. "initiator" \in End /\ "responder" \in End /\ Peer("initiator") = "responder" /\ Peer("responder") = "initiator"
  BY DEF Peer, End
<1>a. \A e \in End : Alive(e).kind = "KEEPALIVE"
  BY DEF Alive, Pkt
<1>g. /\ \A e \in End : activity[e] \in Nat /\ keepalive[e] \in Nat
      /\ \A e \in End : \A q \in DOMAIN seen[e] : seen[e][q] \in Nat
  BY AgeFact
<1>1. ASSUME NEW e \in End
      PROVE  /\ Alive(Peer(e)) \in DOMAIN seen'[e] <=> Alive(Peer(e)) \in DOMAIN seen[e]
             /\ Alive(Peer(e)) \in DOMAIN seen[e] => seen'[e][Alive(Peer(e))] = seen[e][Alive(Peer(e))]
  <2>1. ASSUME NEW x \in End, NEW q \in DOMAIN net, q.kind # "KEEPALIVE", handle_inbound(x, q)
        PROVE  /\ Alive(Peer(e)) \in DOMAIN seen'[e] <=> Alive(Peer(e)) \in DOMAIN seen[e]
               /\ Alive(Peer(e)) \in DOMAIN seen[e] => seen'[e][Alive(Peer(e))] = seen[e][Alive(Peer(e))]
    <3>1. e = x \/ e = Peer(x)
      BY DEF Peer, End
    <3>2. Alive(Peer(e)) # q
      BY <1>a, <2>1, PeerFact
    <3> QED
      BY <2>1, <3>1, <3>2, SeenFact
  <2> QED
    BY <2>1
<1>2. \A e \in End : Due(Alive(e)) => Due(Alive(e))'
  <2> SUFFICES ASSUME NEW e \in End, Due(Alive(e)) PROVE Due(Alive(e))'
    OBVIOUS
  <2>1. Alive(e) \in DOMAIN net
    BY DEF Due
  <2> QED
    BY <1>a, <2>1, DueKept
<1>3. \A e \in End : activity'[e] \in Nat /\ activity'[e] <= activity[e]
  BY <1>g
<1>4. \A e \in End : Heard(e)'
  BY <1>1, <1>3, <1>g DEF InTime, Heard
<1>5. Alive("initiator") \in DOMAIN seen'["responder"] =>
         \/ Due(Alive("responder"))'
         \/ activity'["initiator"] < seen'["responder"][Alive("initiator")] + PACKET_HASH_TTL_SECS
  BY <1>i, <1>1, <1>2, <1>3, <1>g DEF InTime
<1>6. \/ Due(Alive("initiator"))'
      \/ activity'["responder"] < keepalive'["initiator"] + PACKET_HASH_TTL_SECS
  BY <1>i, <1>2, <1>3, <1>g DEF InTime
<1>7. \/ Due(Alive("initiator"))' \/ Due(Alive("responder"))'
      \/ activity'["initiator"] < keepalive'["initiator"] + 2 * PACKET_HASH_TTL_SECS - 1
  BY <1>i, <1>2, <1>3, <1>g DEF InTime
<1>8. /\ activity'["responder"] < LINK_KEEPALIVE_SECS + PACKET_HASH_TTL_SECS
      /\ activity'["initiator"] < LINK_KEEPALIVE_SECS + 2 * PACKET_HASH_TTL_SECS - 1
  BY <1>i, <1>3, <1>g DEF InTime
<1> QED
  BY <1>4, <1>5, <1>6, <1>7, <1>8 DEF InTime

(* A keepalive the initiator sends reaches a responder that heard the last *)
(* one long ago, or is a copy of one heard within the dedup window.        *)
LEMMA InTimeSent ==
  ASSUME TypeOK, InTime, tick_keepalive("initiator")
  PROVE  InTime'
<1> USE LinkAssumption
<1>i. "initiator" \in End /\ "responder" \in End /\ Peer("initiator") = "responder" /\ Peer("responder") = "initiator"
  BY DEF Peer, End
<1>s. /\ UNCHANGED <<status, activity, seen>> /\ status["initiator"] = "Active"
      /\ keepalive'["initiator"] = 0 /\ net' = Stamp(net, Alive("initiator"))
  BY <1>i DEF tick_keepalive, Send, Alive, TypeOK
<1>n. DOMAIN net' = DOMAIN net \cup {Alive("initiator")}
  BY <1>s DEF Stamp
<1>f. \A e \in End : Alive(e).from = e
  BY DEF Alive, Pkt
<1>g. /\ \A e \in End : activity[e] \in Nat
      /\ \A e \in End : \A q \in DOMAIN seen[e] : seen[e][q] \in Nat /\ seen[e][q] < PACKET_HASH_TTL_SECS
  BY AgeFact
<1>1. \A e \in End : Due(Alive(e)) => Due(Alive(e))'
  BY <1>s, <1>n DEF Due
<1>2. CASE Alive("initiator") \notin DOMAIN seen["responder"]
  <2>1. Due(Alive("initiator"))'
    BY <1>i, <1>s, <1>n, <1>f, <1>2 DEF Due
  <2> QED
    BY <1>i, <1>s, <1>1, <1>2, <2>1 DEF InTime, Heard
<1>3. CASE Alive("initiator") \in DOMAIN seen["responder"]
  <2>1. activity["responder"] < PACKET_HASH_TTL_SECS
    BY <1>i, <1>s, <1>g, <1>3 DEF InTime, Heard
  <2>2. Due(Alive("responder")) \/ activity["initiator"] < 2 * PACKET_HASH_TTL_SECS - 1
    BY <1>i, <1>s, <1>g, <1>3 DEF InTime
  <2> QED
    BY <1>i, <1>s, <1>1, <1>g, <2>1, <2>2 DEF InTime, Heard
<1> QED
  BY <1>2, <1>3

(* A keepalive received: the responder answers, the initiator is done.     *)
LEMMA InTimeHeard ==
  ASSUME TypeOK, InTime, NEW e \in End, NEW p \in DOMAIN net, p.kind = "KEEPALIVE", status[e] = "Active",
         handle_link_data(e, p)
  PROVE  InTime'
<1> USE LinkAssumption
<1>i. "initiator" \in End /\ "responder" \in End /\ Peer("initiator") = "responder" /\ Peer("responder") = "initiator"
  BY DEF Peer, End
<1>s. /\ UNCHANGED <<status, keepalive>> /\ activity' = [activity EXCEPT ![e] = 0] /\ handle_inbound(e, p)
      /\ net' = IF p.from = "initiator" THEN Stamp(net, Alive(e)) ELSE net
  BY DEF handle_link_data, Hears, Refresh, Alive
<1>a. activity'[e] = 0 /\ activity'[Peer(e)] = activity[Peer(e)]
  BY <1>s DEF TypeOK, Peer, End
<1>n. /\ p \in DOMAIN net /\ p.from = Peer(e) /\ p \notin DOMAIN seen[e]
      /\ seen'[Peer(e)] = seen[Peer(e)]
      /\ DOMAIN seen'[e] = DOMAIN seen[e] \cup {p}
      /\ seen'[e][p] = 0
      /\ \A q \in DOMAIN seen[e] : seen'[e][q] = seen[e][q]
  BY <1>s, SeenFact
<1>f. \A x \in End : Alive(x).from = x
  BY DEF Alive, Pkt
<1>g. /\ \A x \in End : activity[x] \in Nat /\ keepalive[x] \in Nat
      /\ \A x \in End : \A q \in DOMAIN seen[x] : seen[x][q] \in Nat /\ seen[x][q] < PACKET_HASH_TTL_SECS
  BY AgeFact
<1>h. \A q \in DOMAIN seen'[e] : seen'[e][q] \in Nat
  BY <1>n, <1>g
<1> SUFFICES ASSUME status["initiator"] = "Active" PROVE InTime'
  BY <1>s DEF InTime
<1>1. CASE e = "responder"
  <2>1. DOMAIN net' = DOMAIN net \cup {Alive("responder")}
    BY <1>i, <1>s, <1>n, <1>1 DEF Stamp
  <2>2. Due(Alive("responder"))' \/ activity["initiator"] < PACKET_HASH_TTL_SECS
    <3>1. CASE Alive("responder") \in DOMAIN seen["initiator"]
      BY <1>i, <1>g, <3>1 DEF InTime, Heard
    <3>2. CASE Alive("responder") \notin DOMAIN seen["initiator"]
      BY <1>i, <1>f, <1>n, <1>1, <2>1, <3>2 DEF Due
    <3> QED
      BY <3>1, <3>2
  <2>3. Heard("responder")' /\ Heard("initiator")'
    BY <1>i, <1>1, <1>a, <1>n, <1>h DEF InTime, Heard
  <2>4. /\ (Alive("initiator") \in DOMAIN seen'["responder"] /\ activity["initiator"] < PACKET_HASH_TTL_SECS)
                => activity["initiator"] < seen'["responder"][Alive("initiator")] + PACKET_HASH_TTL_SECS
        /\ activity["initiator"] < PACKET_HASH_TTL_SECS
              => activity["initiator"] < keepalive["initiator"] + 2 * PACKET_HASH_TTL_SECS - 1
    BY <1>i, <1>1, <1>g, <1>h
  <2>5. /\ 0 < keepalive["initiator"] + PACKET_HASH_TTL_SECS
        /\ 0 < LINK_KEEPALIVE_SECS + PACKET_HASH_TTL_SECS
    BY <1>i, <1>g
  <2> QED
    BY <1>i, <1>1, <1>s, <1>a, <2>2, <2>3, <2>4, <2>5 DEF InTime, End
<1>2. CASE e = "initiator"
  <2>1. net' = net
    BY <1>i, <1>s, <1>n, <1>2
  <2>2. Due(Alive("initiator")) => Due(Alive("initiator"))'
    BY <1>i, <1>f, <1>n, <1>2, <2>1 DEF Due
  <2>3. Heard("responder")' /\ Heard("initiator")'
    BY <1>i, <1>2, <1>a, <1>n, <1>h DEF InTime, Heard
  <2>4. /\ 0 < keepalive["initiator"] + 2 * PACKET_HASH_TTL_SECS - 1
        /\ 0 < LINK_KEEPALIVE_SECS + 2 * PACKET_HASH_TTL_SECS - 1
        /\ \A q \in DOMAIN seen["responder"] : 0 < seen["responder"][q] + PACKET_HASH_TTL_SECS
    BY <1>i, <1>g
  <2> QED
    BY <1>i, <1>2, <1>s, <1>a, <1>n, <2>2, <2>3, <2>4 DEF InTime, End
<1> QED
  BY <1>1, <1>2 DEF End

(* Time passes only when nothing is due, so every bound has room.          *)
LEMMA InTimeElapse ==
  ASSUME TypeOK, InTime, Calm, Elapse
  PROVE  InTime'
<1> USE LinkAssumption
<1> SUFFICES ASSUME status["initiator"] = "Active" PROVE InTime'
  BY DEF InTime, Elapse
<1>i. "initiator" \in End /\ "responder" \in End /\ Peer("initiator") = "responder" /\ Peer("responder") = "initiator"
  BY DEF Peer, End
<1>1. /\ status' = status
      /\ \A p \in DOMAIN net : p \in DOMAIN seen[Peer(p.from)]
      /\ keepalive["initiator"] < LINK_KEEPALIVE_SECS
  <2>1. ~TickDue("initiator")
    BY <1>i DEF Elapse, Calm
  <2> QED
    BY <1>i, <2>1, AgeFact DEF Elapse, Calm, TickDue
<1>2. \A e \in End : ~Due(Alive(e))
  BY <1>1 DEF Due
<1>g. /\ \A x \in End : activity[x] \in Nat /\ keepalive[x] \in Nat
      /\ \A x \in End : \A q \in DOMAIN seen[x] : seen[x][q] \in Nat
  BY AgeFact
<1>3. \A e \in End : activity'[e] \in {activity[e], activity[e] + 1}
  BY DEF Elapse, Older
<1>4. keepalive'["initiator"] = keepalive["initiator"] + 1
  BY <1>i, <1>1 DEF Elapse, Older
<1>5. \A e \in End : \A q \in DOMAIN seen'[e] : q \in DOMAIN seen[e] /\ seen'[e][q] = seen[e][q] + 1
  BY DEF Elapse, Aged
<1>6. \A e \in End : Heard(e)'
  BY <1>3, <1>5, <1>g DEF InTime, Heard
<1>7. Alive("initiator") \in DOMAIN seen'["responder"] =>
         activity'["initiator"] < seen'["responder"][Alive("initiator")] + PACKET_HASH_TTL_SECS
  BY <1>i, <1>2, <1>3, <1>5, <1>g DEF InTime
<1>8. /\ activity'["responder"] < keepalive'["initiator"] + PACKET_HASH_TTL_SECS
      /\ activity'["initiator"] < keepalive'["initiator"] + 2 * PACKET_HASH_TTL_SECS - 1
  BY <1>i, <1>2, <1>3, <1>4, <1>g DEF InTime
<1>9. /\ activity'["responder"] < LINK_KEEPALIVE_SECS + PACKET_HASH_TTL_SECS
      /\ activity'["initiator"] < LINK_KEEPALIVE_SECS + 2 * PACKET_HASH_TTL_SECS - 1
  BY <1>i, <1>1, <1>2, <1>3, <1>4, <1>8, <1>g
<1> QED
  BY <1>1, <1>6, <1>7, <1>8, <1>9 DEF InTime
(* The initiator takes the proof: all timers are at zero.                  *)
LEMMA InTimeConfirmed ==
  ASSUME TypeOK, PacketsOK, Unheard, NoneClosed, Handshake,
         NEW e \in End, NEW p \in DOMAIN net, handle_link_proof(e, p), status[e] = "Pending"
  PROVE  InTime'
<1> USE LinkAssumption
<1>i. "initiator" \in End /\ "responder" \in End /\ Peer("initiator") = "responder" /\ Peer("responder") = "initiator"
  BY DEF Peer, End
<1>1. p.from = "responder" /\ p.from = Peer(e)
  BY DEF handle_link_proof, handle_inbound, PacketsOK
<1>2. e = "initiator"
  BY <1>1 DEF Peer, End
<1>3. status["responder"] # "Absent"
  BY <1>i, <1>1 DEF Unheard
<1>4. status["responder"] = "Active" /\ activity["responder"] = 0 /\ keepalive["initiator"] = 0
  BY <1>2, <1>3 DEF Handshake
<1>5. /\ status' = [status EXCEPT ![e] = "Active"] /\ activity' = [activity EXCEPT ![e] = 0]
      /\ keepalive' = keepalive /\ handle_inbound(e, p)
  BY DEF handle_link_proof
<1>6. /\ status'["responder"] = "Active" /\ activity'["responder"] = 0
      /\ activity'["initiator"] = 0 /\ keepalive'["initiator"] = 0
  BY <1>i, <1>2, <1>4, <1>5 DEF TypeOK
<1>7. \A x \in End : \A q \in DOMAIN seen'[x] : seen'[x][q] \in Nat
  <2>1. \A x \in End : AgedPackets(seen'[x], PACKET_HASH_TTL_SECS)
    BY <1>5, InboundFact
  <2>2. \A x \in End : \A q \in DOMAIN seen'[x] : seen'[x][q] \in 0 .. (PACKET_HASH_TTL_SECS - 1)
    BY <2>1 DEF AgedPackets
  <2> QED
    BY <2>2
<1>8. \A x \in End : activity'[x] = 0
  BY <1>6 DEF End
<1>9. \A x \in End : Heard(x)'
  BY <1>7, <1>8 DEF Heard
<1>10. /\ 0 < PACKET_HASH_TTL_SECS /\ 0 < LINK_KEEPALIVE_SECS + PACKET_HASH_TTL_SECS
       /\ 0 < 2 * PACKET_HASH_TTL_SECS - 1 /\ 0 < LINK_KEEPALIVE_SECS + 2 * PACKET_HASH_TTL_SECS - 1
       /\ 0 < 0 + PACKET_HASH_TTL_SECS /\ 0 < 0 + 2 * PACKET_HASH_TTL_SECS - 1
       /\ \A q \in DOMAIN seen'["responder"] : 0 < seen'["responder"][q] + PACKET_HASH_TTL_SECS
  BY <1>i, <1>7
<1> QED
  BY <1>6, <1>9, <1>10 DEF InTime

(* The bounds on the timers are kept by every step.                        *)
LEMMA InTimeStep ==
  ASSUME TypeOK, PacketsOK, TInv, Calm, Calm', NoneClosed', [Next]_vars
  PROVE  InTime'
<1>i. "initiator" \in End /\ "responder" \in End /\ "initiator" # "responder"
  BY DEF End
<1>t. NoneClosed /\ Unheard /\ Handshake /\ InTime /\ asked' # TRUE /\ restarts' = 0
  BY DEF TInv, Calm
<1>up. ASSUME NEW p, net' = Stamp(net, p) PROVE DOMAIN net \subseteq DOMAIN net'
  BY <1>up DEF Stamp
<1>r. status["initiator"] = "Active" => status["responder"] = "Active"
  BY <1>t DEF InTime
<1> USE DEF TypeOK
<1>1. CASE establish_link
  <2>1. status'["initiator"] = "Pending"
    BY <1>1, <1>i DEF establish_link
  <2> QED
    BY <2>1 DEF InTime
<1>2. ASSUME NEW e \in End, NEW m \in Msgs, link_send(e, m) PROVE InTime'
  <2>1. UNCHANGED <<status, keepalive, seen>> /\ activity' = [activity EXCEPT ![e] = 0] /\ DOMAIN net \subseteq DOMAIN net'
    BY <1>2, <1>up DEF link_send, Send
  <2>2. \A x \in End : activity'[x] \in {0, activity[x]}
    BY <2>1
  <2> QED
    BY <1>r, <1>t, <2>1, <2>2, InTimeKept
<1>13. ASSUME NEW e \in End, link_send_unheard(e) PROVE InTime'
  <2>1. UNCHANGED <<status, keepalive, seen, net>> /\ activity' = [activity EXCEPT ![e] = 0]
    BY <1>13 DEF link_send_unheard
  <2>2. \A x \in End : activity'[x] \in {0, activity[x]}
    BY <2>1
  <2> QED
    BY <1>r, <1>t, <2>1, <2>2, InTimeKept
<1>3. ASSUME NEW e \in End, close_link(e) \/ foreign_teardown(e) PROVE FALSE
  BY <1>3, <1>t DEF close_link, foreign_teardown
<1>5. ASSUME NEW e \in End, tick_stale(e) PROVE FALSE
  BY <1>5 DEF tick_stale, NoneClosed
<1>6. ASSUME NEW e \in End, tick_keepalive(e) PROVE InTime'
  <2>1. e = "initiator"
    BY <1>6 DEF tick_keepalive
  <2> QED
    BY <1>6, <1>t, <2>1, InTimeSent
<1>7. ASSUME NEW e \in End, NEW p \in DOMAIN net, handle_link_request(e, p) PROVE InTime'
  <2>1. p.from = "initiator" /\ p.from = Peer(e) /\ p.kind = "LINKREQUEST" /\ handle_inbound(e, p)
    BY <1>7 DEF handle_link_request, handle_inbound, PacketsOK
  <2>2. e = "responder"
    BY <2>1 DEF Peer, End
  <2>3. CASE status[e] # "Absent"
    <3>1. UNCHANGED <<status, activity, keepalive, net>>
      BY <1>7, <2>3 DEF handle_link_request, timers
    <3> QED
      BY <1>r, <1>t, <2>1, <3>1, InTimeKept
  <2>4. CASE status[e] = "Absent"
    <3>1. status'["initiator"] = status["initiator"] /\ status["initiator"] # "Active"
      BY <1>7, <1>i, <1>r, <2>2, <2>4 DEF handle_link_request
    <3> QED
      BY <3>1 DEF InTime
  <2> QED
    BY <2>3, <2>4
<1>8. ASSUME NEW e \in End, NEW p \in DOMAIN net, handle_link_proof(e, p) PROVE InTime'
  <2>1. CASE status[e] = "Pending"
    BY <1>8, <1>t, <2>1, InTimeConfirmed
  <2>2. CASE status[e] # "Pending"
    <3>1. UNCHANGED <<status, activity, keepalive, net>> /\ handle_inbound(e, p) /\ p.kind = "LRPROOF"
      BY <1>8, <2>2 DEF handle_link_proof, timers
    <3> QED
      BY <1>r, <1>t, <3>1, InTimeKept
  <2> QED
    BY <2>1, <2>2
<1>9. ASSUME NEW e \in End, NEW p \in DOMAIN net, handle_link_data(e, p) PROVE InTime'
  <2>0. handle_inbound(e, p) /\ keepalive' = keepalive
    BY <1>9 DEF handle_link_data, Hears, Refresh
  <2>1. status' = status
    BY <1>9, <1>t DEF handle_link_data, Hears, Refresh, handle_context
  <2>2. CASE p.kind = "KEEPALIVE" /\ status[e] = "Active"
    BY <1>9, <1>t, <2>2, InTimeHeard
  <2>3. CASE p.kind # "KEEPALIVE"
    <3>1. activity' = activity \/ activity' = [activity EXCEPT ![e] = 0]
      BY <1>9 DEF handle_link_data, Hears, Refresh
    <3>2. net' = net
      BY <1>9, <2>3 DEF handle_link_data, Hears, Refresh
    <3>3. \A x \in End : activity'[x] \in {0, activity[x]}
      BY <3>1
    <3> QED
      BY <1>r, <1>t, <2>0, <2>1, <2>3, <3>2, <3>3, InTimeKept
  <2>4. CASE status[e] # "Active"
    <3>1. status["initiator"] # "Active"
      <4>1. CASE e = "responder"
        BY <1>r, <2>4, <4>1
      <4> QED
        BY <2>4, <4>1 DEF End
    <3> QED
      BY <2>1, <3>1 DEF InTime
  <2> QED
    BY <2>2, <2>3, <2>4
<1>10. CASE Elapse
  BY <1>10, <1>t, InTimeElapse
<1>11. ASSUME NEW e \in End, Restart(e) PROVE FALSE
  BY <1>11, <1>t, LinkAssumption DEF Restart
<1>12. CASE UNCHANGED vars
  <2>1. UNCHANGED <<status, activity, keepalive, net, seen>>
    BY <1>12 DEF vars
  <2> QED
    BY <1>r, <1>t, <2>1, InTimeKept
<1> QED
  BY <1>1, <1>2, <1>3, <1>5, <1>6, <1>7, <1>8, <1>9, <1>10, <1>11, <1>12, <1>13
     DEF Next, Tick, Receive

(* Keepalives do their work: in a world where nothing is late, tick_inner  *)
(* never closes a link for silence.  The argument bounds how far the       *)
(* activity of each end lags behind the initiator's keepalive timer, with  *)
(* keepalives that are dropped as copies of the last one included.         *)
THEOREM StaysOpen == Spec => []NoSpuriousStale
<1>1. Init => TInv
  <2> SUFFICES ASSUME Init PROVE TInv
    OBVIOUS
  <2>1. DOMAIN net = {} /\ \A e \in End : status[e] = "Absent" /\ DOMAIN seen[e] = {}
    BY NothingFact, LinkAssumption DEF Init
  <2> QED
    BY <2>1, PeerFact DEF TInv, NoneClosed, Unheard, Handshake, InTime, End
<1>2. IInv /\ TInv /\ [Next]_vars => TInv'
  <2> SUFFICES ASSUME TypeOK, PacketsOK, TInv, [Next]_vars, Calm'
               PROVE  NoneClosed' /\ Unheard' /\ Handshake' /\ InTime'
    BY DEF TInv, IInv
  <2>1. Calm
    BY CalmBefore
  <2>2. NoneClosed'
    BY <2>1, ClosedStep
  <2>3. Unheard'
    BY <2>1, UnheardStep DEF TInv
  <2> QED
    BY <2>1, <2>2, <2>3, HandshakeStep, InTimeStep
<1>3. TInv => NoSpuriousStale
  BY DEF TInv, Calm, NoneClosed, NoSpuriousStale
<1> QED
  BY <1>1, <1>2, <1>3, Invariance, PTL DEF Spec

---------------------------------------------------------------------------
(***************************************************************************)
(* A link implements a session (module Session), for every choice of the   *)
(* constants.  The invariant above says who holds which key; it is joined  *)
(* by what the medium, the dedup memory and the plaintexts handed over     *)
(* have to do with each other.                                             *)
(***************************************************************************)

Exact == world.lifetime < PACKET_HASH_TTL_SECS

Handed(e) == {got[e][i] : i \in DOMAIN got[e]}

Data(p) == p.kind = "DATA"

(* No request is under way before the initiator asked, and no proof before *)
(* the responder accepted, unless a process has forgotten that it did.     *)
AskedFirst ==
  \A p \in DOMAIN net :
    /\ p.kind = "LINKREQUEST" => status["initiator"] # "Absent" \/ restarts # 0
    /\ p.kind = "LRPROOF" => status["responder"] # "Absent" \/ restarts # 0

(* Data under way was sent by the end it names, and sealed.                *)
DataSent == \A p \in DOMAIN net : Data(p) => p.msg \in sent[p.from] /\ p.key \in Keys

(* A plaintext travels in one packet only (link_send draws a fresh IV).    *)
OnePacket == \A p, q \in DOMAIN net : (Data(p) /\ Data(q) /\ p.msg = q.msg) => p = q

(* Nothing was handed over that the peer did not send.                     *)
HandedSent == \A e \in End : Handed(e) \subseteq sent[Peer(e)]

(* An initiator that may still take a proof has been handed nothing.       *)
NothingYet ==
  \/ status["initiator"] = "Pending"
  \/ status["initiator"] = "Absent" /\ restarts = 0
  => Handed("initiator") = {}

(* A copy of a packet whose plaintext was handed over is either remembered *)
(* for as long as it can arrive, or no longer opens: a process that forgot *)
(* it also forgot the key, and takes a new one when it is asked again.     *)
Spent(e, p) ==
  \/ p \in DOMAIN seen[e] /\ seen[e][p] <= net[p]
  \/ p.key # key[e]

HandedOnce ==
  Exact => \A e \in End : \A p \in DOMAIN net : (Data(p) /\ p.msg \in Handed(e)) => Spent(e, p)

SInv == AskedFirst /\ DataSent /\ OnePacket /\ HandedSent /\ NothingYet /\ HandedOnce

Strong == IInv /\ SInv

---------------------------------------------------------------------------
(* How a step touches the data: it sends a plaintext, hands one over, or   *)
(* does neither.                                                           *)

SendMove(e, m) ==
  /\ status[e] = "Active" /\ (\A f \in End : m \notin sent[f])
  /\ sent' = [sent EXCEPT ![e] = @ \cup {m}]
  /\ net' = Stamp(net, Pkt("DATA", e, key[e], m))
  /\ UNCHANGED <<status, key, seen, got, restarts, world>>

DeliverMove(e, p) ==
  /\ status[e] = "Active"
  /\ p \in DOMAIN net /\ Data(p) /\ p.from = Peer(e) /\ p.key = key[e]
  /\ p \notin DOMAIN seen[e]
  /\ seen' = [seen EXCEPT ![e] = Stamp(@, p)]
  /\ got' = [got EXCEPT ![e] = Append(@, p.msg)]
  /\ UNCHANGED <<status, key, net, sent, restarts, world>>

(* What end e remembered of packet q it still remembers, long enough.      *)
Kept(e, q) ==
  (q \in DOMAIN seen[e] /\ seen[e][q] <= net[q])
    => \/ q \in DOMAIN seen'[e] /\ seen'[e][q] <= net'[q]
       \/ key'[e] = NoKey

(* A key an end takes opens no data under way, except at an initiator that *)
(* takes its first.                                                        *)
KeyKept(e) ==
  \/ key'[e] = key[e]
  \/ \A q \in DOMAIN net : Data(q) => q.key # key'[e]
  \/ e = "initiator" /\ status[e] = "Pending"

OtherMove ==
  /\ UNCHANGED <<sent, got, world>>
  /\ \A q \in DOMAIN net' : Data(q) => q \in DOMAIN net
  /\ Exact => \A e \in End : \A q \in DOMAIN net' : Data(q) => Kept(e, q)
  /\ \A e \in End : KeyKept(e)

(* The packets that are not data leave the ages of the data as they are.   *)
LEMMA StampOther ==
  ASSUME TypeOK, NEW p \in Packet, ~Data(p), net' = Stamp(net, p), NEW q \in DOMAIN net', Data(q)
  PROVE  q \in DOMAIN net /\ net'[q] = net[q]
BY DEF Stamp

(* Remembering one more packet keeps what is remembered of the others.     *)
LEMMA InboundKeeps ==
  ASSUME TypeOK, NEW e \in End, NEW p, handle_inbound(e, p), NEW x \in End,
         NEW q \in DOMAIN net, q \in DOMAIN seen[x], seen[x][q] <= net[q]
  PROVE  q \in DOMAIN seen'[x] /\ seen'[x][q] <= net[q]
<1>1. seen' = [y \in End |-> IF y = e THEN Stamp(seen[y], p) ELSE seen[y]]
  BY DEF handle_inbound, TypeOK
<1>2. CASE x # e
  BY <1>1, <1>2
<1>3. CASE x = e
  <2>1. seen'[x] = Stamp(seen[x], p)
    BY <1>1, <1>3
  <2>2. net[q] \in 0 .. ((world.lifetime + 1) - 1)
    BY DEF TypeOK, AgedPackets
  <2>3. 0 <= net[q]
    <3>1. world.lifetime + 1 \in Nat \ {0}
      BY WorldFact DEF TypeOK
    <3> QED
      BY <2>2, <3>1
  <2> QED
    BY <2>1, <2>3 DEF Stamp
<1> QED
  BY <1>2, <1>3

(* While the medium is exact, a remembered copy is remembered for as long  *)
(* as it is under way.                                                     *)
LEMMA ElapseKeeps ==
  ASSUME TypeOK, Exact, Elapse, NEW e \in End, NEW q \in DOMAIN net',
         q \in DOMAIN seen[e], seen[e][q] <= net[q]
  PROVE  q \in DOMAIN seen'[e] /\ seen'[e][q] <= net'[q]
<1>1. net' = Aged(net, world.lifetime + 1) /\ seen'[e] = Aged(seen[e], PACKET_HASH_TTL_SECS)
  BY DEF Elapse
<1>2. q \in DOMAIN net /\ net[q] + 1 < world.lifetime + 1 /\ net'[q] = net[q] + 1
  BY <1>1 DEF Aged
<1>3. world.lifetime \in Nat /\ world.lifetime < PACKET_HASH_TTL_SECS
  <2>1. world \in [prompt : BOOLEAN, lifetime : Nat, restarts : Nat]
    BY LinkAssumption DEF TypeOK
  <2> QED
    BY <2>1 DEF Exact
<1>4. net[q] \in Nat /\ seen[e][q] \in Nat /\ PACKET_HASH_TTL_SECS \in Nat
  <2>1. net[q] \in 0 .. (world.lifetime + 1) - 1 /\ seen[e][q] \in 0 .. PACKET_HASH_TTL_SECS - 1
    BY <1>2 DEF TypeOK, AgedPackets
  <2> QED
    BY <1>3, <2>1, LinkAssumption
<1>5. seen[e][q] + 1 < PACKET_HASH_TTL_SECS /\ seen[e][q] + 1 <= net[q] + 1
  BY <1>2, <1>3, <1>4
<1>6. q \in DOMAIN seen'[e] /\ seen'[e][q] = seen[e][q] + 1
  BY <1>1, <1>5 DEF Aged
<1> QED
  BY <1>2, <1>5, <1>6

(* Every step moves the data in one of these three ways.                   *)
LEMMA DataStep ==
  ASSUME Strong, [Next]_vars
  PROVE  \/ \E e \in End, m \in Msgs : SendMove(e, m)
         \/ \E e \in End, p \in DOMAIN net : DeliverMove(e, p)
         \/ OtherMove
<1> USE LinkAssumption
<1>t. TypeOK /\ PacketsOK /\ DataSent
  BY DEF Strong, IInv, SInv
<1>ends. "initiator" \in End /\ "responder" \in End
  BY DEF End
<1>kinds. {"LINKREQUEST", "LRPROOF", "LRRTT", "DATA", "KEEPALIVE", "LINKCLOSE"} \subseteq Kind
  BY DEF Kind
<1>alive. ASSUME NEW e \in End, status[e] = "Active" PROVE key[e] \in Keys
  BY <1>t, <1>alive DEF TypeOK
<1>other. ASSUME UNCHANGED <<sent, got, world>>, \A e \in End : KeyKept(e),
                 \/ net' = net
                 \/ \E p \in Packet : ~Data(p) /\ net' = Stamp(net, p),
                 \/ seen' = seen
                 \/ \E e \in End : \E p \in DOMAIN net : handle_inbound(e, p)
          PROVE  OtherMove
  <2>1. ASSUME NEW q \in DOMAIN net', Data(q) PROVE q \in DOMAIN net /\ net'[q] = net[q]
    BY <1>t, <1>other, <2>1, StampOther
  <2>2. ASSUME NEW e \in End, NEW q \in DOMAIN net', Data(q) PROVE Kept(e, q)
    BY <1>t, <1>other, <2>1, <2>2, InboundKeeps DEF Kept
  <2> QED
    BY <1>other, <2>1, <2>2 DEF OtherMove
<1>same. key' = key => \A e \in End : KeyKept(e)
  BY DEF KeyKept
<1>p. ASSUME NEW kind \in Kind \ {"DATA"}, NEW e \in End, NEW k \in Keys \cup {NoKey}
      PROVE  Pkt(kind, e, k, NoMsg) \in Packet /\ ~Data(Pkt(kind, e, k, NoMsg))
  BY PktFact DEF Data
<1>1. CASE establish_link
  <2>1. LinkRequest \in Packet /\ ~Data(LinkRequest)
    BY <1>ends, <1>kinds, <1>p DEF LinkRequest
  <2>2. UNCHANGED <<sent, got, world, key, seen>> /\ net' = Stamp(net, LinkRequest)
    BY <1>1 DEF establish_link, history, Send
  <2> QED
    BY <2>1, <2>2, <1>other, <1>same
<1>2. ASSUME NEW e \in End, NEW m \in Msgs, link_send(e, m) PROVE SendMove(e, m)
  BY <1>2 DEF link_send, Send, SendMove
<1>13. ASSUME NEW e \in End, link_send_unheard(e) PROVE OtherMove
  <2>1. UNCHANGED <<sent, got, world, key, seen, net>>
    BY <1>13 DEF link_send_unheard, history
  <2> QED
    BY <2>1, <1>other, <1>same
<1>3. ASSUME NEW e \in End, close_link(e) PROVE OtherMove
  <2>1. UNCHANGED <<sent, got, world, key, seen, net>>
    BY <1>3 DEF close_link
  <2> QED
    BY <2>1, <1>other, <1>same
<1>4. ASSUME NEW e \in End, foreign_teardown(e) PROVE OtherMove
  <2>1. UNCHANGED <<sent, got, world, key, seen>> /\ net' = Stamp(net, Pkt("LINKCLOSE", e, key[e], NoMsg))
    BY <1>4 DEF foreign_teardown, Send
  <2>2. key[e] \in Keys
    BY <1>4, <1>alive DEF foreign_teardown
  <2>3. Pkt("LINKCLOSE", e, key[e], NoMsg) \in Packet /\ ~Data(Pkt("LINKCLOSE", e, key[e], NoMsg))
    BY <2>2, <1>p, <1>kinds
  <2> QED
    BY <2>1, <2>3, <1>other, <1>same
<1>5. ASSUME NEW e \in End, tick_stale(e) PROVE OtherMove
  <2>1. UNCHANGED <<sent, got, world, key, seen, net>>
    BY <1>5 DEF tick_stale, history
  <2> QED
    BY <2>1, <1>other, <1>same
<1>k. ASSUME NEW e \in End PROVE Pkt("KEEPALIVE", e, NoKey, NoMsg) \in Packet /\ ~Data(Pkt("KEEPALIVE", e, NoKey, NoMsg))
  BY <1>p, <1>kinds
<1>6. ASSUME NEW e \in End, tick_keepalive(e) PROVE OtherMove
  <2>1. UNCHANGED <<sent, got, world, key, seen>> /\ net' = Stamp(net, Pkt("KEEPALIVE", e, NoKey, NoMsg))
    BY <1>6 DEF tick_keepalive, history, Send
  <2> QED
    BY <2>1, <1>k, <1>other, <1>same
<1>7. ASSUME NEW e \in End, NEW r \in DOMAIN net, handle_link_request(e, r) PROVE OtherMove
  <2>0. handle_inbound(e, r) /\ UNCHANGED <<sent, got, world>>
    BY <1>7 DEF handle_link_request, history
  <2>1. CASE status[e] = "Absent"
    <3> PICK k \in FreshKeys : key' = [key EXCEPT ![e] = k] /\ Send(Pkt("LRPROOF", e, k, NoMsg))
      BY <1>7, <2>1 DEF handle_link_request
    <3>1. k \in Keys /\ \A q \in DOMAIN net : q.key # k
      BY DEF FreshKeys
    <3>2. Pkt("LRPROOF", e, k, NoMsg) \in Packet /\ ~Data(Pkt("LRPROOF", e, k, NoMsg))
      BY <3>1, <1>p, <1>kinds
    <3>3. \A x \in End : KeyKept(x)
      BY <3>1, <1>t DEF KeyKept, TypeOK
    <3> QED
      BY <2>0, <3>2, <3>3, <1>other DEF Send
  <2>2. CASE status[e] # "Absent"
    <3>1. UNCHANGED <<key, net>>
      BY <1>7, <2>2 DEF handle_link_request
    <3> QED
      BY <2>0, <3>1, <1>other, <1>same
  <2> QED
    BY <2>1, <2>2
<1>8. ASSUME NEW e \in End, NEW r \in DOMAIN net, handle_link_proof(e, r) PROVE OtherMove
  <2>0. handle_inbound(e, r) /\ UNCHANGED <<sent, got, world>>
    BY <1>8 DEF handle_link_proof, history
  <2>1. CASE status[e] = "Pending"
    <3>1. r.key \in Keys /\ r.from = "responder" /\ r.from = Peer(e)
      BY <1>8, <1>t DEF handle_link_proof, handle_inbound, PacketsOK
    <3>2. e = "initiator"
      BY <3>1 DEF Peer, End
    <3>3. key' = [key EXCEPT ![e] = r.key] /\ net' = Stamp(net, Pkt("LRRTT", e, r.key, NoMsg))
      BY <1>8, <2>1 DEF handle_link_proof, Send
    <3>4. \A x \in End : KeyKept(x)
      BY <2>1, <3>2, <3>3, <1>t DEF KeyKept, TypeOK
    <3>5. Pkt("LRRTT", e, r.key, NoMsg) \in Packet /\ ~Data(Pkt("LRRTT", e, r.key, NoMsg))
      BY <3>1, <1>p, <1>kinds
    <3> QED
      BY <2>0, <3>3, <3>4, <3>5, <1>other
  <2>2. CASE status[e] # "Pending"
    <3>1. UNCHANGED <<key, net>>
      BY <1>8, <2>2 DEF handle_link_proof
    <3> QED
      BY <2>0, <3>1, <1>other, <1>same
  <2> QED
    BY <2>1, <2>2
<1>9. ASSUME NEW e \in End, NEW r \in DOMAIN net, handle_link_data(e, r)
      PROVE  DeliverMove(e, r) \/ OtherMove
  <2>0. handle_inbound(e, r) /\ UNCHANGED <<key, sent, world, restarts>>
    BY <1>9 DEF handle_link_data, Hears, Refresh
  <2>1. CASE got' = got
    <3>1. net' = net \/ net' = Stamp(net, Pkt("KEEPALIVE", e, NoKey, NoMsg))
      BY <1>9 DEF handle_link_data, Hears, Refresh
    <3> QED
      BY <2>0, <2>1, <3>1, <1>k, <1>other, <1>same
  <2>2. CASE got' # got
    BY <1>9, <2>0, <2>2 DEF handle_link_data, Hears, Refresh, handle_context, handle_inbound, DeliverMove, Data
  <2> QED
    BY <2>1, <2>2
<1>10. CASE Elapse
  <2>1. UNCHANGED <<sent, got, world, key>> /\ net' = Aged(net, world.lifetime + 1)
    BY <1>10 DEF Elapse, history
  <2>2. DOMAIN net' \subseteq DOMAIN net
    BY <2>1 DEF Aged
  <2>3. Exact => \A e \in End : \A q \in DOMAIN net' : Kept(e, q)
    BY <1>10, <1>t, ElapseKeeps DEF Kept
  <2> QED
    BY <2>1, <2>2, <2>3, <1>same DEF OtherMove
<1>11. ASSUME NEW e \in End, Restart(e) PROVE OtherMove
  <2>1. UNCHANGED <<sent, got, world, net>> /\ key' = [key EXCEPT ![e] = NoKey]
        /\ seen' = [seen EXCEPT ![e] = Nothing]
    BY <1>11 DEF Restart
  <2>2. \A x \in End : (x = e => key'[x] = NoKey) /\ (x # e => key'[x] = key[x] /\ seen'[x] = seen[x])
    BY <2>1, <1>t DEF TypeOK
  <2>3. \A x \in End : KeyKept(x)
    BY <2>2, <1>t DEF KeyKept, DataSent
  <2>4. \A x \in End : \A q \in DOMAIN net' : Kept(x, q)
    BY <2>1, <2>2 DEF Kept
  <2> QED
    BY <2>1, <2>3, <2>4 DEF OtherMove
<1>12. CASE UNCHANGED vars
  <2>1. UNCHANGED <<sent, got, world, key, seen, net>>
    BY <1>12 DEF vars
  <2> QED
    BY <2>1, <1>other, <1>same
<1> QED
  BY <1>1, <1>2, <1>3, <1>4, <1>5, <1>6, <1>7, <1>8, <1>9, <1>10, <1>11, <1>12, <1>13
     DEF Next, Tick, Receive

---------------------------------------------------------------------------
(* The invariant.                                                          *)

(* Handed, after a step that hands over one plaintext.                     *)
LEMMA HandedFact ==
  ASSUME TypeOK, NEW e \in End, NEW m \in Msgs, got' = [got EXCEPT ![e] = Append(@, m)]
  PROVE  /\ Handed(e)' = Handed(e) \cup {m}
         /\ \A x \in End : x # e => Handed(x)' = Handed(x)
<1>1. got \in [End -> Seq(Msgs)]
  BY DEF TypeOK
<1>2. got[e] \in Seq(Msgs) /\ got'[e] = Append(got[e], m)
  BY <1>1
<1>3. /\ DOMAIN got'[e] = DOMAIN got[e] \cup {Len(got[e]) + 1}
      /\ \A i \in DOMAIN got[e] : got'[e][i] = got[e][i]
      /\ got'[e][Len(got[e]) + 1] = m
  BY <1>2
<1>4. Handed(e)' = Handed(e) \cup {m}
  BY <1>3 DEF Handed
<1>5. \A x \in End : x # e => got'[x] = got[x]
  BY <1>1
<1> QED
  BY <1>4, <1>5 DEF Handed

(* Nothing is asked for too early.                                         *)
LEMMA AskedStep == TypeOK /\ PacketsOK /\ AskedFirst /\ [Next]_vars => AskedFirst'
<1> SUFFICES ASSUME TypeOK, PacketsOK, AskedFirst, [Next]_vars PROVE AskedFirst'
  OBVIOUS
<1>1. StatusMove
  BY StatusStep
<1>2. "initiator" \in End /\ "responder" \in End
  BY DEF End
<1>3. PacketsOK'
  BY PacketsStep
<1> QED
  BY <1>1, <1>2, <1>3 DEF StatusMove, AskedFirst, PacketsOK

(* The plaintexts under way and the plaintexts handed over.                *)
LEMMA DataInvStep ==
  ASSUME Strong, [Next]_vars
  PROVE  DataSent' /\ OnePacket' /\ HandedSent' /\ NothingYet' /\ HandedOnce'
<1>t. TypeOK /\ PacketsOK /\ KeylessUntilActive /\ DataSent /\ OnePacket /\ HandedSent /\ NothingYet /\ HandedOnce
  BY DEF Strong, IInv, SInv
<1>s. StatusMove
  BY <1>t, StatusStep
<1>q. ASSUME NEW q \in DOMAIN net PROVE q \in Packet /\ q.from \in End
  BY <1>t DEF TypeOK, AgedPackets, Packet
<1>1. ASSUME NEW e \in End, NEW m \in Msgs, SendMove(e, m)
      PROVE  DataSent' /\ OnePacket' /\ HandedSent' /\ NothingYet' /\ HandedOnce'
  <2> DEFINE p == Pkt("DATA", e, key[e], m)
  <2>1. key[e] \in Keys
    BY <1>1, <1>t DEF SendMove, TypeOK
  <2>2. p \in Packet /\ p.kind = "DATA" /\ p.from = e /\ p.key = key[e] /\ p.msg = m
    BY <2>1, PktFact DEF Kind
  <2> HIDE DEF p
  <2>3. net' = Stamp(net, p)
    BY <1>1 DEF SendMove, p
  <2>4. /\ DOMAIN net' = DOMAIN net \cup {p}
        /\ \A q \in DOMAIN net : q # p => net'[q] = net[q]
    BY <2>3 DEF Stamp
  <2>5. UNCHANGED <<status, key, seen, got, restarts, world>> /\ (\A f \in End : m \notin sent[f])
    BY <1>1 DEF SendMove
  <2>6. \A f \in End : sent'[f] = IF f = e THEN sent[f] \cup {m} ELSE sent[f]
    BY <1>1, <1>t DEF SendMove, TypeOK
  <2>7. DataSent'
    BY <1>t, <1>q, <2>1, <2>2, <2>4, <2>6 DEF DataSent
  <2>8. \A q \in DOMAIN net : Data(q) => q.msg # m
    BY <1>t, <1>q, <2>5 DEF DataSent
  <2>9. OnePacket'
    BY <1>t, <2>2, <2>4, <2>8 DEF OnePacket
  <2>10. \A x \in End : Handed(x)' = Handed(x) /\ m \notin Handed(x)
    BY <1>t, <2>5, PeerFact DEF Handed, HandedSent
  <2>11. HandedSent'
    BY <1>t, <2>6, <2>10, PeerFact DEF HandedSent
  <2>12. NothingYet'
    BY <1>t, <2>5, <2>10 DEF NothingYet, End
  <2>13. HandedOnce'
    <3> SUFFICES ASSUME Exact, NEW x \in End, NEW q \in DOMAIN net', Data(q), q.msg \in Handed(x)
                 PROVE  Spent(x, q)'
      BY <2>5, <2>10 DEF HandedOnce, Exact
    <3>1. q \in DOMAIN net /\ q # p
      BY <2>2, <2>4, <2>10
    <3>2. Spent(x, q)
      BY <1>t, <3>1 DEF HandedOnce
    <3> QED
      BY <2>4, <2>5, <3>1, <3>2 DEF Spent
  <2> QED
    BY <2>7, <2>9, <2>11, <2>12, <2>13
<1>2. ASSUME NEW e \in End, NEW p \in DOMAIN net, DeliverMove(e, p)
      PROVE  DataSent' /\ OnePacket' /\ HandedSent' /\ NothingYet' /\ HandedOnce'
  <2>1. UNCHANGED <<status, key, net, sent, restarts, world>> /\ Data(p) /\ p.from = Peer(e)
    BY <1>2 DEF DeliverMove
  <2>2. p.msg \in Msgs /\ p.msg \in sent[Peer(e)]
    BY <1>t, <2>1 DEF PacketsOK, DataSent, Data
  <2>3. /\ Handed(e)' = Handed(e) \cup {p.msg}
        /\ \A x \in End : x # e => Handed(x)' = Handed(x)
    BY <1>2, <1>t, <2>2, HandedFact DEF DeliverMove
  <2>4. DataSent' /\ OnePacket'
    BY <1>t, <2>1 DEF DataSent, OnePacket
  <2>5. HandedSent'
    BY <1>t, <2>1, <2>2, <2>3 DEF HandedSent
  <2>6. NothingYet'
    <3>1. CASE e = "initiator"
      BY <1>2, <2>1, <3>1 DEF DeliverMove, NothingYet
    <3>2. CASE e # "initiator"
      BY <1>t, <2>1, <2>3, <3>2 DEF NothingYet, End
    <3> QED
      BY <3>1, <3>2
  <2>7. HandedOnce'
    <3> SUFFICES ASSUME Exact, NEW x \in End, NEW q \in DOMAIN net, Data(q), q.msg \in Handed(x)'
                 PROVE  Spent(x, q)'
      BY <2>1 DEF HandedOnce, Exact
    <3>1. seen' = [y \in End |-> IF y = e THEN Stamp(seen[y], p) ELSE seen[y]]
      BY <1>2, <1>t DEF DeliverMove, TypeOK
    <3>2. 0 <= net[q]
      <4>1. net[q] \in 0 .. ((world.lifetime + 1) - 1)
        BY <1>t DEF TypeOK, AgedPackets
      <4>2. world.lifetime + 1 \in Nat \ {0}
        BY <1>t, WorldFact DEF TypeOK
      <4> QED
        BY <4>1, <4>2
    <3>3. CASE x = e /\ q = p
      BY <2>1, <3>1, <3>2, <3>3 DEF Spent, Stamp
    <3>4. CASE ~(x = e /\ q = p)
      <4>1. q.msg \in Handed(x)
        <5>1. CASE x = e /\ q.msg = p.msg
          BY <1>t, <2>1, <3>4, <5>1 DEF OnePacket
        <5> QED
          BY <2>3, <5>1
      <4>2. Spent(x, q)
        BY <1>t, <4>1 DEF HandedOnce
      <4> QED
        BY <2>1, <3>1, <3>4, <4>2, <3>2 DEF Spent, Stamp
    <3> QED
      BY <3>3, <3>4
  <2> QED
    BY <2>4, <2>5, <2>6, <2>7
<1>3. CASE OtherMove
  <2>1. UNCHANGED <<sent, got, world>> /\ \A q \in DOMAIN net' : Data(q) => q \in DOMAIN net
    BY <1>3 DEF OtherMove
  <2>2. \A x \in End : Handed(x)' = Handed(x)
    BY <2>1 DEF Handed
  <2>3. DataSent' /\ OnePacket' /\ HandedSent'
    BY <1>t, <2>1, <2>2 DEF DataSent, OnePacket, HandedSent
  <2>4. NothingYet'
    BY <1>t, <1>s, <2>2 DEF NothingYet, StatusMove, End
  <2>5. HandedOnce'
    <3> SUFFICES ASSUME Exact, NEW x \in End, NEW q \in DOMAIN net', Data(q), q.msg \in Handed(x)
                 PROVE  Spent(x, q)'
      BY <2>1, <2>2 DEF HandedOnce, Exact
    <3>1. q \in DOMAIN net
      BY <2>1
    <3>2. Spent(x, q) /\ q.key \in Keys
      BY <1>t, <3>1 DEF HandedOnce, DataSent
    <3>3. Kept(x, q) /\ KeyKept(x)
      BY <1>3 DEF OtherMove
    <3>4. ~(x = "initiator" /\ status[x] = "Pending")
      BY <1>t DEF NothingYet
    <3>5. NoKey \notin Keys
      BY LinkAssumption
    <3>6. CASE q \in DOMAIN seen[x] /\ seen[x][q] <= net[q]
      BY <3>2, <3>3, <3>5, <3>6 DEF Kept, Spent
    <3>7. CASE q.key # key[x]
      BY <3>1, <3>3, <3>4, <3>7 DEF KeyKept, Spent
    <3> QED
      BY <3>2, <3>6, <3>7 DEF Spent
  <2> QED
    BY <2>3, <2>4, <2>5
<1> QED
  BY <1>1, <1>2, <1>3, DataStep

(* The invariant of this module, on top of that of LinkProofs.             *)
THEOREM StrongInvariance == Spec => []Strong
<1>1. Init => SInv
  <2> SUFFICES ASSUME Init PROVE SInv
    OBVIOUS
  <2>1. DOMAIN net = {}
    BY NothingFact, LinkAssumption DEF Init
  <2>2. \A e \in End : Handed(e) = {}
    BY DEF Init, Handed
  <2> QED
    BY <2>1, <2>2, PeerFact
       DEF SInv, AskedFirst, DataSent, OnePacket, HandedSent, NothingYet, HandedOnce, End
<1>2. IInv /\ SInv /\ [Next]_vars => SInv'
  BY AskedStep, DataInvStep DEF Strong, SInv, IInv
<1> QED
  BY <1>1, <1>2, Invariance, PTL DEF Spec, Strong

---------------------------------------------------------------------------
(* The refinement.                                                         *)

(* What a function for the only link is, and what one update makes of it.  *)
LEMMA OnlyLink ==
  ASSUME NEW f, NEW e \in DOMAIN f, NEW v
  PROVE  /\ [l \in {"link"} |-> f]["link"] = f
         /\ [[l \in {"link"} |-> f] EXCEPT !["link"][e] = v] = [l \in {"link"} |-> [f EXCEPT ![e] = v]]
OBVIOUS

(* Steps that change the status of one end only.                           *)
LEMMA EnterFact ==
  ASSUME TypeOK, NEW e \in End, NEW v, status' = [status EXCEPT ![e] = v]
  PROVE  S!Enter("link", e, v)
<1>1. status \in [End -> Status]
  BY DEF TypeOK
<1> QED
  BY <1>1, OnlyLink DEF S!Enter

(* A step that closes one end.                                             *)
LEMMA CloseFact ==
  ASSUME TypeOK, NEW e \in End, status[e] \in {"Pending", "Active"},
         status' = [status EXCEPT ![e] = "Closed"], UNCHANGED <<sent, got, restarts, world>>
  PROVE  S!SessionNext
<1>1. S!Enter("link", e, "Closed")
  BY EnterFact
<1>2. S!close("link", e)
  BY <1>1 DEF S!close
<1>3. e \in S!End
  BY DEF S!End, End
<1> QED
  BY <1>2, <1>3 DEF S!SessionNext

(* A step that the session does not see.                                   *)
LEMMA StutterFact ==
  ASSUME UNCHANGED <<status, sent, got, restarts, world>>
  PROVE  UNCHANGED S!sessionVars
BY DEF S!sessionVars

(* Every step of the link is a step of the session, or none.               *)
LEMMA SessionStep == Strong /\ [Next]_vars => [S!SessionNext]_(S!sessionVars)
<1> SUFFICES ASSUME Strong, [Next]_vars PROVE S!SessionNext \/ UNCHANGED S!sessionVars
  OBVIOUS
<1>t. TypeOK /\ PacketsOK /\ AskedFirst /\ DataSent /\ HandedOnce
  BY DEF Strong, IInv, SInv
<1>f. status \in [End -> Status] /\ sent \in [End -> SUBSET Msgs] /\ got \in [End -> Seq(Msgs)] /\ restarts \in Nat
  BY <1>t, WorldFact DEF TypeOK
<1>e. S!End = End /\ \A e \in End : S!Peer(e) = Peer(e)
  BY DEF S!End, End, S!Peer, Peer
<1>i. "initiator" \in End /\ "responder" \in End
  BY DEF End
<1>0. [l \in {"link"} |-> status]["link"] = status
  OBVIOUS
<1>1. CASE establish_link
  <2>1. /\ status["initiator"] = "Absent" /\ restarts = 0
        /\ status' = [status EXCEPT !["initiator"] = "Pending"]
        /\ UNCHANGED <<sent, got, restarts, world>>
    BY <1>1 DEF establish_link, history
  <2>2. S!Enter("link", "initiator", "Pending")
    BY <1>t, <1>i, <2>1, EnterFact
  <2>3. S!request("link")
    BY <2>1, <2>2 DEF S!request, S!Requested
  <2> QED
    BY <2>3 DEF S!SessionNext
<1>2. ASSUME NEW e \in End, NEW m \in Msgs, link_send(e, m) PROVE S!SessionNext
  <2>1. /\ status[e] = "Active" /\ \A f \in End : m \notin sent[f]
        /\ sent' = [sent EXCEPT ![e] = @ \cup {m}]
        /\ UNCHANGED <<status, got, restarts, world>>
    BY <1>2 DEF link_send
  <2>2. [l \in {"link"} |-> sent'] = [[l \in {"link"} |-> sent] EXCEPT !["link"][e] = @ \cup {m}]
    BY <2>1, <1>f
  <2>3. S!send("link", e, m)
    BY <2>1, <2>2, <1>e DEF S!send
  <2> QED
    BY <2>3, <1>e DEF S!SessionNext
<1>13. ASSUME NEW e \in End, link_send_unheard(e) PROVE UNCHANGED S!sessionVars
  BY <1>13, StutterFact DEF link_send_unheard, history
<1>3. ASSUME NEW e \in End, close_link(e) PROVE S!SessionNext
  BY <1>3, <1>t, CloseFact DEF close_link
<1>4. ASSUME NEW e \in End, foreign_teardown(e) PROVE S!SessionNext
  BY <1>4, <1>t, CloseFact DEF foreign_teardown
<1>5. ASSUME NEW e \in End, tick_stale(e) PROVE S!SessionNext
  BY <1>5, <1>t, CloseFact DEF tick_stale, history
<1>6. ASSUME NEW e \in End, tick_keepalive(e) PROVE UNCHANGED S!sessionVars
  BY <1>6, StutterFact DEF tick_keepalive, history
<1>7. ASSUME NEW e \in End, NEW r \in DOMAIN net, handle_link_request(e, r)
      PROVE  S!SessionNext \/ UNCHANGED S!sessionVars
  <2>1. CASE status[e] # "Absent"
    BY <1>7, <2>1, StutterFact DEF handle_link_request, history
  <2>2. CASE status[e] = "Absent"
    <3>1. r.from = "initiator" /\ r.from = Peer(e) /\ r.kind = "LINKREQUEST"
      BY <1>7, <1>t DEF handle_link_request, handle_inbound, PacketsOK
    <3>2. e = "responder"
      BY <3>1 DEF Peer, End
    <3>3. status' = [status EXCEPT !["responder"] = "Active"] /\ UNCHANGED <<sent, got, restarts, world>>
      BY <1>7, <2>2, <3>2 DEF handle_link_request, history
    <3>4. S!Requested("link")
      BY <1>t, <1>f, <3>1 DEF AskedFirst, S!Requested
    <3>5. S!Enter("link", "responder", "Active")
      BY <1>t, <1>i, <3>3, EnterFact
    <3>6. S!accept("link")
      BY <2>2, <3>2, <3>3, <3>4, <3>5 DEF S!accept
    <3> QED
      BY <3>6 DEF S!SessionNext
  <2> QED
    BY <2>1, <2>2
<1>8. ASSUME NEW e \in End, NEW r \in DOMAIN net, handle_link_proof(e, r)
      PROVE  S!SessionNext \/ UNCHANGED S!sessionVars
  <2>1. CASE status[e] # "Pending"
    BY <1>8, <2>1, StutterFact DEF handle_link_proof, history
  <2>2. CASE status[e] = "Pending"
    <3>1. r.from = "responder" /\ r.from = Peer(e) /\ r.kind = "LRPROOF"
      BY <1>8, <1>t DEF handle_link_proof, handle_inbound, PacketsOK
    <3>2. e = "initiator"
      BY <3>1 DEF Peer, End
    <3>3. status' = [status EXCEPT !["initiator"] = "Active"] /\ UNCHANGED <<sent, got, restarts, world>>
      BY <1>8, <2>2, <3>2 DEF handle_link_proof, history
    <3>4. S!Accepted("link")
      BY <1>t, <1>f, <3>1 DEF AskedFirst, S!Accepted
    <3>5. S!Enter("link", "initiator", "Active")
      BY <1>t, <1>i, <3>3, EnterFact
    <3>6. S!confirm("link")
      BY <2>2, <3>2, <3>3, <3>4, <3>5 DEF S!confirm
    <3> QED
      BY <3>6 DEF S!SessionNext
  <2> QED
    BY <2>1, <2>2
<1>9. ASSUME NEW e \in End, NEW r \in DOMAIN net, handle_link_data(e, r)
      PROVE  S!SessionNext \/ UNCHANGED S!sessionVars
  <2>0. UNCHANGED <<sent, restarts, world>>
    BY <1>9 DEF handle_link_data, Hears, Refresh
  <2>1. CASE UNCHANGED <<status, got>>
    BY <2>0, <2>1, StutterFact
  <2>2. CASE status[e] = "Active" /\ status' = [status EXCEPT ![e] = "Closed"] /\ got' = got
    BY <2>0, <2>2, <1>t, CloseFact
  <2>3. CASE /\ status[e] = "Active" /\ Data(r) /\ r.key = key[e] /\ status' = status
             /\ got' = [got EXCEPT ![e] = Append(@, r.msg)]
    <3>1. r.from = Peer(e) /\ r \notin DOMAIN seen[e]
      BY <1>9 DEF handle_link_data, Hears, Refresh, handle_inbound
    <3>2. r.msg \in sent[Peer(e)] /\ r.msg \in Msgs
      BY <1>t, <2>3, <3>1 DEF DataSent, PacketsOK, Data
    <3>3. Exact => r.msg \notin Handed(e)
      BY <1>t, <2>3, <3>1 DEF HandedOnce, Spent
    <3>4. [l \in {"link"} |-> got'] = [[l \in {"link"} |-> got] EXCEPT !["link"][e] = Append(@, r.msg)]
      BY <2>3, <1>f
    <3>5. S!Handed("link", e) = Handed(e)
      BY DEF S!Handed, Handed
    <3>6. S!deliver("link", e, r.msg)
      BY <2>0, <2>3, <3>2, <3>3, <3>4, <3>5, <1>e DEF S!deliver, Exact
    <3> QED
      BY <3>2, <3>6, <1>e DEF S!SessionNext
  <2> QED
    BY <1>9, <2>1, <2>2, <2>3 DEF handle_link_data, Hears, Refresh, handle_context, Data
<1>10. CASE Elapse
  BY <1>10, StutterFact DEF Elapse, history
<1>11. ASSUME NEW e \in End, Restart(e) PROVE S!SessionNext
  <2> DEFINE D == {<<"link", e>>}
  <2>1. /\ status[e] # "Absent" /\ status' = [status EXCEPT ![e] = "Absent"]
        /\ restarts' = restarts + 1 /\ UNCHANGED <<sent, got, world>>
    BY <1>11 DEF Restart
  <2>2. D # {} /\ \A d \in D : [l \in {"link"} |-> status][d[1]][d[2]] # "Absent"
    BY <2>1
  <2>3. [l \in {"link"} |-> status'] =
          [l \in {"link"} |-> [x \in End |->
             IF <<l, x>> \in D THEN "Absent" ELSE [k \in {"link"} |-> status][l][x]]]
    BY <2>1, <1>f
  <2>4. (IF restarts' > 0 THEN {"link"} ELSE {}) = (IF restarts > 0 THEN {"link"} ELSE {}) \cup {d[1] : d \in D}
    BY <2>1, <1>f
  <2>5. S!crash(D)
    BY <2>1, <2>2, <2>3, <2>4, <1>e DEF S!crash
  <2>6. D \in SUBSET ({"link"} \X S!End)
    BY <1>e
  <2> QED
    BY <2>5, <2>6 DEF S!SessionNext
<1>12. CASE UNCHANGED vars
  BY <1>12, StutterFact DEF vars
<1> QED
  BY <1>1, <1>2, <1>3, <1>4, <1>5, <1>6, <1>7, <1>8, <1>9, <1>10, <1>11, <1>12, <1>13
     DEF Next, Tick, Receive

(* Initially there is no session.                                          *)
LEMMA SessionStart == Init => S!SessionInit
BY DEF Init, S!SessionInit, S!End, End

(* A link of node.rs implements a session, whatever is lost, copied, late  *)
(* or reordered and whichever process restarts: the ends become Active in  *)
(* order, a closed end stays closed, and a plaintext is handed over only   *)
(* if the peer sent it, and once as long as no copy outlives seen_packets. *)
THEOREM LinkImplementsSession == Spec => ImplementsSession
<1>1. Spec => []Strong
  BY StrongInvariance
<1> QED
  BY <1>1, SessionStart, SessionStep, PTL DEF Spec, ImplementsSession, S!SessionSpec
===========================================================================
