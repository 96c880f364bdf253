---------------------------- MODULE LxmfProofs ----------------------------
(***************************************************************************)
(* Theorems about module Lxmf, for any nodes, links, payloads and worlds:  *)
(* type correctness, the one fate of a letter accepted for direct          *)
(* delivery, that its link takes it when it opens, and which letters are   *)
(* shown as such.                                                          *)
(***************************************************************************)
EXTENDS Lxmf, TLAPS

(* What is under way is an announce to a node or a letter to a node.       *)
AirFits ==
  air \subseteq [kind : {"Announce"}, to : Nodes, of : Nodes]
                  \cup [kind : {"Message"}, to : Nodes, of : Payloads]

(* An event that waits in a driver is still true when it is worked off:    *)
(* the announced path is there, the established link is Active, and it is  *)
(* a link of this node's.                                                  *)
Fits(n) ==
  \A j \in DOMAIN queue[n] :
    /\ queue[n][j].kind # "LxmfMessage"
    /\ queue[n][j].kind = "Announce" => queue[n][j].of \in paths[n]
    /\ queue[n][j].kind = "LinkEstablished" =>
         Caller[queue[n][j].of] = n /\ phase[queue[n][j].of]["initiator"] = "Active"

QueueFits == \A n \in Nodes : Fits(n)

(* A letter is accepted once, for a link that is asked for at that time.   *)
BoundOnce ==
  /\ \A l \in DOMAIN bound : bound[l] \in used /\ Requested(l)
  /\ \A k, l \in DOMAIN bound : bound[k] = bound[l] => k = l

(* What is sent was handed in by an application.                           *)
SentUsed == \A l \in Links, e \in End : sent[l][e] \subseteq used

(* What waits was accepted.                                                *)
PendingBound == \A l \in DOMAIN pending : l \in DOMAIN bound /\ pending[l] = bound[l]

Fate == OneFate /\ BoundOnce /\ SentUsed /\ PendingBound

(* The router knows the sources whose announces the application was told   *)
(* of, and no others.                                                      *)
KnownHeard ==
  \A n \in Nodes :
    known[n] = {s \in Nodes : \E i \in 1 .. Len(log[n]) : log[n][i] = Event("Announce", s)}

Heard == KnownHeard /\ KnownByAnnounce

LInv == TypeOK /\ AirFits /\ QueueFits /\ Fate /\ Heard

---------------------------------------------------------------------------
(* Sequences and events.                                                   *)

LEMMA SeqFact ==
  ASSUME NEW S, NEW q \in Seq(S)
  PROVE  /\ <<>> \in Seq(S) /\ Len(q) \in Nat
         /\ \A i \in 1 .. Len(q) : q[i] \in S
         /\ \A x \in S : /\ Append(q, x) \in Seq(S) /\ Len(Append(q, x)) = Len(q) + 1
                         /\ Append(q, x)[Len(q) + 1] = x
                         /\ \A i \in 1 .. Len(q) : Append(q, x)[i] = q[i]
OBVIOUS

LEMMA OneFact ==
  ASSUME NEW S, NEW q \in Seq(S), q # <<>>, Len(q) <= 1
  PROVE  /\ Head(q) \in S /\ q = <<Head(q)>> /\ 1 \in DOMAIN q /\ q[1] = Head(q)
         /\ Tail(q) = <<>> /\ <<>> \in Seq(S) /\ Len(<<>>) = 0
<1>0. Len(q) \in Nat /\ Len(q) # 0
  OBVIOUS
<1>1. Len(q) = 1 /\ Head(q) = q[1] /\ Head(q) \in S /\ 1 \in DOMAIN q
  <2>1. Len(q) = 1
    BY <1>0
  <2>2. 1 \in DOMAIN q /\ Head(q) = q[1]
    BY <2>1
  <2> QED
    BY <2>1, <2>2
<1>2. Tail(q) \in Seq(S) /\ Len(Tail(q)) = 0
  BY <1>1
<1>3. Tail(q) = <<>> /\ <<>> \in Seq(S) /\ Len(<<>>) = 0
  BY <1>2
<1>4. <<q[1]>> \in Seq(S) /\ Len(<<q[1]>>) = 1 /\ <<q[1]>>[1] = q[1]
  BY <1>1
<1>5. q = <<q[1]>>
  BY <1>1, <1>4
<1> QED
  BY <1>1, <1>3, <1>5

LEMMA EventFact ==
  /\ \A s \in Nodes : Event("Announce", s) \in Events
  /\ \A l \in Links : Event("LinkEstablished", l) \in Events
  /\ \A m \in Payloads : /\ Event("LinkData", m) \in Events
                         /\ Event("Message", m) \in Events
                         /\ Event("LxmfMessage", m) \in Events
  /\ \A v \in Events :
       /\ v = Event(v.kind, v.of)
       /\ v.kind \in {"Announce", "LinkEstablished", "LinkData", "Message", "LxmfMessage"}
       /\ v.kind = "Announce" => v.of \in Nodes
       /\ v.kind = "LinkEstablished" => v.of \in Links
       /\ v.kind \in {"LinkData", "Message", "LxmfMessage"} => v.of \in Payloads
  /\ \A k, x : Event(k, x).kind = k /\ Event(k, x).of = x
BY DEF Event, Events

(* A handler's event becomes the one element of the queue.                 *)
LEMMA RaiseFact ==
  ASSUME TypeOK, NEW n \in Nodes, AtSelect(n), NEW v \in Events, Raise(n, v)
  PROVE  /\ queue' \in [Nodes -> Seq(Events)] /\ \A k \in Nodes : Len(queue'[k]) <= 1
         /\ queue'[n] = <<v>> /\ \A j \in DOMAIN queue'[n] : queue'[n][j] = v
         /\ \A k \in Nodes \ {n} : queue'[k] = queue[k]
<1> DEFINE E == Events
<1>1. queue \in [Nodes -> Seq(E)] /\ (\A k \in Nodes : Len(queue[k]) <= 1) /\ queue[n] = <<>> /\ v \in E
  BY DEF TypeOK, AtSelect
<1>2. queue' = [queue EXCEPT ![n] = Append(queue[n], v)]
  BY DEF Raise
<1> HIDE DEF E
<1>3. Append(queue[n], v) = <<v>> /\ <<v>> \in Seq(E) /\ Len(<<v>>) = 1
  BY <1>1
<1> HIDE DEF TypeOK
<1>4. /\ queue' \in [Nodes -> Seq(E)] /\ \A k \in Nodes : Len(queue'[k]) <= 1
      /\ queue'[n] = <<v>>
      /\ \A k \in Nodes \ {n} : queue'[k] = queue[k]
  BY <1>1, <1>2, <1>3
<1>5. \A j \in DOMAIN <<v>> : <<v>>[j] = v
  OBVIOUS
<1> QED
  BY <1>4, <1>5 DEF E

(* The queue that is worked off has one event, and is empty afterwards.    *)
LEMMA PopFact ==
  ASSUME TypeOK, NEW n \in Nodes, emit_node_events(n)
  PROVE  /\ Head(queue[n]) \in Events /\ queue[n] = <<Head(queue[n])>>
         /\ queue[n][1] = Head(queue[n]) /\ 1 \in DOMAIN queue[n]
         /\ queue' \in [Nodes -> Seq(Events)] /\ \A k \in Nodes : Len(queue'[k]) <= 1
         /\ queue'[n] = <<>>
         /\ \A k \in Nodes \ {n} : queue'[k] = queue[k]
<1> DEFINE E == Events
<1>1. queue \in [Nodes -> Seq(E)] /\ (\A k \in Nodes : Len(queue[k]) <= 1)
  BY DEF TypeOK
<1>2. queue[n] # <<>> /\ queue' = [queue EXCEPT ![n] = Tail(queue[n])]
  BY DEF emit_node_events
<1> HIDE DEF E
<1>3. queue[n] \in Seq(E) /\ Len(queue[n]) <= 1
  BY <1>1
<1>4. /\ Head(queue[n]) \in E /\ queue[n] = <<Head(queue[n])>> /\ 1 \in DOMAIN queue[n]
      /\ queue[n][1] = Head(queue[n]) /\ Tail(queue[n]) = <<>> /\ <<>> \in Seq(E) /\ Len(<<>>) = 0
  BY <1>2, <1>3, OneFact
<1>5. /\ queue' \in [Nodes -> Seq(E)] /\ \A k \in Nodes : Len(queue'[k]) <= 1
      /\ queue'[n] = <<>>
      /\ \A k \in Nodes \ {n} : queue'[k] = queue[k]
  BY <1>1, <1>2, <1>4
<1> QED
  BY <1>4, <1>5 DEF E

(* What the application is told of an event.                               *)
LEMMA SurfaceFact ==
  ASSUME NEW n \in Nodes, NEW v \in Events
  PROVE  /\ Surfaced(n, v) \in Events
         /\ v.kind \in {"Announce", "LinkEstablished", "LxmfMessage"} => Surfaced(n, v) = v
         /\ v.kind \in {"LinkData", "Message"} =>
              /\ Surfaced(n, v).of = v.of
              /\ Surfaced(n, v).kind \in {"LinkData", "Message", "LxmfMessage"}
              /\ (Surfaced(n, v).kind = "LxmfMessage") <=> unpack_for_local_destination(n, v.of)
<1>1. Surfaced(n, v) = v \/ (v.kind \in {"LinkData", "Message"} /\ Surfaced(n, v) = Event("LxmfMessage", v.of))
  BY DEF Surfaced
<1>2. Surfaced(n, v) \in Events
  BY <1>1, EventFact
<1>3. v.kind \in {"LinkData", "Message"} => Event("LxmfMessage", v.of).kind = "LxmfMessage" /\ Event("LxmfMessage", v.of).of = v.of
  BY EventFact
<1> QED
  BY <1>1, <1>2, <1>3 DEF Surfaced

---------------------------------------------------------------------------
(* Types.                                                                  *)

SessionOK ==
  /\ phase \in [Links -> [End -> Phase]]
  /\ crashed \subseteq Links
  /\ sent \in [Links -> [End -> SUBSET Payloads]]
  /\ got \in [Links -> [End -> Seq(Payloads)]]

(* The steps of a session keep to its types.                               *)
LEMMA PhaseStep ==
  ASSUME SessionOK, NEW l \in Links, NEW e \in End,
         request(l) \/ accept(l) \/ confirm(l) \/ close(l, e)
  PROVE  SessionOK'
<1>1. UNCHANGED <<crashed, sent, got>>
  BY DEF request, accept, confirm, close
<1>2. PICK f \in End, to \in Phase : phase' = [phase EXCEPT ![l][f] = to]
  BY DEF request, accept, confirm, close, Enter, End, Phase
<1> QED
  BY <1>1, <1>2 DEF SessionOK

LEMMA DataStep ==
  ASSUME SessionOK, NEW l \in Links, NEW e \in End, NEW m \in Payloads,
         send(l, e, m) \/ deliver(l, e, m)
  PROVE  SessionOK'
<1>1. CASE send(l, e, m)
  BY <1>1 DEF send, SessionOK
<1>2. CASE deliver(l, e, m)
  <2>1. Append(got[l][e], m) \in Seq(Payloads)
    BY DEF SessionOK
  <2>2. got' = [got EXCEPT ![l][e] = Append(got[l][e], m)] /\ UNCHANGED <<phase, crashed, sent>>
    BY <1>2 DEF deliver
  <2>3. got' \in [Links -> [End -> Seq(Payloads)]]
    BY <2>1, <2>2 DEF SessionOK
  <2> QED
    BY <2>2, <2>3 DEF SessionOK
<1> QED
  BY <1>1, <1>2

LEMMA EndFact == \A n, l : EndOf(n, l) \in End /\ "initiator" \in End /\ "responder" \in End
BY DEF EndOf, End

(* Every step keeps to the types; a driver has at most one event to work off, *)
(* since a handler runs only when there is none.                           *)
LEMMA TypeStep == TypeOK /\ AirFits /\ [Next]_vars => TypeOK'
<1> SUFFICES ASSUME TypeOK, AirFits, [Next]_vars PROVE TypeOK'
  OBVIOUS
<1> USE DEF TypeOK, local, ledger, sessionVars
<1>session. SessionOK
  BY DEF SessionOK
<1>1. ASSUME NEW n \in Nodes, AnnounceAll(n) PROVE TypeOK'
  BY <1>1 DEF AnnounceAll, Letters
<1>2. ASSUME NEW n \in Nodes, NEW p \in air, handle_announce(n, p) PROVE TypeOK'
  <2>1. p.of \in Nodes
    BY <1>2 DEF AirFits, handle_announce
  <2>2. paths' \in [Nodes -> SUBSET Nodes]
    <3>1. paths' = [paths EXCEPT ![n] = paths[n] \cup {p.of}] \/ paths' = paths
      BY <1>2 DEF handle_announce
    <3>2. paths \in [Nodes -> SUBSET Nodes]
      OBVIOUS
    <3> HIDE DEF TypeOK
    <3> QED
      BY <2>1, <3>1, <3>2
  <2>3. queue' \in [Nodes -> Seq(Events)] /\ \A k \in Nodes : Len(queue'[k]) <= 1
    <3>1. CASE Raise(n, Event("Announce", p.of))
      <4> HIDE DEF TypeOK
      <4> QED
        BY <1>2, <2>1, <3>1, RaiseFact, EventFact DEF handle_announce
    <3>2. CASE queue' = queue
      BY <3>2
    <3> QED
      BY <1>2, <3>1, <3>2 DEF handle_announce
  <2> QED
    BY <1>2, <2>2, <2>3 DEF handle_announce, Letters
<1>3. ASSUME NEW n \in Nodes, NEW s \in Nodes, prune(n, s) PROVE TypeOK'
  BY <1>3 DEF prune, Letters
<1>4. ASSUME NEW n \in Nodes, NEW m \in Payloads, LxmfSendOpportunistic(n, m) PROVE TypeOK'
  BY <1>4 DEF LxmfSendOpportunistic, lxmf_message, Letters
<1>5. ASSUME NEW n \in Nodes, NEW m \in Payloads, NEW l \in Links, LxmfSendDirect(n, m, l) PROVE TypeOK'
  <2>1. SessionOK'
    BY <1>5, <1>session, PhaseStep, EndFact DEF LxmfSendDirect
  <2>2. Letters(pending)' /\ Letters(bound)'
    BY <1>5 DEF LxmfSendDirect, Letters
  <2>3. used' \subseteq world.payloads
    BY <1>5 DEF LxmfSendDirect, lxmf_message
  <2> QED
    BY <1>5, <2>1, <2>2, <2>3 DEF LxmfSendDirect, SessionOK
<1>6. ASSUME NEW n \in Nodes, NEW l \in Links, EstablishLink(n, l) PROVE TypeOK'
  <2>1. SessionOK'
    BY <1>6, <1>session, PhaseStep, EndFact DEF EstablishLink
  <2> QED
    BY <1>6, <2>1 DEF EstablishLink, SessionOK, Letters
<1>7. ASSUME NEW n \in Nodes, NEW l \in Links, NEW m \in Payloads, LinkSend(n, l, m) PROVE TypeOK'
  <2>1. SessionOK'
    BY <1>7, <1>session, DataStep, EndFact DEF LinkSend
  <2> QED
    BY <1>7, <2>1 DEF LinkSend, SessionOK, Letters
<1>8. ASSUME NEW n \in Nodes, NEW l \in Links, CloseLink(n, l) PROVE TypeOK'
  <2>1. SessionOK'
    BY <1>8, <1>session, PhaseStep, EndFact DEF CloseLink
  <2> QED
    BY <1>8, <2>1 DEF CloseLink, SessionOK, Letters
<1>9. ASSUME NEW n \in Nodes, NEW l \in Links, handle_link_request(n, l) PROVE TypeOK'
  <2>1. SessionOK'
    BY <1>9, <1>session, PhaseStep, EndFact DEF handle_link_request
  <2> QED
    BY <1>9, <2>1 DEF handle_link_request, SessionOK, Letters
<1>10. ASSUME NEW n \in Nodes, NEW l \in Links, handle_link_proof(n, l) PROVE TypeOK'
  <2>1. SessionOK'
    BY <1>10, <1>session, PhaseStep, EndFact DEF handle_link_proof
  <2>2. queue' \in [Nodes -> Seq(Events)] /\ \A k \in Nodes : Len(queue'[k]) <= 1
    <3> HIDE DEF TypeOK
    <3> QED
      BY <1>10, RaiseFact, EventFact DEF handle_link_proof
  <2> QED
    BY <1>10, <2>1, <2>2 DEF handle_link_proof, SessionOK, Letters
<1>11. ASSUME NEW n \in Nodes, NEW l \in Links, NEW m \in Payloads, link_data(n, l, m) PROVE TypeOK'
  <2>1. SessionOK'
    BY <1>11, <1>session, DataStep, EndFact DEF link_data
  <2>2. queue' \in [Nodes -> Seq(Events)] /\ \A k \in Nodes : Len(queue'[k]) <= 1
    <3> HIDE DEF TypeOK
    <3> QED
      BY <1>11, RaiseFact, EventFact DEF link_data
  <2> QED
    BY <1>11, <2>1, <2>2 DEF link_data, SessionOK, Letters
<1>12. ASSUME NEW n \in Nodes, NEW p \in air, handle_data(n, p) PROVE TypeOK'
  <2>1. p.of \in Payloads
    BY <1>12 DEF AirFits, handle_data
  <2>2. queue' \in [Nodes -> Seq(Events)] /\ \A k \in Nodes : Len(queue'[k]) <= 1
    <3> HIDE DEF TypeOK
    <3> QED
      BY <1>12, <2>1, RaiseFact, EventFact DEF handle_data
  <2> QED
    BY <1>12, <2>2 DEF handle_data, Letters
<1>13. ASSUME NEW n \in Nodes, emit_node_events(n) PROVE TypeOK'
  <2> DEFINE v == Head(queue[n])
  <2>1. v \in Events /\ queue' \in [Nodes -> Seq(Events)] /\ \A k \in Nodes : Len(queue'[k]) <= 1
    <3> HIDE DEF TypeOK
    <3> QED
      BY <1>13, PopFact
  <2>2. log' \in [Nodes -> Seq(Events)]
    <3>1. log' = [log EXCEPT ![n] = Record(log[n], Surfaced(n, v))]
      BY <1>13 DEF emit_node_events
    <3>2. Surfaced(n, v) \in Events
      BY <2>1, SurfaceFact
    <3>3. Record(log[n], Surfaced(n, v)) \in Seq(Events)
      BY <3>2, SeqFact DEF Record
    <3> QED
      BY <3>1, <3>3
  <2>3. known' \in [Nodes -> SUBSET Nodes]
    <3>1. CASE known' = known
      BY <3>1
    <3>2. CASE v.kind = "Announce" /\ remember_source(n, v.of)
      BY <3>2 DEF remember_source
    <3> QED
      BY <1>13, <3>1, <3>2 DEF emit_node_events
  <2>4. SessionOK' /\ Letters(pending)'
    <3>1. CASE UNCHANGED <<sessionVars, pending>>
      BY <1>session, <3>1 DEF SessionOK, Letters
    <3>2. CASE /\ v.of \in DOMAIN pending /\ pending' = Without(pending, {v.of})
               /\ send(v.of, "initiator", pending[v.of])
      <4>1. v.of \in Links /\ pending[v.of] \in Payloads
        BY <3>2 DEF Letters
      <4>2. SessionOK'
        BY <1>session, <3>2, <4>1, DataStep, EndFact
      <4>3. Letters(pending)'
        BY <3>2 DEF Letters, Without
      <4> QED
        BY <4>2, <4>3
    <3> QED
      BY <1>13, <3>1, <3>2 DEF emit_node_events
  <2>5. UNCHANGED <<paths, ledger>>
    BY <1>13 DEF emit_node_events
  <2> QED
    BY <2>1, <2>2, <2>3, <2>4, <2>5 DEF SessionOK, Letters
<1>14. ASSUME NEW n \in Nodes, Crash(n) PROVE TypeOK'
  <2>1. SessionOK'
    <3>1. CASE UNCHANGED sessionVars
      BY <1>session, <3>1 DEF SessionOK
    <3>2. ASSUME NEW D \in SUBSET (Links \X End), crash(D) PROVE SessionOK'
      BY <1>session, <3>2 DEF SessionOK, crash, Phase
    <3> QED
      BY <1>14, <3>1, <3>2 DEF Crash
  <2>2. Letters(pending)'
    BY <1>14 DEF Crash, Letters, Without
  <2>3. paths' \in [Nodes -> SUBSET Nodes] /\ known' \in [Nodes -> SUBSET Nodes]
    BY <1>14 DEF Crash
  <2>4. /\ queue' \in [Nodes -> Seq(Events)] /\ \A k \in Nodes : Len(queue'[k]) <= 1
        /\ log' \in [Nodes -> Seq(Events)]
    <3>1. <<>> \in Seq(Events) /\ Len(<<>>) = 0
      OBVIOUS
    <3> QED
      BY <1>14, <3>1 DEF Crash
  <2>5. UNCHANGED <<bound, used, world>>
    BY <1>14 DEF Crash
  <2> QED
    BY <2>1, <2>2, <2>3, <2>4, <2>5 DEF SessionOK, Letters
<1>15. CASE UNCHANGED vars
  BY <1>15 DEF vars, Letters
<1> HIDE DEF TypeOK
<1> QED
  BY <1>1, <1>2, <1>3, <1>4, <1>5, <1>6, <1>7, <1>8, <1>9, <1>10, <1>11,
     <1>12, <1>13, <1>14, <1>15 DEF Next

(* What is sent into the air is an announce or a letter.                   *)
LEMMA AirStep == AirFits /\ [Next]_vars => AirFits'
<1> SUFFICES ASSUME AirFits, [Next]_vars PROVE AirFits'
  OBVIOUS
<1> USE DEF AirFits, local, ledger, sessionVars
<1>1. ASSUME NEW n \in Nodes, AnnounceAll(n) PROVE AirFits'
  BY <1>1 DEF AnnounceAll, Packet
<1>2. ASSUME NEW n \in Nodes, NEW p \in air, handle_announce(n, p) PROVE AirFits'
  BY <1>2 DEF handle_announce
<1>3. ASSUME NEW n \in Nodes, NEW s \in Nodes, prune(n, s) PROVE AirFits'
  BY <1>3 DEF prune
<1>4. ASSUME NEW n \in Nodes, NEW m \in Payloads, LxmfSendOpportunistic(n, m) PROVE AirFits'
  BY <1>4 DEF LxmfSendOpportunistic, lxmf_message, Packet
<1>5. ASSUME NEW n \in Nodes, NEW m \in Payloads, NEW l \in Links, LxmfSendDirect(n, m, l) PROVE AirFits'
  BY <1>5 DEF LxmfSendDirect
<1>6. ASSUME NEW n \in Nodes, NEW l \in Links, EstablishLink(n, l) PROVE AirFits'
  BY <1>6 DEF EstablishLink
<1>7. ASSUME NEW n \in Nodes, NEW l \in Links, NEW m \in Payloads, LinkSend(n, l, m) PROVE AirFits'
  BY <1>7 DEF LinkSend
<1>8. ASSUME NEW n \in Nodes, NEW l \in Links, CloseLink(n, l) PROVE AirFits'
  BY <1>8 DEF CloseLink
<1>9. ASSUME NEW n \in Nodes, NEW l \in Links, handle_link_request(n, l) PROVE AirFits'
  BY <1>9 DEF handle_link_request
<1>10. ASSUME NEW n \in Nodes, NEW l \in Links, handle_link_proof(n, l) PROVE AirFits'
  BY <1>10 DEF handle_link_proof
<1>11. ASSUME NEW n \in Nodes, NEW l \in Links, NEW m \in Payloads, link_data(n, l, m) PROVE AirFits'
  BY <1>11 DEF link_data
<1>12. ASSUME NEW n \in Nodes, NEW p \in air, handle_data(n, p) PROVE AirFits'
  BY <1>12 DEF handle_data
<1>13. ASSUME NEW n \in Nodes, emit_node_events(n) PROVE AirFits'
  BY <1>13 DEF emit_node_events
<1>14. ASSUME NEW n \in Nodes, Crash(n) PROVE AirFits'
  BY <1>14 DEF Crash
<1>15. CASE UNCHANGED vars
  BY <1>15 DEF vars
<1> HIDE DEF AirFits
<1> QED
  BY <1>1, <1>2, <1>3, <1>4, <1>5, <1>6, <1>7, <1>8, <1>9, <1>10, <1>11,
     <1>12, <1>13, <1>14, <1>15 DEF Next

---------------------------------------------------------------------------
(* The queues.                                                             *)

(* An event stays true as long as its driver is about it.                  *)
LEMMA KeptFits ==
  ASSUME TypeOK, NEW k \in Nodes, Fits(k), queue'[k] = queue[k], paths[k] \subseteq paths'[k],
         \A l \in Links : (Caller[l] = k /\ phase[l]["initiator"] = "Active") => phase'[l]["initiator"] = "Active"
  PROVE  Fits(k)'
<1> SUFFICES ASSUME NEW j \in DOMAIN queue[k]
             PROVE  /\ queue[k][j].kind # "LxmfMessage"
                    /\ queue[k][j].kind = "Announce" => queue[k][j].of \in paths'[k]
                    /\ queue[k][j].kind = "LinkEstablished" =>
                         Caller[queue[k][j].of] = k /\ phase'[queue[k][j].of]["initiator"] = "Active"
  BY DEF Fits
<1>1. queue[k][j] \in Events
  BY DEF TypeOK
<1>2. queue[k][j].kind = "LinkEstablished" => queue[k][j].of \in Links
  BY <1>1, EventFact
<1> QED
  BY <1>2 DEF Fits

LEMMA EmptyFits == ASSUME NEW k, queue'[k] = <<>> PROVE Fits(k)'
BY DEF Fits

(* A crash takes the initiator's end from the links of the node's own      *)
(* calls, and leaves that of the others.                                   *)
LEMMA CrashFact ==
  ASSUME TypeOK, NEW n \in Nodes, Crash(n)
  PROVE  /\ \A l \in Links : Caller[l] = n => phase'[l]["initiator"] = "Absent"
         /\ \A l \in Links : Caller[l] # n => phase'[l]["initiator"] = phase[l]["initiator"]
         /\ \A l \in Links : Requested(l) => Requested(l)'
<1> DEFINE lost == {d \in Links \X End : NodeAt(d[1], d[2]) = n /\ phase[d[1]][d[2]] # "Absent"}
<1>1. IF lost = {} THEN UNCHANGED sessionVars ELSE crash(lost)
  BY DEF Crash
<1>2. \A l \in Links : <<l, "initiator">> \in lost <=> (Caller[l] = n /\ phase[l]["initiator"] # "Absent")
  BY DEF NodeAt, End
<1> HIDE DEF lost
<1>3. CASE lost = {}
  BY <1>1, <1>2, <1>3 DEF sessionVars, Requested
<1>4. CASE lost # {}
  <2>1. \A l \in Links : phase'[l]["initiator"] = IF <<l, "initiator">> \in lost THEN "Absent" ELSE phase[l]["initiator"]
    <3>1. phase' = [l \in Links |-> [e \in End |-> IF <<l, e>> \in lost THEN "Absent" ELSE phase[l][e]]]
      BY <1>1, <1>4 DEF crash
    <3>2. "initiator" \in End
      BY DEF End
    <3> QED
      BY <3>1, <3>2
  <2>2. crashed' = crashed \cup {d[1] : d \in lost}
    BY <1>1, <1>4 DEF crash
  <2>3. \A l \in Links : <<l, "initiator">> \in lost => l \in crashed'
    BY <2>2
  <2> QED
    BY <1>2, <2>1, <2>2, <2>3 DEF Requested
<1> QED
  BY <1>3, <1>4

(* The event a handler raises is true.                                     *)
LEMMA RaisedFits ==
  ASSUME TypeOK, NEW n \in Nodes, AtSelect(n), NEW v \in Events, Raise(n, v), v.kind # "LxmfMessage",
         v.kind = "Announce" => v.of \in paths'[n],
         v.kind = "LinkEstablished" => Caller[v.of] = n /\ phase'[v.of]["initiator"] = "Active"
  PROVE  Fits(n)'
<1>1. \A j \in DOMAIN queue'[n] : queue'[n][j] = v
  BY RaiseFact
<1> QED
  BY <1>1 DEF Fits

(* Only the driver's own handlers and the end of its process could make an *)
(* event untrue, and these find no event waiting or drop it.               *)
LEMMA QueueStep == TypeOK /\ AirFits /\ QueueFits /\ [Next]_vars => QueueFits'
<1> SUFFICES ASSUME TypeOK, AirFits, QueueFits, [Next]_vars PROVE QueueFits'
  OBVIOUS
<1> USE DEF QueueFits, local, ledger, sessionVars
<1>1. ASSUME NEW n \in Nodes, AnnounceAll(n) PROVE QueueFits'
  BY <1>1, KeptFits DEF AnnounceAll
<1>2. ASSUME NEW n \in Nodes, NEW p \in air, handle_announce(n, p) PROVE QueueFits'
  <2>1. Fits(n)'
    <3>1. CASE UNCHANGED <<queue, paths, sessionVars>>
      BY <1>2, <3>1, EmptyFits DEF handle_announce, AtSelect
    <3>2. CASE Raise(n, Event("Announce", p.of)) /\ paths' = [paths EXCEPT ![n] = paths[n] \cup {p.of}]
      <4>1. p.of \in Nodes
        BY <1>2 DEF AirFits, handle_announce
      <4>2. Event("Announce", p.of) \in Events /\ p.of \in paths'[n]
        BY <3>2, <4>1, EventFact DEF TypeOK
      <4> QED
        BY <1>2, <3>2, <4>2, RaisedFits, EventFact DEF handle_announce
    <3> QED
      BY <1>2, <3>1, <3>2 DEF handle_announce
  <2>2. ASSUME NEW k \in Nodes \ {n} PROVE Fits(k)'
    <3>1. queue'[k] = queue[k] /\ paths[k] \subseteq paths'[k]
      BY <1>2 DEF handle_announce, TypeOK, Raise
    <3>2. \A l0 \in Links : (Caller[l0] = k /\ phase[l0]["initiator"] = "Active") => phase'[l0]["initiator"] = "Active"
      BY <1>2 DEF handle_announce
    <3> QED
      BY <3>1, <3>2, KeptFits
  <2> QED
    BY <2>1, <2>2
<1>3. ASSUME NEW n \in Nodes, NEW s \in Nodes, prune(n, s) PROVE QueueFits'
  <2>1. Fits(n)'
    BY <1>3, EmptyFits DEF prune, AtSelect
  <2>2. ASSUME NEW k \in Nodes \ {n} PROVE Fits(k)'
    <3>1. queue'[k] = queue[k] /\ paths[k] \subseteq paths'[k]
      BY <1>3 DEF prune, TypeOK
    <3>2. \A l0 \in Links : (Caller[l0] = k /\ phase[l0]["initiator"] = "Active") => phase'[l0]["initiator"] = "Active"
      BY <1>3 DEF prune
    <3> QED
      BY <3>1, <3>2, KeptFits
  <2> QED
    BY <2>1, <2>2
<1>4. ASSUME NEW n \in Nodes, NEW m \in Payloads, LxmfSendOpportunistic(n, m) PROVE QueueFits'
  BY <1>4, KeptFits DEF LxmfSendOpportunistic
<1>5. ASSUME NEW n \in Nodes, NEW m \in Payloads, NEW l \in Links, LxmfSendDirect(n, m, l) PROVE QueueFits'
  <2>1. Fits(n)'
    BY <1>5, EmptyFits DEF LxmfSendDirect, AtSelect
  <2>2. ASSUME NEW k \in Nodes \ {n} PROVE Fits(k)'
    <3>1. queue'[k] = queue[k] /\ paths[k] \subseteq paths'[k]
      BY <1>5 DEF LxmfSendDirect
    <3>2. \A l0 \in Links : (Caller[l0] = k /\ phase[l0]["initiator"] = "Active") => phase'[l0]["initiator"] = "Active"
      BY <1>5 DEF LxmfSendDirect, request, Requested, Enter, TypeOK, End
    <3> QED
      BY <3>1, <3>2, KeptFits
  <2> QED
    BY <2>1, <2>2
<1>6. ASSUME NEW n \in Nodes, NEW l \in Links, EstablishLink(n, l) PROVE QueueFits'
  <2>1. Fits(n)'
    BY <1>6, EmptyFits DEF EstablishLink, AtSelect
  <2>2. ASSUME NEW k \in Nodes \ {n} PROVE Fits(k)'
    <3>1. queue'[k] = queue[k] /\ paths[k] \subseteq paths'[k]
      BY <1>6 DEF EstablishLink
    <3>2. \A l0 \in Links : (Caller[l0] = k /\ phase[l0]["initiator"] = "Active") => phase'[l0]["initiator"] = "Active"
      BY <1>6 DEF EstablishLink, request, Requested, Enter, TypeOK, End
    <3> QED
      BY <3>1, <3>2, KeptFits
  <2> QED
    BY <2>1, <2>2
<1>7. ASSUME NEW n \in Nodes, NEW l \in Links, NEW m \in Payloads, LinkSend(n, l, m) PROVE QueueFits'
  BY <1>7, KeptFits DEF LinkSend, send
<1>8. ASSUME NEW n \in Nodes, NEW l \in Links, CloseLink(n, l) PROVE QueueFits'
  <2>1. Fits(n)'
    BY <1>8, EmptyFits DEF CloseLink, AtSelect
  <2>2. ASSUME NEW k \in Nodes \ {n} PROVE Fits(k)'
    <3>1. queue'[k] = queue[k] /\ paths[k] \subseteq paths'[k]
      BY <1>8 DEF CloseLink
    <3>2. \A l0 \in Links : (Caller[l0] = k /\ phase[l0]["initiator"] = "Active") => phase'[l0]["initiator"] = "Active"
      BY <1>8 DEF CloseLink, close, Enter, EndOf, LinksOf, TypeOK, End
    <3> QED
      BY <3>1, <3>2, KeptFits
  <2> QED
    BY <2>1, <2>2
<1>9. ASSUME NEW n \in Nodes, NEW l \in Links, handle_link_request(n, l) PROVE QueueFits'
  <2>1. Fits(n)'
    BY <1>9, EmptyFits DEF handle_link_request, AtSelect
  <2>2. ASSUME NEW k \in Nodes \ {n} PROVE Fits(k)'
    <3>1. queue'[k] = queue[k] /\ paths[k] \subseteq paths'[k]
      BY <1>9 DEF handle_link_request
    <3>2. \A l0 \in Links : (Caller[l0] = k /\ phase[l0]["initiator"] = "Active") => phase'[l0]["initiator"] = "Active"
      BY <1>9 DEF handle_link_request, accept, Enter, TypeOK, End
    <3> QED
      BY <3>1, <3>2, KeptFits
  <2> QED
    BY <2>1, <2>2
<1>10. ASSUME NEW n \in Nodes, NEW l \in Links, handle_link_proof(n, l) PROVE QueueFits'
  <2>1. Fits(n)'
    <3>1. Event("LinkEstablished", l) \in Events /\ phase'[l]["initiator"] = "Active"
      BY <1>10, EventFact DEF handle_link_proof, confirm, Enter, TypeOK, End
    <3> QED
      BY <1>10, <3>1, RaisedFits, EventFact DEF handle_link_proof
  <2>2. ASSUME NEW k \in Nodes \ {n} PROVE Fits(k)'
    <3>1. queue'[k] = queue[k] /\ paths[k] \subseteq paths'[k]
      BY <1>10 DEF handle_link_proof, TypeOK, Raise
    <3>2. \A l0 \in Links : (Caller[l0] = k /\ phase[l0]["initiator"] = "Active") => phase'[l0]["initiator"] = "Active"
      BY <1>10 DEF handle_link_proof, confirm, Enter, TypeOK, End
    <3> QED
      BY <3>1, <3>2, KeptFits
  <2> QED
    BY <2>1, <2>2
<1>11. ASSUME NEW n \in Nodes, NEW l \in Links, NEW m \in Payloads, link_data(n, l, m) PROVE QueueFits'
  <2>1. Fits(n)'
    <3>1. Event("LinkData", m) \in Events
      BY EventFact
    <3> QED
      BY <1>11, <3>1, RaisedFits, EventFact DEF link_data
  <2>2. ASSUME NEW k \in Nodes \ {n} PROVE Fits(k)'
    <3>1. queue'[k] = queue[k] /\ paths[k] \subseteq paths'[k]
      BY <1>11 DEF link_data, TypeOK, Raise
    <3>2. \A l0 \in Links : (Caller[l0] = k /\ phase[l0]["initiator"] = "Active") => phase'[l0]["initiator"] = "Active"
      BY <1>11 DEF link_data, deliver
    <3> QED
      BY <3>1, <3>2, KeptFits
  <2> QED
    BY <2>1, <2>2
<1>12. ASSUME NEW n \in Nodes, NEW p \in air, handle_data(n, p) PROVE QueueFits'
  <2>1. Fits(n)'
    <3>1. Event("Message", p.of) \in Events
      BY <1>12, EventFact DEF handle_data, AirFits
    <3> QED
      BY <1>12, <3>1, RaisedFits, EventFact DEF handle_data
  <2>2. ASSUME NEW k \in Nodes \ {n} PROVE Fits(k)'
    <3>1. queue'[k] = queue[k] /\ paths[k] \subseteq paths'[k]
      BY <1>12 DEF handle_data, TypeOK, Raise
    <3>2. \A l0 \in Links : (Caller[l0] = k /\ phase[l0]["initiator"] = "Active") => phase'[l0]["initiator"] = "Active"
      BY <1>12 DEF handle_data
    <3> QED
      BY <3>1, <3>2, KeptFits
  <2> QED
    BY <2>1, <2>2
<1>13. ASSUME NEW n \in Nodes, emit_node_events(n) PROVE QueueFits'
  <2>1. Fits(n)'
    BY <1>13, EmptyFits, PopFact
  <2>2. ASSUME NEW k \in Nodes \ {n} PROVE Fits(k)'
    <3>1. queue'[k] = queue[k] /\ paths[k] \subseteq paths'[k]
      BY <1>13, PopFact DEF emit_node_events
    <3>2. \A l0 \in Links : (Caller[l0] = k /\ phase[l0]["initiator"] = "Active") => phase'[l0]["initiator"] = "Active"
      BY <1>13 DEF emit_node_events, send
    <3> QED
      BY <3>1, <3>2, KeptFits
  <2> QED
    BY <2>1, <2>2
<1>14. ASSUME NEW n \in Nodes, Crash(n) PROVE QueueFits'
  <2>1. Fits(n)'
    BY <1>14, EmptyFits DEF Crash, TypeOK
  <2>2. ASSUME NEW k \in Nodes \ {n} PROVE Fits(k)'
    <3>1. queue'[k] = queue[k] /\ paths[k] \subseteq paths'[k]
      BY <1>14 DEF Crash, TypeOK
    <3>2. \A l0 \in Links : (Caller[l0] = k /\ phase[l0]["initiator"] = "Active") => phase'[l0]["initiator"] = "Active"
      BY <1>14, CrashFact
    <3> QED
      BY <3>1, <3>2, KeptFits
  <2> QED
    BY <2>1, <2>2
<1>15. CASE UNCHANGED vars
  BY <1>15, KeptFits DEF vars
<1> HIDE DEF QueueFits
<1> QED
  BY <1>1, <1>2, <1>3, <1>4, <1>5, <1>6, <1>7, <1>8, <1>9, <1>10, <1>11,
     <1>12, <1>13, <1>14, <1>15 DEF Next

---------------------------------------------------------------------------
(* The fate of a letter.                                                   *)

(* Steps that neither accept nor send a letter.                            *)
LEMMA FateFrame ==
  ASSUME TypeOK, Fate, UNCHANGED <<sent, pending, bound>>, used \subseteq used',
         \A l \in DOMAIN bound : Requested(l)',
         \A l \in DOMAIN bound : phase'[l]["initiator"] # "Absent" => phase[l]["initiator"] # "Absent",
         \A l \in DOMAIN pending : phase'[l]["initiator"] = "Active" =>
                                     queue'[Caller[l]] = <<Event("LinkEstablished", l)>>
  PROVE  Fate'
<1>1. OneFate'
  BY DEF Fate, OneFate
<1>2. BoundOnce' /\ SentUsed' /\ PendingBound'
  BY DEF Fate, BoundOnce, SentUsed, PendingBound
<1> QED
  BY <1>1, <1>2 DEF Fate

(* A handler of a driver finds no letter of its node waiting for an open   *)
(* link.                                                                   *)
LEMMA NoneWaits ==
  ASSUME Fate, NEW n, AtSelect(n), NEW l \in DOMAIN pending, Caller[l] = n
  PROVE  phase[l]["initiator"] # "Active"
<1>1. <<>> # <<Event("LinkEstablished", l)>>
  OBVIOUS
<1> QED
  BY <1>1 DEF Fate, OneFate, PendingBound, AtSelect

(* A letter leaves pending_direct only to be sent on its link, or with its *)
(* process; and its link opens only together with the event that sends it. *)
LEMMA FateStep == TypeOK /\ Fate /\ [Next]_vars => Fate'
<1> SUFFICES ASSUME TypeOK, Fate, [Next]_vars PROVE Fate'
  OBVIOUS
<1> USE DEF local, ledger, sessionVars
<1>pending. \A l \in DOMAIN pending : l \in Links /\ l \in DOMAIN bound /\ pending[l] = bound[l]
  BY DEF TypeOK, Letters, Fate, PendingBound
<1>bound. \A l \in DOMAIN bound : l \in Links /\ bound[l] \in used /\ Requested(l)
  BY DEF TypeOK, Letters, Fate, BoundOnce
<1>1. ASSUME NEW n \in Nodes, AnnounceAll(n) PROVE Fate'
  <2>1. UNCHANGED <<sent, pending, bound>> /\ used \subseteq used'
    BY <1>1 DEF AnnounceAll
  <2>2. \A l0 \in DOMAIN bound : Requested(l0)'
    BY <1>1, <1>bound DEF AnnounceAll, Requested
  <2>3. \A l0 \in DOMAIN bound : phase'[l0]["initiator"] # "Absent" => phase[l0]["initiator"] # "Absent"
    BY <1>1, <1>bound DEF AnnounceAll
  <2>4. ASSUME NEW l0 \in DOMAIN pending, phase'[l0]["initiator"] = "Active"
        PROVE  queue'[Caller[l0]] = <<Event("LinkEstablished", l0)>>
    BY <1>1, <1>pending, <2>4 DEF AnnounceAll, Fate, OneFate
  <2> QED
    BY <2>1, <2>2, <2>3, <2>4, FateFrame
<1>2. ASSUME NEW n \in Nodes, NEW p \in air, handle_announce(n, p) PROVE Fate'
  <2>1. UNCHANGED <<sent, pending, bound>> /\ used \subseteq used'
    BY <1>2 DEF handle_announce
  <2>2. \A l0 \in DOMAIN bound : Requested(l0)'
    BY <1>2, <1>bound DEF handle_announce, Requested
  <2>3. \A l0 \in DOMAIN bound : phase'[l0]["initiator"] # "Absent" => phase[l0]["initiator"] # "Absent"
    BY <1>2, <1>bound DEF handle_announce
  <2>4. ASSUME NEW l0 \in DOMAIN pending, phase'[l0]["initiator"] = "Active"
        PROVE  queue'[Caller[l0]] = <<Event("LinkEstablished", l0)>>
    <3>1. Caller[l0] # n /\ phase[l0]["initiator"] = "Active"
      BY <1>2, <2>4, NoneWaits DEF handle_announce
    <3>2. queue'[Caller[l0]] = queue[Caller[l0]]
      BY <1>2, <1>pending, <3>1, LxmfAssumption DEF handle_announce, Raise, TypeOK
    <3> QED
      BY <1>pending, <3>1, <3>2 DEF Fate, OneFate
  <2> QED
    BY <2>1, <2>2, <2>3, <2>4, FateFrame
<1>3. ASSUME NEW n \in Nodes, NEW s \in Nodes, prune(n, s) PROVE Fate'
  <2>1. UNCHANGED <<sent, pending, bound>> /\ used \subseteq used'
    BY <1>3 DEF prune
  <2>2. \A l0 \in DOMAIN bound : Requested(l0)'
    BY <1>3, <1>bound DEF prune, Requested
  <2>3. \A l0 \in DOMAIN bound : phase'[l0]["initiator"] # "Absent" => phase[l0]["initiator"] # "Absent"
    BY <1>3, <1>bound DEF prune
  <2>4. ASSUME NEW l0 \in DOMAIN pending, phase'[l0]["initiator"] = "Active"
        PROVE  queue'[Caller[l0]] = <<Event("LinkEstablished", l0)>>
    BY <1>3, <1>pending, <2>4 DEF prune, Fate, OneFate
  <2> QED
    BY <2>1, <2>2, <2>3, <2>4, FateFrame
<1>4. ASSUME NEW n \in Nodes, NEW m \in Payloads, LxmfSendOpportunistic(n, m) PROVE Fate'
  <2>1. UNCHANGED <<sent, pending, bound>> /\ used \subseteq used'
    BY <1>4 DEF LxmfSendOpportunistic
  <2>2. \A l0 \in DOMAIN bound : Requested(l0)'
    BY <1>4, <1>bound DEF LxmfSendOpportunistic, Requested
  <2>3. \A l0 \in DOMAIN bound : phase'[l0]["initiator"] # "Absent" => phase[l0]["initiator"] # "Absent"
    BY <1>4, <1>bound DEF LxmfSendOpportunistic
  <2>4. ASSUME NEW l0 \in DOMAIN pending, phase'[l0]["initiator"] = "Active"
        PROVE  queue'[Caller[l0]] = <<Event("LinkEstablished", l0)>>
    BY <1>4, <1>pending, <2>4 DEF LxmfSendOpportunistic, Fate, OneFate
  <2> QED
    BY <2>1, <2>2, <2>3, <2>4, FateFrame
<1>5. ASSUME NEW n \in Nodes, NEW m \in Payloads, NEW l \in Links, LxmfSendDirect(n, m, l) PROVE Fate'
  <2>1. /\ l \notin DOMAIN bound /\ l \notin DOMAIN pending
        /\ \A k \in Links, e \in End : m \notin sent[k][e]
        /\ \A k \in DOMAIN bound : bound[k] # m
    BY <1>5, <1>bound, <1>pending DEF LxmfSendDirect, lxmf_message, request, Fate, SentUsed
  <2>2. UNCHANGED <<sent, crashed, queue>> /\ used' = used \cup {m}
    BY <1>5 DEF LxmfSendDirect, request
  <2>3. /\ phase'[l]["initiator"] = "Pending"
        /\ \A k \in Links \ {l} : phase'[k]["initiator"] = phase[k]["initiator"]
    BY <1>5 DEF LxmfSendDirect, request, Enter, TypeOK, End
  <2>4. /\ DOMAIN pending' = DOMAIN pending \cup {l} /\ pending'[l] = m
        /\ \A k \in DOMAIN pending : pending'[k] = pending[k]
        /\ DOMAIN bound' = DOMAIN bound \cup {l} /\ bound'[l] = m
        /\ \A k \in DOMAIN bound : bound'[k] = bound[k]
    BY <1>5, <2>1 DEF LxmfSendDirect
  <2>5. OneFate'
    <3> SUFFICES ASSUME NEW k \in DOMAIN bound'
                 PROVE  /\ \A j \in Links, e \in End : bound'[k] \in sent[j][e] => <<j, e>> = <<k, "initiator">>
                        /\ phase'[k]["initiator"] # "Absent" =>
                             (k \in DOMAIN pending' /\ pending'[k] = bound'[k]) # (bound'[k] \in sent[k]["initiator"])
                        /\ k \in DOMAIN pending' /\ phase'[k]["initiator"] = "Active" =>
                             queue[Caller[k]] = <<Event("LinkEstablished", k)>>
      BY <2>2 DEF OneFate
    <3>1. CASE k = l
      BY <2>1, <2>3, <2>4, <3>1 DEF End
    <3>2. CASE k # l
      <4>1. /\ k \in DOMAIN bound /\ bound'[k] = bound[k] /\ phase'[k]["initiator"] = phase[k]["initiator"]
            /\ k \in DOMAIN pending' <=> k \in DOMAIN pending
            /\ k \in DOMAIN pending => pending'[k] = pending[k]
        BY <1>bound, <2>3, <2>4, <3>2
      <4> QED
        BY <4>1 DEF Fate, OneFate
    <3> QED
      BY <3>1, <3>2
  <2>6. BoundOnce'
    <3>1. \A k \in DOMAIN bound' : bound'[k] \in used' /\ Requested(k)'
      BY <1>bound, <2>2, <2>3, <2>4 DEF Requested
    <3>2. \A j, k \in DOMAIN bound' : bound'[j] = bound'[k] => j = k
      BY <2>1, <2>4 DEF Fate, BoundOnce
    <3> QED
      BY <3>1, <3>2 DEF BoundOnce
  <2>7. SentUsed' /\ PendingBound'
    BY <1>pending, <2>2, <2>4 DEF Fate, SentUsed, PendingBound
  <2> QED
    BY <2>5, <2>6, <2>7 DEF Fate
<1>6. ASSUME NEW n \in Nodes, NEW l \in Links, EstablishLink(n, l) PROVE Fate'
  <2>1. UNCHANGED <<sent, pending, bound>> /\ used \subseteq used'
    BY <1>6 DEF request, accept, confirm, close, EstablishLink
  <2>2. \A l0 \in DOMAIN bound : Requested(l0)'
    BY <1>6, <1>bound DEF EstablishLink, Requested, request, Enter, TypeOK, End
  <2>3. \A l0 \in DOMAIN bound : phase'[l0]["initiator"] # "Absent" => phase[l0]["initiator"] # "Absent"
    BY <1>6, <1>bound DEF EstablishLink, request, Enter, TypeOK, End
  <2>4. ASSUME NEW l0 \in DOMAIN pending, phase'[l0]["initiator"] = "Active"
        PROVE  queue'[Caller[l0]] = <<Event("LinkEstablished", l0)>>
    BY <1>6, <1>pending, <1>bound, <2>4 DEF EstablishLink, request, Requested, Fate, OneFate, Enter, TypeOK, End
  <2> QED
    BY <2>1, <2>2, <2>3, <2>4, FateFrame
<1>7. ASSUME NEW n \in Nodes, NEW l \in Links, NEW m \in Payloads, LinkSend(n, l, m) PROVE Fate'
  <2>1. \A k \in DOMAIN bound : bound[k] # m
    BY <1>7, <1>bound DEF LinkSend
  <2>2. UNCHANGED <<phase, crashed, pending, bound, queue>> /\ used' = used \cup {m}
    BY <1>7 DEF LinkSend, send
  <2>3. \A k \in Links, e \in End : sent'[k][e] \subseteq sent[k][e] \cup {m} /\ sent[k][e] \subseteq sent'[k][e]
    BY <1>7, EndFact DEF LinkSend, send, TypeOK
  <2>4. \A j \in DOMAIN bound, k \in Links, e \in End : bound[j] \in sent'[k][e] <=> bound[j] \in sent[k][e]
    BY <2>1, <2>3
  <2>5. OneFate'
    BY <1>bound, <2>2, <2>4, EndFact DEF Fate, OneFate
  <2>6. SentUsed'
    BY <2>2, <2>3 DEF Fate, SentUsed
  <2>7. BoundOnce' /\ PendingBound'
    BY <2>2 DEF Fate, BoundOnce, PendingBound, Requested
  <2> QED
    BY <2>5, <2>6, <2>7 DEF Fate
<1>8. ASSUME NEW n \in Nodes, NEW l \in Links, CloseLink(n, l) PROVE Fate'
  <2>1. UNCHANGED <<sent, pending, bound>> /\ used \subseteq used'
    BY <1>8 DEF request, accept, confirm, close, CloseLink
  <2>2. \A l0 \in DOMAIN bound : Requested(l0)'
    BY <1>8, <1>bound DEF CloseLink, Requested, close, Enter, TypeOK, End
  <2>3. \A l0 \in DOMAIN bound : phase'[l0]["initiator"] # "Absent" => phase[l0]["initiator"] # "Absent"
    BY <1>8, <1>bound DEF CloseLink, close, Enter, TypeOK, End
  <2>4. ASSUME NEW l0 \in DOMAIN pending, phase'[l0]["initiator"] = "Active"
        PROVE  queue'[Caller[l0]] = <<Event("LinkEstablished", l0)>>
    <3>1. phase[l0]["initiator"] = "Active"
      BY <1>8, <1>pending, <2>4 DEF CloseLink, close, Enter, TypeOK, End
    <3>2. queue' = queue
      BY <1>8 DEF CloseLink
    <3> QED
      BY <1>pending, <3>1, <3>2 DEF Fate, OneFate
  <2> QED
    BY <2>1, <2>2, <2>3, <2>4, FateFrame
<1>9. ASSUME NEW n \in Nodes, NEW l \in Links, handle_link_request(n, l) PROVE Fate'
  <2>1. UNCHANGED <<sent, pending, bound>> /\ used \subseteq used'
    BY <1>9 DEF request, accept, confirm, close, handle_link_request
  <2>2. \A l0 \in DOMAIN bound : Requested(l0)'
    BY <1>9, <1>bound DEF handle_link_request, Requested, accept, Enter, TypeOK, End
  <2>3. \A l0 \in DOMAIN bound : phase'[l0]["initiator"] # "Absent" => phase[l0]["initiator"] # "Absent"
    BY <1>9, <1>bound DEF handle_link_request, accept, Enter, TypeOK, End
  <2>4. ASSUME NEW l0 \in DOMAIN pending, phase'[l0]["initiator"] = "Active"
        PROVE  queue'[Caller[l0]] = <<Event("LinkEstablished", l0)>>
    <3>1. phase[l0]["initiator"] = "Active"
      BY <1>9, <1>pending, <2>4 DEF handle_link_request, accept, Enter, TypeOK, End
    <3>2. queue' = queue
      BY <1>9 DEF handle_link_request
    <3> QED
      BY <1>pending, <3>1, <3>2 DEF Fate, OneFate
  <2> QED
    BY <2>1, <2>2, <2>3, <2>4, FateFrame
<1>10. ASSUME NEW n \in Nodes, NEW l \in Links, handle_link_proof(n, l) PROVE Fate'
  <2>1. UNCHANGED <<sent, pending, bound>> /\ used \subseteq used'
    BY <1>10 DEF request, accept, confirm, close, handle_link_proof
  <2>2. \A l0 \in DOMAIN bound : Requested(l0)'
    BY <1>10, <1>bound DEF handle_link_proof, Requested, confirm, Enter, TypeOK, End
  <2>3. \A l0 \in DOMAIN bound : phase'[l0]["initiator"] # "Absent" => phase[l0]["initiator"] # "Absent"
    BY <1>10, <1>bound DEF handle_link_proof, confirm, Enter, TypeOK, End
  <2>4. ASSUME NEW l0 \in DOMAIN pending, phase'[l0]["initiator"] = "Active"
        PROVE  queue'[Caller[l0]] = <<Event("LinkEstablished", l0)>>
    <3>1. CASE l0 = l
      <4>1. Event("LinkEstablished", l) \in Events
        BY EventFact
      <4> QED
        BY <1>10, <3>1, <4>1, RaiseFact DEF handle_link_proof
    <3>2. CASE l0 # l
      <4>1. phase[l0]["initiator"] = "Active"
        BY <1>10, <1>pending, <2>4, <3>2 DEF handle_link_proof, confirm, Enter, TypeOK, End
      <4>2. Caller[l0] # n
        BY <1>10, <4>1, NoneWaits DEF handle_link_proof
      <4>3. queue'[Caller[l0]] = queue[Caller[l0]]
        BY <1>10, <1>pending, <4>2, LxmfAssumption DEF handle_link_proof, Raise, TypeOK
      <4> QED
        BY <1>pending, <4>1, <4>3 DEF Fate, OneFate
    <3> QED
      BY <3>1, <3>2
  <2> QED
    BY <2>1, <2>2, <2>3, <2>4, FateFrame
<1>11. ASSUME NEW n \in Nodes, NEW l \in Links, NEW m \in Payloads, link_data(n, l, m) PROVE Fate'
  <2>1. UNCHANGED <<sent, pending, bound>> /\ used \subseteq used'
    BY <1>11 DEF link_data, deliver
  <2>2. \A l0 \in DOMAIN bound : Requested(l0)'
    BY <1>11, <1>bound DEF link_data, Requested, deliver
  <2>3. \A l0 \in DOMAIN bound : phase'[l0]["initiator"] # "Absent" => phase[l0]["initiator"] # "Absent"
    BY <1>11, <1>bound DEF link_data, deliver
  <2>4. ASSUME NEW l0 \in DOMAIN pending, phase'[l0]["initiator"] = "Active"
        PROVE  queue'[Caller[l0]] = <<Event("LinkEstablished", l0)>>
    <3>1. Caller[l0] # n /\ phase[l0]["initiator"] = "Active"
      BY <1>11, <2>4, NoneWaits DEF link_data, deliver
    <3>2. queue'[Caller[l0]] = queue[Caller[l0]]
      BY <1>11, <1>pending, <3>1, LxmfAssumption DEF link_data, Raise, TypeOK
    <3> QED
      BY <1>pending, <3>1, <3>2 DEF Fate, OneFate
  <2> QED
    BY <2>1, <2>2, <2>3, <2>4, FateFrame
<1>12. ASSUME NEW n \in Nodes, NEW p \in air, handle_data(n, p) PROVE Fate'
  <2>1. UNCHANGED <<sent, pending, bound>> /\ used \subseteq used'
    BY <1>12 DEF handle_data
  <2>2. \A l0 \in DOMAIN bound : Requested(l0)'
    BY <1>12, <1>bound DEF handle_data, Requested
  <2>3. \A l0 \in DOMAIN bound : phase'[l0]["initiator"] # "Absent" => phase[l0]["initiator"] # "Absent"
    BY <1>12, <1>bound DEF handle_data
  <2>4. ASSUME NEW l0 \in DOMAIN pending, phase'[l0]["initiator"] = "Active"
        PROVE  queue'[Caller[l0]] = <<Event("LinkEstablished", l0)>>
    <3>1. Caller[l0] # n /\ phase[l0]["initiator"] = "Active"
      BY <1>12, <2>4, NoneWaits DEF handle_data
    <3>2. queue'[Caller[l0]] = queue[Caller[l0]]
      BY <1>12, <1>pending, <3>1, LxmfAssumption DEF handle_data, Raise, TypeOK
    <3> QED
      BY <1>pending, <3>1, <3>2 DEF Fate, OneFate
  <2> QED
    BY <2>1, <2>2, <2>3, <2>4, FateFrame
<1>13. ASSUME NEW n \in Nodes, emit_node_events(n) PROVE Fate'
  <2> DEFINE v == Head(queue[n])
  <2>1. CASE v.kind = "LinkEstablished" /\ v.of \in DOMAIN pending
    <3> DEFINE l == v.of
    <3>1. pending' = Without(pending, {l}) /\ send(l, "initiator", pending[l]) /\ UNCHANGED <<bound, used>>
      BY <1>13, <2>1 DEF emit_node_events
    <3>2. l \in Links /\ l \in DOMAIN bound /\ pending[l] = bound[l]
      BY <1>pending, <2>1
    <3>3. /\ DOMAIN pending' = DOMAIN pending \ {l}
          /\ \A k \in DOMAIN pending' : pending'[k] = pending[k]
      BY <3>1 DEF Without
    <3>4. UNCHANGED <<phase, crashed>> /\ sent' = [sent EXCEPT ![l]["initiator"] = sent[l]["initiator"] \cup {bound[l]}]
      BY <3>1, <3>2 DEF send
    <3>5. /\ bound[l] \in sent'[l]["initiator"]
          /\ \A k \in Links, e \in End : sent[k][e] \subseteq sent'[k][e]
          /\ \A k \in Links, e \in End : \A x \in sent'[k][e] :
               x \in sent[k][e] \/ (k = l /\ e = "initiator" /\ x = bound[l])
      <4>1. sent \in [Links -> [End -> SUBSET Payloads]] /\ "initiator" \in End
        BY DEF TypeOK, End
      <4>2. sent'[l]["initiator"] = sent[l]["initiator"] \cup {bound[l]}
        BY <3>2, <3>4, <4>1
      <4>3. \A k \in Links, e \in End : k # l \/ e # "initiator" => sent'[k][e] = sent[k][e]
        BY <3>2, <3>4, <4>1
      <4> QED
        BY <3>2, <4>2, <4>3
    <3>6. v \in Events /\ queue[n] = <<v>> /\ \A k \in Nodes \ {n} : queue'[k] = queue[k]
      BY <1>13, PopFact
    <3> HIDE DEF v
    <3>7. OneFate'
      <4> SUFFICES ASSUME NEW k \in DOMAIN bound
                   PROVE  /\ \A j \in Links, e \in End : bound[k] \in sent'[j][e] => <<j, e>> = <<k, "initiator">>
                          /\ phase[k]["initiator"] # "Absent" =>
                               (k \in DOMAIN pending' /\ pending'[k] = bound[k]) # (bound[k] \in sent'[k]["initiator"])
                          /\ k \in DOMAIN pending' /\ phase[k]["initiator"] = "Active" =>
                               queue'[Caller[k]] = <<Event("LinkEstablished", k)>>
        BY <3>1, <3>4 DEF OneFate
      <4>1. k # l => bound[k] # bound[l]
        BY <3>2 DEF Fate, BoundOnce
      <4>2. \A j \in Links, e \in End : bound[k] \in sent'[j][e] => <<j, e>> = <<k, "initiator">>
        BY <3>5, <4>1 DEF Fate, OneFate
      <4>3. phase[k]["initiator"] # "Absent" =>
              (k \in DOMAIN pending' /\ pending'[k] = bound[k]) # (bound[k] \in sent'[k]["initiator"])
        <5>1. CASE k = l
          BY <3>3, <3>5, <5>1
        <5>2. CASE k # l
          <6>1. bound[k] \in sent'[k]["initiator"] <=> bound[k] \in sent[k]["initiator"]
            BY <1>bound, <3>5, <5>2 DEF End
          <6>2. (k \in DOMAIN pending' /\ pending'[k] = bound[k]) <=> (k \in DOMAIN pending /\ pending[k] = bound[k])
            BY <3>3, <5>2
          <6> QED
            BY <6>1, <6>2 DEF Fate, OneFate
        <5> QED
          BY <5>1, <5>2
      <4>4. ASSUME k \in DOMAIN pending', phase[k]["initiator"] = "Active"
            PROVE  queue'[Caller[k]] = <<Event("LinkEstablished", k)>>
        <5>1. k # l /\ queue[Caller[k]] = <<Event("LinkEstablished", k)>>
          BY <3>3, <4>4 DEF Fate, OneFate
        <5>2. Caller[k] # n
          <6>1. ASSUME Caller[k] = n PROVE FALSE
            <7>1. v = Event("LinkEstablished", k)
              BY <3>6, <5>1, <6>1
            <7> QED
              BY <5>1, <7>1, EventFact
          <6> QED
            BY <6>1
        <5> QED
          BY <1>bound, <3>6, <5>1, <5>2, LxmfAssumption
      <4> QED
        BY <4>2, <4>3, <4>4
    <3>8. SentUsed'
      BY <1>bound, <3>1, <3>2, <3>5 DEF Fate, SentUsed
    <3>9. BoundOnce' /\ PendingBound'
      BY <3>1, <3>3, <3>4 DEF Fate, BoundOnce, PendingBound, Requested
    <3> QED
      BY <3>7, <3>8, <3>9 DEF Fate
  <2>2. CASE ~(v.kind = "LinkEstablished" /\ v.of \in DOMAIN pending)
    <3>1. UNCHANGED <<sessionVars, pending, bound, used>>
      BY <1>13, <2>2 DEF emit_node_events
    <3>2. v \in Events /\ queue[n] = <<v>> /\ \A k \in Nodes \ {n} : queue'[k] = queue[k]
      BY <1>13, PopFact
    <3> HIDE DEF v
    <3>3. ASSUME NEW k \in DOMAIN pending, phase'[k]["initiator"] = "Active"
          PROVE  queue'[Caller[k]] = <<Event("LinkEstablished", k)>>
      <4>1. queue[Caller[k]] = <<Event("LinkEstablished", k)>>
        BY <1>pending, <3>1, <3>3 DEF Fate, OneFate
      <4>2. ASSUME Caller[k] = n PROVE FALSE
        <5>1. v = Event("LinkEstablished", k)
          BY <3>2, <4>1, <4>2
        <5> QED
          BY <2>2, <5>1, EventFact
      <4> QED
        BY <1>pending, <3>2, <4>1, <4>2, LxmfAssumption
    <3> QED
      BY <1>bound, <3>1, <3>3, FateFrame DEF Requested
  <2> QED
    BY <2>1, <2>2
<1>14. ASSUME NEW n \in Nodes, Crash(n) PROVE Fate'
  <2>1. UNCHANGED <<sent, bound, used>>
    BY <1>14 DEF Crash, crash
  <2>2. /\ DOMAIN pending' = {k \in DOMAIN pending : Caller[k] # n}
        /\ \A k \in DOMAIN pending' : pending'[k] = pending[k]
    BY <1>14, <1>pending DEF Crash, Without
  <2>3. \A k \in Nodes \ {n} : queue'[k] = queue[k]
    BY <1>14 DEF Crash, TypeOK
  <2>4. /\ \A l \in Links : Caller[l] = n => phase'[l]["initiator"] = "Absent"
        /\ \A l \in Links : Caller[l] # n => phase'[l]["initiator"] = phase[l]["initiator"]
        /\ \A l \in Links : Requested(l) => Requested(l)'
    BY <1>14, CrashFact
  <2>5. OneFate'
    <3> SUFFICES ASSUME NEW k \in DOMAIN bound
                 PROVE  /\ \A j \in Links, e \in End : bound[k] \in sent[j][e] => <<j, e>> = <<k, "initiator">>
                        /\ phase'[k]["initiator"] # "Absent" =>
                             (k \in DOMAIN pending' /\ pending'[k] = bound[k]) # (bound[k] \in sent[k]["initiator"])
                        /\ k \in DOMAIN pending' /\ phase'[k]["initiator"] = "Active" =>
                             queue'[Caller[k]] = <<Event("LinkEstablished", k)>>
      BY <2>1 DEF OneFate
    <3>1. CASE Caller[k] = n
      BY <1>bound, <2>2, <2>4, <3>1 DEF Fate, OneFate
    <3>2. CASE Caller[k] # n
      <4>1. /\ phase'[k]["initiator"] = phase[k]["initiator"] /\ queue'[Caller[k]] = queue[Caller[k]]
            /\ k \in DOMAIN pending' <=> k \in DOMAIN pending
            /\ k \in DOMAIN pending => pending'[k] = pending[k]
        BY <1>bound, <2>2, <2>3, <2>4, <3>2, LxmfAssumption
      <4> QED
        BY <4>1 DEF Fate, OneFate
    <3> QED
      BY <3>1, <3>2
  <2>6. BoundOnce' /\ SentUsed' /\ PendingBound'
    BY <1>bound, <1>pending, <2>1, <2>2, <2>4 DEF Fate, BoundOnce, SentUsed, PendingBound
  <2> QED
    BY <2>5, <2>6 DEF Fate
<1>15. CASE UNCHANGED vars
  <2>1. UNCHANGED <<sent, pending, bound>> /\ used \subseteq used'
    BY <1>15 DEF vars
  <2>2. \A l0 \in DOMAIN bound : Requested(l0)'
    BY <1>15, <1>bound DEF vars, Requested
  <2>3. \A l0 \in DOMAIN bound : phase'[l0]["initiator"] # "Absent" => phase[l0]["initiator"] # "Absent"
    BY <1>15, <1>bound DEF vars
  <2>4. ASSUME NEW l0 \in DOMAIN pending, phase'[l0]["initiator"] = "Active"
        PROVE  queue'[Caller[l0]] = <<Event("LinkEstablished", l0)>>
    BY <1>15, <1>pending, <2>4 DEF vars, Fate, OneFate
  <2> QED
    BY <2>1, <2>2, <2>3, <2>4, FateFrame
<1> QED
  BY <1>1, <1>2, <1>3, <1>4, <1>5, <1>6, <1>7, <1>8, <1>9, <1>10, <1>11,
     <1>12, <1>13, <1>14, <1>15 DEF Next

---------------------------------------------------------------------------
(* Which letters are shown as such.                                        *)

(* What is neither filed nor told.                                         *)
LEMMA HeardFrame ==
  ASSUME Heard, UNCHANGED <<known, log>>
  PROVE  Heard'
<1>1. KnownHeard'
  BY DEF Heard, KnownHeard
<1>2. KnownByAnnounce'
  BY DEF Heard, KnownByAnnounce
<1> QED
  BY <1>1, <1>2 DEF Heard

(* The key of a source is filed in the round that tells the application of *)
(* its announce, and the path is still there in that round.                *)
LEMMA HeardStep == TypeOK /\ QueueFits /\ Heard /\ [Next]_vars => Heard'
<1> SUFFICES ASSUME TypeOK, QueueFits, Heard, [Next]_vars PROVE Heard'
  OBVIOUS
<1> USE DEF local, ledger, sessionVars
<1>1. ASSUME NEW n \in Nodes, AnnounceAll(n) PROVE Heard'
  <2>1. UNCHANGED <<known, log>>
    BY <1>1 DEF AnnounceAll
  <2> QED
    BY <2>1, HeardFrame
<1>2. ASSUME NEW n \in Nodes, NEW p \in air, handle_announce(n, p) PROVE Heard'
  <2>1. UNCHANGED <<known, log>>
    BY <1>2 DEF handle_announce
  <2> QED
    BY <2>1, HeardFrame
<1>3. ASSUME NEW n \in Nodes, NEW s \in Nodes, prune(n, s) PROVE Heard'
  <2>1. UNCHANGED <<known, log>>
    BY <1>3 DEF prune
  <2> QED
    BY <2>1, HeardFrame
<1>4. ASSUME NEW n \in Nodes, NEW m \in Payloads, LxmfSendOpportunistic(n, m) PROVE Heard'
  <2>1. UNCHANGED <<known, log>>
    BY <1>4 DEF LxmfSendOpportunistic
  <2> QED
    BY <2>1, HeardFrame
<1>5. ASSUME NEW n \in Nodes, NEW m \in Payloads, NEW l \in Links, LxmfSendDirect(n, m, l) PROVE Heard'
  <2>1. UNCHANGED <<known, log>>
    BY <1>5 DEF LxmfSendDirect
  <2> QED
    BY <2>1, HeardFrame
<1>6. ASSUME NEW n \in Nodes, NEW l \in Links, EstablishLink(n, l) PROVE Heard'
  <2>1. UNCHANGED <<known, log>>
    BY <1>6 DEF EstablishLink
  <2> QED
    BY <2>1, HeardFrame
<1>7. ASSUME NEW n \in Nodes, NEW l \in Links, NEW m \in Payloads, LinkSend(n, l, m) PROVE Heard'
  <2>1. UNCHANGED <<known, log>>
    BY <1>7 DEF LinkSend
  <2> QED
    BY <2>1, HeardFrame
<1>8. ASSUME NEW n \in Nodes, NEW l \in Links, CloseLink(n, l) PROVE Heard'
  <2>1. UNCHANGED <<known, log>>
    BY <1>8 DEF CloseLink
  <2> QED
    BY <2>1, HeardFrame
<1>9. ASSUME NEW n \in Nodes, NEW l \in Links, handle_link_request(n, l) PROVE Heard'
  <2>1. UNCHANGED <<known, log>>
    BY <1>9 DEF handle_link_request
  <2> QED
    BY <2>1, HeardFrame
<1>10. ASSUME NEW n \in Nodes, NEW l \in Links, handle_link_proof(n, l) PROVE Heard'
  <2>1. UNCHANGED <<known, log>>
    BY <1>10 DEF handle_link_proof
  <2> QED
    BY <2>1, HeardFrame
<1>11. ASSUME NEW n \in Nodes, NEW l \in Links, NEW m \in Payloads, link_data(n, l, m) PROVE Heard'
  <2>1. UNCHANGED <<known, log>>
    BY <1>11 DEF link_data
  <2> QED
    BY <2>1, HeardFrame
<1>12. ASSUME NEW n \in Nodes, NEW p \in air, handle_data(n, p) PROVE Heard'
  <2>1. UNCHANGED <<known, log>>
    BY <1>12 DEF handle_data
  <2> QED
    BY <2>1, HeardFrame
<1>13. ASSUME NEW n \in Nodes, emit_node_events(n) PROVE Heard'
  <2> DEFINE v == Head(queue[n])
             w == Surfaced(n, v)
             q == log[n]
  <2>1. v \in Events /\ queue[n][1] = v /\ 1 \in DOMAIN queue[n]
    BY <1>13, PopFact
  <2>2. /\ v.kind # "LxmfMessage"
        /\ v.kind = "Announce" => v.of \in paths[n]
    BY <2>1 DEF QueueFits, Fits
  <2>3. log' = [log EXCEPT ![n] = Record(q, w)]
    BY <1>13 DEF emit_node_events
  <2>4. /\ w \in Events
        /\ v.kind \in {"Announce", "LinkEstablished", "LxmfMessage"} => w = v
        /\ v.kind \in {"LinkData", "Message"} =>
              /\ w.of = v.of
              /\ w.kind \in {"LinkData", "Message", "LxmfMessage"}
              /\ (w.kind = "LxmfMessage") <=> unpack_for_local_destination(n, v.of)
    BY <2>1, SurfaceFact
  <2>5. /\ v.kind = "Announce" => known' = [known EXCEPT ![n] = known[n] \cup {v.of}]
        /\ v.kind # "Announce" => known' = known
    <3>1. v.kind = "Announce" => {v.of} \cap paths[n] = {v.of}
      BY <2>2
    <3> QED
      BY <1>13, <3>1 DEF emit_node_events, remember_source
  <2>6. q \in Seq(Events) /\ known \in [Nodes -> SUBSET Nodes] /\ log \in [Nodes -> Seq(Events)]
    BY DEF TypeOK
  <2>7. v = Event(v.kind, v.of) /\ v.kind \in {"Announce", "LinkEstablished", "LinkData", "Message"}
    BY <2>1, <2>2, EventFact
  <2> HIDE DEF v, w, q
  <2>8. CASE v.kind = "LinkEstablished"
    <3>1. w = v /\ Record(q, w) = q
      BY <2>4, <2>8 DEF Record
    <3>2. UNCHANGED <<log, known>>
      BY <2>3, <2>5, <2>6, <2>8, <3>1 DEF q
    <3> QED
      BY <3>2 DEF Heard, KnownHeard, KnownByAnnounce
  <2>9. CASE v.kind # "LinkEstablished"
    <3>1. w.kind # "LinkEstablished"
      BY <2>4, <2>7, <2>9
    <3>2. Record(q, w) = Append(q, w)
      BY <3>1 DEF Record
    <3>3. /\ Append(q, w) \in Seq(Events) /\ Len(q) \in Nat /\ Len(Append(q, w)) = Len(q) + 1
          /\ Append(q, w)[Len(q) + 1] = w
          /\ \A i \in 1 .. Len(q) : Append(q, w)[i] = q[i]
      BY <2>4, <2>6, SeqFact
    <3>4. log'[n] = Append(q, w) /\ \A k \in Nodes \ {n} : log'[k] = log[k] /\ known'[k] = known[k]
      BY <2>3, <2>5, <2>6, <3>2
    <3>5. \A s \in Nodes : Event("Announce", s) = w <=> (v.kind = "Announce" /\ s = v.of)
      <4>1. CASE v.kind = "Announce"
        <5>1. w = Event("Announce", v.of)
          BY <2>4, <2>7, <4>1
        <5> QED
          BY <4>1, <5>1, EventFact
      <4>2. CASE v.kind # "Announce"
        <5>1. w.kind # "Announce"
          BY <2>4, <2>7, <2>9, <4>2
        <5> QED
          BY <4>2, <5>1, EventFact
      <4> QED
        BY <4>1, <4>2
    <3>6. known[n] = {s \in Nodes : \E i \in 1 .. Len(q) : q[i] = Event("Announce", s)}
      BY DEF Heard, KnownHeard, q
    <3>7. known'[n] = {s \in Nodes : \E i \in 1 .. Len(q) + 1 : Append(q, w)[i] = Event("Announce", s)}
      <4>1. \A s \in Nodes : (\E i \in 1 .. Len(q) + 1 : Append(q, w)[i] = Event("Announce", s))
                               <=> ((\E i \in 1 .. Len(q) : q[i] = Event("Announce", s)) \/ w = Event("Announce", s))
        BY <3>3
      <4>2. known'[n] = known[n] \cup {s \in Nodes : v.kind = "Announce" /\ s = v.of}
        <5>1. v.kind = "Announce" => v.of \in Nodes
          BY <2>1, EventFact
        <5> QED
          BY <2>5, <2>6, <5>1
      <4> QED
        BY <3>5, <3>6, <4>1, <4>2
    <3>8. KnownHeard'
      <4>1. known'[n] = {s \in Nodes : \E i \in 1 .. Len(log'[n]) : log'[n][i] = Event("Announce", s)}
        BY <3>3, <3>4, <3>7
      <4>2. ASSUME NEW k \in Nodes \ {n}
            PROVE  known'[k] = {s \in Nodes : \E i \in 1 .. Len(log'[k]) : log'[k][i] = Event("Announce", s)}
        BY <3>4 DEF Heard, KnownHeard
      <4> QED
        BY <4>1, <4>2 DEF KnownHeard
    <3>9. KnownByAnnounce'
      <4> SUFFICES ASSUME NEW k \in Nodes, NEW j \in 1 .. Len(log'[k]),
                          log'[k][j].kind \in {"LinkData", "Message", "LxmfMessage"}
                   PROVE  (log'[k][j].kind = "LxmfMessage") <=>
                            /\ Dest[log'[k][j].of] = k
                            /\ \E i \in 1 .. j - 1 : log'[k][i] = Event("Announce", Source[log'[k][j].of])
        BY DEF KnownByAnnounce
      <4>1. CASE k # n
        <5>1. log'[k] = log[k]
          BY <3>4, <4>1
        <5>2. (log[k][j].kind = "LxmfMessage") <=>
                /\ Dest[log[k][j].of] = k
                /\ \E i \in 1 .. j - 1 : log[k][i] = Event("Announce", Source[log[k][j].of])
          BY <5>1 DEF Heard, KnownByAnnounce
        <5> QED
          BY <5>1, <5>2
      <4>2. CASE k = n /\ j \in 1 .. Len(q)
        <5>1. log'[k][j] = q[j] /\ \A i \in 1 .. j - 1 : log'[k][i] = q[i]
          <6>1. \A i \in 1 .. j - 1 : i \in 1 .. Len(q)
            BY <3>3, <4>2
          <6> QED
            BY <3>3, <3>4, <4>2, <6>1
        <5>2. (q[j].kind = "LxmfMessage") <=>
                (Dest[q[j].of] = n /\ \E i \in 1 .. j - 1 : q[i] = Event("Announce", Source[q[j].of]))
          BY <4>2, <5>1 DEF Heard, KnownByAnnounce, q
        <5> QED
          BY <4>2, <5>1, <5>2
      <4>3. CASE k = n /\ j = Len(q) + 1
        <5>1. log'[k][j] = w /\ j - 1 = Len(q) /\ \A i \in 1 .. j - 1 : log'[k][i] = q[i]
          BY <3>3, <3>4, <4>3
        <5>2. v.kind \in {"LinkData", "Message"} /\ w.of = v.of
          BY <2>4, <2>7, <2>9, <5>1
        <5>3. Source[v.of] \in Nodes
          BY <2>1, <5>2, EventFact, LxmfAssumption
        <5>4. (\E i \in 1 .. j - 1 : log'[k][i] = Event("Announce", Source[w.of])) <=> Source[v.of] \in known[n]
          BY <3>6, <5>1, <5>2, <5>3
        <5>5. unpack_for_local_destination(n, v.of) <=> (Dest[v.of] = n /\ Source[v.of] \in known[n])
          BY LxmfAssumption DEF unpack_for_local_destination, unpack
        <5> QED
          BY <2>4, <4>3, <5>1, <5>2, <5>4, <5>5
      <4> QED
        BY <3>3, <3>4, <4>1, <4>2, <4>3
    <3> QED
      BY <3>8, <3>9 DEF Heard
  <2> QED
    BY <2>8, <2>9
<1>14. ASSUME NEW n \in Nodes, Crash(n) PROVE Heard'
  <2>1. log'[n] = <<>> /\ known'[n] = {} /\ \A k \in Nodes \ {n} : log'[k] = log[k] /\ known'[k] = known[k]
    BY <1>14 DEF Crash, TypeOK
  <2>2. Len(<<>>) = 0 /\ 1 .. 0 = {}
    OBVIOUS
  <2>3. KnownHeard'
    BY <2>1, <2>2 DEF Heard, KnownHeard
  <2>4. KnownByAnnounce'
    BY <2>1, <2>2 DEF Heard, KnownByAnnounce
  <2> QED
    BY <2>3, <2>4 DEF Heard
<1>15. CASE UNCHANGED vars
  BY <1>15 DEF vars, Heard, KnownHeard, KnownByAnnounce
<1> QED
  BY <1>1, <1>2, <1>3, <1>4, <1>5, <1>6, <1>7, <1>8, <1>9, <1>10, <1>11,
     <1>12, <1>13, <1>14, <1>15 DEF Next

---------------------------------------------------------------------------
(* Init establishes the invariant.                                         *)
LEMMA InitFact == Init => LInv
<1> SUFFICES ASSUME Init PROVE LInv
  OBVIOUS
<1>1. <<>> \in Seq(Events) /\ <<>> \in Seq(Payloads) /\ Len(<<>>) = 0 /\ DOMAIN <<>> = {} /\ 1 .. 0 = {}
  OBVIOUS
<1>2. TypeOK
  <2>1. /\ phase \in [Links -> [End -> Phase]] /\ crashed \subseteq Links
        /\ sent \in [Links -> [End -> SUBSET Payloads]] /\ got \in [Links -> [End -> Seq(Payloads)]]
    BY <1>1 DEF Init, SessionInit, Phase
  <2>2. Letters(pending) /\ Letters(bound)
    BY DEF Init, Letters
  <2> QED
    BY <1>1, <2>1, <2>2 DEF Init, TypeOK
<1>3. AirFits /\ QueueFits
  BY <1>1 DEF Init, AirFits, QueueFits, Fits
<1>4. Fate
  BY DEF Init, SessionInit, Fate, OneFate, BoundOnce, SentUsed, PendingBound
<1>5. Heard
  BY <1>1 DEF Init, Heard, KnownHeard, KnownByAnnounce
<1> QED
  BY <1>2, <1>3, <1>4, <1>5 DEF LInv

(* The inductive invariant.                                                *)
THEOREM Invariance == Spec => []LInv
<1>1. LInv /\ [Next]_vars => LInv'
  BY TypeStep, AirStep, QueueStep, FateStep, HeardStep DEF LInv
<1> QED
  BY <1>1, InitFact, PTL DEF Spec

(* Type correctness of routers, drivers and sessions; a driver never has   *)
(* more than one event to work off.                                        *)
THEOREM TypeCorrect == Spec => []TypeOK
<1>1. LInv => TypeOK
  BY DEF LInv
<1> QED
  BY <1>1, Invariance, PTL

(* A letter that lxmf_send_direct accepted either waits in pending_direct  *)
(* under its own link or has been sent once, there, until its process ends.*)
THEOREM LettersHaveOneFate == Spec => []OneFate
<1>1. LInv => OneFate
  BY DEF LInv, Fate
<1> QED
  BY <1>1, Invariance, PTL

(* A letter is shown as an LxmfMessage exactly if the application was told *)
(* of an announce of its source before.                                    *)
THEOREM ShownIfAnnounced == Spec => []KnownByAnnounce
<1>1. LInv => KnownByAnnounce
  BY DEF LInv, Heard
<1> QED
  BY <1>1, Invariance, PTL

(* A letter that waits for a link is taken by it: send_direct does not fail *)
(* when emit_node_events comes to LinkEstablished.                         *)
THEOREM LettersAreTaken == Spec => []LinkTakesLetter
<1>1. LInv => LinkTakesLetter
  <2> SUFFICES ASSUME LInv, NEW n \in Nodes, queue[n] # <<>>,
                      Head(queue[n]).kind = "LinkEstablished", Head(queue[n]).of \in DOMAIN pending
               PROVE  /\ Caller[Head(queue[n]).of] = n
                      /\ phase[Head(queue[n]).of]["initiator"] = "Active"
                      /\ \A e \in End : pending[Head(queue[n]).of] \notin sent[Head(queue[n]).of][e]
    BY DEF LinkTakesLetter
  <2>1. queue[n] \in Seq(Events) /\ Len(queue[n]) <= 1
    BY DEF LInv, TypeOK
  <2>2. Head(queue[n]) = queue[n][1] /\ 1 \in DOMAIN queue[n]
    BY <2>1, OneFact
  <2>3. Caller[Head(queue[n]).of] = n /\ phase[Head(queue[n]).of]["initiator"] = "Active"
    BY <2>2 DEF LInv, QueueFits, Fits
  <2>4. ASSUME NEW l \in DOMAIN pending, phase[l]["initiator"] = "Active"
        PROVE  \A e \in End : pending[l] \notin sent[l][e]
    <3>1. l \in Links /\ l \in DOMAIN bound /\ pending[l] = bound[l]
      BY DEF LInv, TypeOK, Letters, Fate, PendingBound
    <3>2. bound[l] \notin sent[l]["initiator"]
      BY <2>4, <3>1 DEF LInv, Fate, OneFate
    <3>3. \A e \in End : bound[l] \in sent[l][e] => e = "initiator"
      BY <3>1 DEF LInv, Fate, OneFate
    <3> QED
      BY <3>1, <3>2, <3>3
  <2> QED
    BY <2>3, <2>4
<1> QED
  BY <1>1, Invariance, PTL
=============================================================================
