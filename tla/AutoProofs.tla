----------------------------- MODULE AutoProofs -----------------------------
(***************************************************************************)
(* Theorems about module Auto, for any hosts, groups and networks: type    *)
(* correctness, and that a driver is handed packets of its own group only. *)
(***************************************************************************)
EXTENDS Auto, TLAPS

(* A datagram that is sent between hosts.                                  *)
LEMMA ToFact ==
  ASSUME NEW s \in {"discovery", "reverse", "data"}, NEW a \in Hosts, NEW b \in Hosts
  PROVE  To(s, a, b) \in Datagram
BY DEF To, Datagram

(* Init establishes the type invariant.                                    *)
LEMMA TypeInit == Init => TypeOK
BY AutoAssumption DEF Init, TypeOK

(* Every step keeps it: a host that answers or takes an announce passed    *)
(* the checks of process_discovery, which leave out itself, and a host     *)
(* whose interface ended forgets its peers.                                *)
LEMMA TypeStep == TypeOK /\ [Next]_vars => TypeOK'
<1> SUFFICES ASSUME TypeOK, [Next]_vars PROVE TypeOK'
  OBVIOUS
<1> USE AutoAssumption
<1>air. ASSUME NEW d \in air PROVE d \in Datagram /\ d.from \in Hosts /\ d.to \in Hosts /\ Received(d) \subseteq SUBSET Datagram
  BY <1>air DEF TypeOK, Datagram, Received
<1>1. ASSUME NEW h \in Hosts, NEW sent \in BOOLEAN, announce(h, sent) PROVE TypeOK'
  <2>1. \A b \in Hosts : To("discovery", h, b) \in Datagram
    BY ToFact
  <2> QED
    BY <1>1, <2>1 DEF announce, ends, TypeOK
<1>2. ASSUME NEW h \in Hosts, send_packet(h) PROVE TypeOK'
  <2>1. \A b \in Hosts : To("data", h, b) \in Datagram
    BY ToFact
  <2>2. peers[h] \subseteq Hosts
    BY DEF TypeOK
  <2>3. air' \subseteq Datagram
    BY <1>2, <2>1, <2>2 DEF send_packet, TypeOK
  <2>4. CASE UNCHANGED <<up, peers>>
    BY <1>2, <2>3, <2>4 DEF send_packet, TypeOK
  <2>5. CASE up' = up \ {h} /\ peers' = [peers EXCEPT ![h] = {}]
    BY <1>2, <2>3, <2>5 DEF send_packet, TypeOK
  <2> QED
    BY <1>2, <2>4, <2>5 DEF send_packet, ends
<1>3. ASSUME NEW h \in Hosts, restart(h) PROVE TypeOK'
  BY <1>3 DEF restart, TypeOK
<1>4. ASSUME NEW h \in Hosts, NEW d \in air, NEW answer \in {"sent", "dropped", "fails"}, process_discovery(h, d, answer)
      PROVE  TypeOK'
  <2>1. /\ h \in up /\ d.from # h /\ UNCHANGED <<hears, handed, restarts>>
        /\ \/ peers' = [peers EXCEPT ![h] = @ \cup {d.from}] /\ up' = up
           \/ peers' = [peers EXCEPT ![h] = {}] /\ up' = up \ {h}
    BY <1>4 DEF process_discovery, recv_from, discovered, ends
  <2>2. air' \subseteq Datagram
    <3> PICK rest \in Received(d) : air' = IF d.socket = "discovery" /\ answer = "sent"
                                           THEN rest \cup {To("reverse", h, d.from)} ELSE rest
      BY <1>4 DEF process_discovery
    <3>1. To("reverse", h, d.from) \in Datagram
      BY <1>air, ToFact
    <3> QED
      BY <1>air, <3>1
  <2>3. peers' \in [Hosts -> SUBSET Hosts] /\ (\A x \in Hosts : x \notin peers'[x])
        /\ \A x \in Hosts \ up' : peers'[x] = {}
    BY <2>1, <1>air DEF TypeOK
  <2> QED
    BY <2>1, <2>2, <2>3 DEF TypeOK
<1>5. ASSUME NEW h \in Hosts, NEW d \in air, recv_packet(h, d) PROVE TypeOK'
  BY <1>5, <1>air DEF recv_packet, TypeOK
<1>6. ASSUME NEW d \in air, lose(d) PROVE TypeOK'
  BY <1>6 DEF lose, TypeOK
<1>7. ASSUME NEW h \in Hosts, recv_fails(h) PROVE TypeOK'
  BY <1>7 DEF recv_fails, ends, TypeOK
<1>8. CASE UNCHANGED vars
  BY <1>8 DEF vars, TypeOK
<1> QED
  BY <1>1, <1>2, <1>3, <1>4, <1>5, <1>6, <1>7, <1>8 DEF Next

(* Every step keeps foreign groups out.                                    *)
LEMMA GroupStep == TypeOK /\ OwnGroup /\ [Next]_vars => OwnGroup'
<1> SUFFICES ASSUME TypeOK, OwnGroup, [Next]_vars PROVE OwnGroup'
  OBVIOUS
<1> USE DEF OwnGroup, TypeOK
<1>1. ASSUME NEW h \in Hosts, NEW sent \in BOOLEAN, announce(h, sent) PROVE OwnGroup'
  BY <1>1 DEF announce, ends
<1>2. ASSUME NEW h \in Hosts, send_packet(h) PROVE OwnGroup'
  BY <1>2 DEF send_packet, ends
<1>3. ASSUME NEW h \in Hosts, restart(h) PROVE OwnGroup'
  BY <1>3 DEF restart
<1>4. ASSUME NEW h \in Hosts, NEW d \in air, NEW answer \in {"sent", "dropped", "fails"}, process_discovery(h, d, answer)
      PROVE  OwnGroup'
  <2>1. /\ Group[d.from] = Group[h] /\ handed' = handed
        /\ \/ peers' = [peers EXCEPT ![h] = @ \cup {d.from}]
           \/ peers' = [peers EXCEPT ![h] = {}]
    BY <1>4 DEF process_discovery, discovered, ends
  <2> QED
    BY <2>1
<1>5. ASSUME NEW h \in Hosts, NEW d \in air, recv_packet(h, d) PROVE OwnGroup'
  BY <1>5 DEF recv_packet
<1>6. ASSUME NEW d \in air, lose(d) PROVE OwnGroup'
  BY <1>6 DEF lose
<1>7. ASSUME NEW h \in Hosts, recv_fails(h) PROVE OwnGroup'
  BY <1>7 DEF recv_fails, ends
<1>8. CASE UNCHANGED vars
  BY <1>8 DEF vars
<1> QED
  BY <1>1, <1>2, <1>3, <1>4, <1>5, <1>6, <1>7, <1>8 DEF Next

(* The peer table and the datagrams under way keep their types; no host of *)
(* any network becomes its own peer, although it hears its own multicasts. *)
THEOREM TypeCorrect == Spec => []TypeOK
BY TypeInit, TypeStep, PTL DEF Spec

(* In every network and with any number of hosts and groups, a driver is   *)
(* handed packets of its own group only (process_discovery, recv_packet).  *)
THEOREM GroupsApart == Spec => []OwnGroup
<1>1. Init => OwnGroup
  BY DEF Init, OwnGroup
<1> QED
  BY <1>1, TypeInit, TypeStep, GroupStep, PTL DEF Spec
=============================================================================
