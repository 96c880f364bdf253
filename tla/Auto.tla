-------------------------------- MODULE Auto --------------------------------
(***************************************************************************)
(* The AutoInterface of crates/reticulum-tokio/src/auto.rs on several      *)
(* hosts of a local network, inside the run_interface task of its driver:  *)
(* discovery by multicast announces and unicast answers, the peer table,   *)
(* and packets to and from the peers.                                      *)
(*                                                                         *)
(* A host is its link-local address; the numbers give the order of the     *)
(* peer table.  The token a host announces is a hash of its group and      *)
(* address, so it is the one its receiver computes exactly when the group  *)
(* is the receiver's.  The network loses, duplicates and reorders.         *)
(***************************************************************************)
EXTENDS Naturals

CONSTANTS
  Hosts,        \* addresses
  Group,        \* the group_id each host is configured with
  Networks,     \* networks: which host hears whose multicasts, itself included
  MaxRestarts   \* bound on the restarts of a process

ASSUME AutoAssumption ==
  /\ Hosts \subseteq Nat
  /\ DOMAIN Group = Hosts
  /\ Networks \subseteq SUBSET (Hosts \X Hosts)
  /\ MaxRestarts \in Nat

VARIABLES
  hears,     \* the network of this behaviour: who sends, who hears
  up,        \* the hosts whose interface task runs
  peers,     \* AutoInterface.peers
  air,       \* datagrams under way
  handed,    \* the hosts whose packets each driver was handed
  restarts   \* restarts so far

vars == <<hears, up, peers, air, handed, restarts>>

Datagram == [socket : {"discovery", "reverse", "data"}, from : Hosts, to : Hosts]

To(socket, from, to) == [socket |-> socket, from |-> from, to |-> to]

---------------------------------------------------------------------------
Init ==
  /\ hears \in Networks
  /\ up = Hosts
  /\ peers = [h \in Hosts |-> {}]
  /\ air = {}
  /\ handed = [h \in Hosts |-> {}]
  /\ restarts = 0

(* An error of a socket ends the interface: run_interface returns, and the *)
(* interface with its sockets and peers is dropped.                        *)
ends(h) == up' = up \ {h} /\ peers' = [peers EXCEPT ![h] = {}]

(* The announce timer; the send_to may fail.  (run_interface drops the     *)
(* recv_packet that waits to send when the driver has a packet to be sent: *)
(* then nothing is sent, which is no step.)                                *)
announce(h, sent) ==
  /\ h \in up
  /\ \/ /\ sent
        /\ LET heard == {x \in Hosts : <<h, x>> \in hears} IN
             air' = air \cup {To("discovery", h, b) : b \in heard}
        /\ UNCHANGED <<up, peers>>
     \/ ~sent /\ ends(h) /\ UNCHANGED air
  /\ UNCHANGED <<hears, handed, restarts>>

(* A recv_from of one of the three sockets fails.                          *)
recv_fails(h) ==
  /\ h \in up
  /\ ends(h)
  /\ UNCHANGED <<hears, air, handed, restarts>>

(* A socket of the host returns a datagram.                                *)
recv_from(h, d) == h \in up /\ d.to = h /\ d \in air

(* The network may deliver it again.                                       *)
Received(d) == {air, air \ {d}}

(* Mutants of discovered: a host takes its own announce for a peer's; and  *)
(* the token is not compared.                                              *)
discovered_self(h, source) == Group[source] = Group[h]

discovered_any(h, source) == source # h

(* The checks of process_discovery.                                        *)
discovered(h, source) == source # h /\ Group[source] = Group[h]

(* Mutant of process_discovery: only the peers that announce themselves    *)
(* are learned, nobody is answered.                                        *)
process_discovery_mute(h, d, answer) ==
  /\ recv_from(h, d) /\ d.socket # "data"
  /\ discovered(h, d.from)
  /\ peers' = [peers EXCEPT ![h] = @ \cup {d.from}]
  /\ air' \in Received(d)
  /\ UNCHANGED <<hears, up, handed, restarts>>

(* A datagram on a discovery socket.  A peer that was heard by multicast   *)
(* is answered, on its reverse_discovery socket; an answer is not.  The    *)
(* peer is in the table before the answer is sent, and run_interface may   *)
(* drop the recv_packet in between: then it is not answered.  And the      *)
(* answer may fail, which ends the interface.                              *)
process_discovery(h, d, answer) ==
  /\ recv_from(h, d) /\ d.socket # "data"
  /\ discovered(h, d.from)
  /\ \/ answer # "fails" /\ peers' = [peers EXCEPT ![h] = @ \cup {d.from}] /\ UNCHANGED up
     \/ answer = "fails" /\ d.socket = "discovery" /\ ends(h)
  /\ \E rest \in Received(d) :
       air' = IF d.socket = "discovery" /\ answer = "sent"
              THEN rest \cup {To("reverse", h, d.from)} ELSE rest
  /\ UNCHANGED <<hears, handed, restarts>>

(* A datagram on the data socket: only a peer's is handed to the driver.   *)
recv_packet(h, d) ==
  /\ recv_from(h, d) /\ d.socket = "data"
  /\ d.from \in peers[h]
  /\ handed' = [handed EXCEPT ![h] = @ \cup {d.from}]
  /\ air' \in Received(d)
  /\ UNCHANGED <<hears, up, peers, restarts>>

(* The driver sends a packet, to every peer; a send_to that fails ends the *)
(* interface, and the peers that come after it get nothing.  A packet      *)
(* longer than AUTO_HW_MTU is refused before any is sent, which ends the   *)
(* interface too (the node does not check what it is asked to send).       *)
send_packet(h) ==
  /\ h \in up
  /\ \/ /\ air' = air \cup {To("data", h, p) : p \in peers[h]}
        /\ UNCHANGED <<up, peers>>
     \/ /\ \/ UNCHANGED air
           \/ \E bad \in peers[h] :
                air' = air \cup {To("data", h, p) : p \in {q \in peers[h] : q < bad}}
        /\ ends(h)
  /\ UNCHANGED <<hears, handed, restarts>>

(* The process is started again.                                           *)
restart(h) ==
  /\ restarts < MaxRestarts
  /\ restarts' = restarts + 1
  /\ up' = up \cup {h}
  /\ peers' = [peers EXCEPT ![h] = {}]
  /\ handed' = [handed EXCEPT ![h] = {}]
  /\ UNCHANGED <<hears, air>>

(* The network loses a datagram, or its receiver ignores it: a stranger's  *)
(* announce, the host's own, a packet that is no peer's.                   *)
lose(d) ==
  /\ air' = air \ {d}
  /\ UNCHANGED <<hears, up, peers, handed, restarts>>

Next ==
  \/ \E h \in Hosts :
       \/ recv_fails(h) \/ send_packet(h) \/ restart(h)
       \/ \E sent \in BOOLEAN : announce(h, sent)
       \/ \E d \in air, answer \in {"sent", "dropped", "fails"} :
            process_discovery(h, d, answer)
       \/ \E d \in air : recv_packet(h, d)
  \/ \E d \in air : lose(d)

(* Pairs of hosts that should find each other.                             *)
Pairs == {p \in Hosts \X Hosts : p[1] # p[2] /\ Group[p[1]] = Group[p[2]]}

(* tokio polls the branches of a select in random order, so the timer and  *)
(* each socket get their turn; a send_to does not always meet with a       *)
(* packet to be sent, or with an error, while the interface goes on; and a *)
(* datagram that is sent again and again arrives.                          *)
Fairness ==
  \A p \in Pairs :
    /\ WF_vars(announce(p[1], TRUE))
    /\ SF_vars(process_discovery(p[2], To("discovery", p[1], p[2]), "sent"))
    /\ SF_vars(process_discovery(p[1], To("reverse", p[2], p[1]), "sent"))

Spec == Init /\ [][Next]_vars /\ Fairness

---------------------------------------------------------------------------
(* Types; no host is its own peer; and an interface that has ended has     *)
(* nothing left.                                                           *)
TypeOK ==
  /\ hears \in Networks
  /\ up \subseteq Hosts
  /\ peers \in [Hosts -> SUBSET Hosts] /\ handed \in [Hosts -> SUBSET Hosts]
  /\ \A h \in Hosts : h \notin peers[h]
  /\ \A h \in Hosts \ up : peers[h] = {}
  /\ air \subseteq Datagram
  /\ restarts \in 0 .. MaxRestarts

(* A driver is handed packets of its own group only, although hosts of     *)
(* other groups are on the network and their multicasts are heard, and     *)
(* although peers restart (the token check of process_discovery and the    *)
(* peer check of recv_packet).                                             *)
OwnGroup == \A h \in Hosts : \A s \in handed[h] \cup peers[h] : Group[s] = Group[h]

(* Two hosts of a group end up as each other's peers as soon as one of     *)
(* them can hear the other's multicasts: the answer makes up for the       *)
(* direction in which multicast does not work, and later announces for     *)
(* answers that are lost, or dropped with a recv_packet.                   *)
PeeringConverges ==
  \A p \in Pairs :
    (p \in hears /\ <>[]({p[1], p[2]} \subseteq up))
      => <>[](p[1] \in peers[p[2]] /\ p[2] \in peers[p[1]])
=============================================================================
