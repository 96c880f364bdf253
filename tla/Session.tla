------------------------------ MODULE Session ------------------------------
(***************************************************************************)
(* What a link promises to the layers above it, with no keys, timers or    *)
(* packets: module Link implements this specification, and module Lxmf is  *)
(* built on it.                                                            *)
(*                                                                         *)
(* A session is asked for once, by its initiator; the responder is Active  *)
(* first and the initiator after it; a closed end stays closed.  An end    *)
(* that has crashed has forgotten the session, and the responder may then  *)
(* be asked again by a copy of the old request.  A plaintext is delivered  *)
(* only to an Active end and only if the peer sent it; it is delivered     *)
(* once if the medium is exact, that is, if no copy of a packet outlives   *)
(* the receiver's memory of packet hashes, whoever crashes meanwhile.      *)
(***************************************************************************)
EXTENDS Sequences

CONSTANTS Links, Payloads

VARIABLES
  phase,     \* what each end of each session knows of it
  crashed,   \* the sessions one of whose ends has ever crashed
  sent,      \* what each end has sent on each session
  got,       \* what each end has been handed, in order
  exact      \* a property of the medium; it does not change

sessionVars == <<phase, crashed, sent, got, exact>>

End == {"initiator", "responder"}

Peer(e) == IF e = "initiator" THEN "responder" ELSE "initiator"

Phase == {"Absent", "Pending", "Active", "Closed"}

SessionInit ==
  /\ phase = [l \in Links |-> [e \in End |-> "Absent"]]
  /\ crashed = {}
  /\ sent = [l \in Links |-> [e \in End |-> {}]]
  /\ got = [l \in Links |-> [e \in End |-> <<>>]]
  /\ exact \in BOOLEAN

Requested(l) == phase[l]["initiator"] # "Absent" \/ l \in crashed

Accepted(l) == phase[l]["responder"] # "Absent" \/ l \in crashed

Handed(l, e) == {got[l][e][i] : i \in DOMAIN got[l][e]}

Enter(l, e, to) == phase' = [phase EXCEPT ![l][e] = to]

request(l) ==
  /\ ~Requested(l)
  /\ Enter(l, "initiator", "Pending")
  /\ UNCHANGED <<crashed, sent, got, exact>>

accept(l) ==
  /\ Requested(l)
  /\ phase[l]["responder"] = "Absent"
  /\ Enter(l, "responder", "Active")
  /\ UNCHANGED <<crashed, sent, got, exact>>

confirm(l) ==
  /\ phase[l]["initiator"] = "Pending"
  /\ Accepted(l)
  /\ Enter(l, "initiator", "Active")
  /\ UNCHANGED <<crashed, sent, got, exact>>

send(l, e, m) ==
  /\ phase[l][e] = "Active"
  /\ \A f \in End : m \notin sent[l][f]
  /\ sent' = [sent EXCEPT ![l][e] = @ \cup {m}]
  /\ UNCHANGED <<phase, crashed, got, exact>>

deliver(l, e, m) ==
  /\ phase[l][e] = "Active"
  /\ m \in sent[l][Peer(e)]
  /\ exact => m \notin Handed(l, e)
  /\ got' = [got EXCEPT ![l][e] = Append(@, m)]
  /\ UNCHANGED <<phase, crashed, sent, exact>>

close(l, e) ==
  /\ phase[l][e] \in {"Pending", "Active"}
  /\ Enter(l, e, "Closed")
  /\ UNCHANGED <<crashed, sent, got, exact>>

(* A process ends: the sessions it took part in lose one end each.         *)
crash(D) ==
  /\ D # {}
  /\ \A d \in D : phase[d[1]][d[2]] # "Absent"
  /\ phase' = [l \in Links |-> [e \in End |-> IF <<l, e>> \in D THEN "Absent" ELSE phase[l][e]]]
  /\ crashed' = crashed \cup {d[1] : d \in D}
  /\ UNCHANGED <<sent, got, exact>>

SessionNext ==
  \/ \E l \in Links : request(l) \/ accept(l) \/ confirm(l)
  \/ \E l \in Links, e \in End : close(l, e)
  \/ \E l \in Links, e \in End, m \in Payloads : send(l, e, m) \/ deliver(l, e, m)
  \/ \E D \in SUBSET (Links \X End) : crash(D)

SessionSpec == SessionInit /\ [][SessionNext]_sessionVars
===========================================================================
