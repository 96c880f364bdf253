-------------------------------- MODULE Lxmf --------------------------------
(***************************************************************************)
(* LXMF messages on top of links, from the driver                          *)
(* (crates/reticulum-tokio/src/driver.rs) and the router                   *)
(* (crates/reticulum-lxmf/src/router.rs) of several nodes, composed with   *)
(* the sessions of module Session, which module Link implements.           *)
(*                                                                         *)
(* The driver of a node runs one handler at a time.  A handler lets the    *)
(* node act, which leaves some node events (queue), and emit_node_events   *)
(* then works these off one by one, awaiting room in the application's     *)
(* channel each time: the other nodes go on meanwhile, this one does not.  *)
(* Events the router does nothing with (LinkClosed, and LinkEstablished at *)
(* the responder) are only passed on and take no step of the model.        *)
(*                                                                         *)
(* A payload is a letter or other data: Dest is the node an LXMF message   *)
(* is addressed to, NoNode for bytes that do not unpack.  Letters are      *)
(* signed by the node that builds them and the router files a public key   *)
(* under the destination computed from it, so verify fails for none that   *)
(* gets there; the router of a driver asks for no stamp (stamp_cost).      *)
(***************************************************************************)
EXTENDS Session, FiniteSets, Naturals

CONSTANTS
  Nodes, NoNode,
  Caller, Callee,     \* the nodes at the initiator's and responder's end of each link
  Source, Dest,       \* of each payload
  Worlds              \* what happens in a behaviour; see below

(* A world bounds what the applications do: the payloads they hand in, the *)
(* links they open, the announces of each node and the process restarts.   *)
ASSUME LxmfAssumption ==
  /\ NoNode \notin Nodes
  /\ Caller \in [Links -> Nodes] /\ Callee \in [Links -> Nodes]
  /\ \A l \in Links : Caller[l] # Callee[l]
  /\ Source \in [Payloads -> Nodes] /\ Dest \in [Payloads -> Nodes \cup {NoNode}]
  /\ Worlds \subseteq [payloads : SUBSET Payloads, links : SUBSET Links,
                       announces : Nat, crashes : Nat]

VARIABLES
  paths,      \* the destinations each node has a path to
  known,      \* LxmfRouter.source_identities
  pending,    \* LxmfRuntime.pending_direct: the letter that waits for a link
  queue,      \* the node events each driver still has to work off
  log,        \* the announces and data each application was told of, since its
              \* process started
  air,        \* announces and opportunistic packets under way
  announces,  \* announces sent so far
  bound,      \* the link each accepted direct letter was given (never forgotten)
  used,       \* the payloads applications have handed in
  crashes,    \* process restarts so far
  world       \* the world this behaviour takes place in

local == <<paths, known, pending, queue, log>>
ledger == <<announces, bound, used, crashes, world>>
vars == <<sessionVars, local, air, ledger>>

NodeAt(l, e) == IF e = "initiator" THEN Caller[l] ELSE Callee[l]

EndOf(n, l) == IF n = Caller[l] THEN "initiator" ELSE "responder"

LinksOf(n) == {l \in Links : n \in {Caller[l], Callee[l]}}

(* Node events, and what the application is told: "of" is the payload, the *)
(* link, or the node that announces.                                       *)
Event(kind, x) == [kind |-> kind, of |-> x]

Packet(kind, to, x) == [kind |-> kind, to |-> to, of |-> x]

(* Mutant of AtSelect: the driver takes up the next packet or command while *)
(* events of the last one are still waiting for room.                      *)
AtSelectAnyway(n) == n \in Nodes

AtSelect(n) == queue[n] = <<>>

Raise(n, event) == queue' = [queue EXCEPT ![n] = Append(@, event)]

Without(f, S) == [x \in DOMAIN f \ S |-> f[x]]

---------------------------------------------------------------------------
(* enable_lxmf at every node.  No copy of a packet outlives seen_packets.  *)
Init ==
  /\ SessionInit /\ exact
  /\ paths = [n \in Nodes |-> {}]
  /\ known = [n \in Nodes |-> {}]
  /\ pending = [l \in {} |-> 0]
  /\ queue = [n \in Nodes |-> <<>>]
  /\ log = [n \in Nodes |-> <<>>]
  /\ air = {}
  /\ announces = [n \in Nodes |-> 0]
  /\ bound = [l \in {} |-> 0]
  /\ used = {}
  /\ crashes = 0
  /\ world \in Worlds

(* The AnnounceAll command.                                                *)
AnnounceAll(n) ==
  /\ AtSelect(n)
  /\ announces[n] < world.announces
  /\ announces' = [announces EXCEPT ![n] = @ + 1]
  /\ air' = air \cup {Packet("Announce", to, n) : to \in Nodes \ {n}}
  /\ UNCHANGED <<sessionVars, local, bound, used, crashes, world>>

(* An announce arrives.  It makes or replaces the path, and an event; or   *)
(* the path table prefers the path it has.                                 *)
handle_announce(n, p) ==
  /\ AtSelect(n)
  /\ p \in air /\ p.kind = "Announce" /\ p.to = n
  /\ air' = air \ {p}
  /\ \/ /\ paths' = [paths EXCEPT ![n] = @ \cup {p.of}]
        /\ Raise(n, Event("Announce", p.of))
     \/ /\ p.of \in paths[n]
        /\ UNCHANGED <<paths, queue>>
  /\ UNCHANGED <<sessionVars, known, pending, log, ledger>>

(* A path expires; what the router remembers does not.                     *)
prune(n, s) ==
  /\ AtSelect(n)
  /\ s \in paths[n]
  /\ paths' = [paths EXCEPT ![n] = @ \ {s}]
  /\ UNCHANGED <<sessionVars, known, pending, queue, log, air, ledger>>

---------------------------------------------------------------------------
(* The commands of the application.                                        *)

(* A letter that the application of this node writes.                      *)
lxmf_message(n, m) ==
  Source[m] = n /\ Dest[m] \in Nodes /\ m \in world.payloads \ used

(* LxmfSendOpportunistic: one packet towards the destination, or an error  *)
(* to the caller when there is no path.                                    *)
LxmfSendOpportunistic(n, m) ==
  /\ AtSelect(n)
  /\ lxmf_message(n, m) /\ Dest[m] \in paths[n]
  /\ used' = used \cup {m}
  /\ air' = air \cup {Packet("Message", Dest[m], m)}
  /\ UNCHANGED <<sessionVars, local, announces, bound, crashes, world>>

(* Mutant of LxmfSendDirect: the letter waits under the last link that was *)
(* opened to its destination.                                              *)
LxmfSendDirect_by_dest(n, m, l) ==
  /\ AtSelect(n)
  /\ lxmf_message(n, m) /\ Dest[m] \in paths[n]
  /\ l \in world.links /\ Caller[l] = n /\ Callee[l] = Dest[m]
  /\ request(l)
  /\ LET at == CHOOSE k \in Links : Callee[k] = Dest[m] /\ Caller[k] = n
     IN pending' = [k \in DOMAIN pending \cup {at} |-> IF k = at THEN m ELSE pending[k]]
  /\ bound' = [k \in DOMAIN bound \cup {l} |-> IF k = l THEN m ELSE bound[k]]
  /\ used' = used \cup {m}
  /\ UNCHANGED <<paths, known, queue, log, air, announces, crashes, world>>

(* LxmfSendDirect: establish_link, a new link for every letter, and the    *)
(* letter waits for it.                                                    *)
LxmfSendDirect(n, m, l) ==
  /\ AtSelect(n)
  /\ lxmf_message(n, m) /\ Dest[m] \in paths[n]
  /\ l \in world.links /\ Caller[l] = n /\ Callee[l] = Dest[m]
  /\ request(l)
  /\ pending' = [k \in DOMAIN pending \cup {l} |-> IF k = l THEN m ELSE pending[k]]
  /\ bound' = [k \in DOMAIN bound \cup {l} |-> IF k = l THEN m ELSE bound[k]]
  /\ used' = used \cup {m}
  /\ UNCHANGED <<paths, known, queue, log, air, announces, crashes, world>>

(* EstablishLink: a link for the application's own use.                    *)
EstablishLink(n, l) ==
  /\ AtSelect(n)
  /\ l \in world.links /\ Caller[l] = n /\ Callee[l] \in paths[n]
  /\ request(l)
  /\ UNCHANGED <<local, air, ledger>>

(* LinkSend: any bytes, over any Active link.                              *)
LinkSend(n, l, m) ==
  /\ AtSelect(n)
  /\ l \in LinksOf(n)
  /\ Source[m] = n /\ m \in world.payloads \ used
  /\ send(l, EndOf(n, l), m)
  /\ used' = used \cup {m}
  /\ UNCHANGED <<local, air, announces, bound, crashes, world>>

(* Mutant of CloseLink: it does not wait for the events of the last handler. *)
CloseLink_anytime(n, l) ==
  /\ l \in LinksOf(n)
  /\ close(l, EndOf(n, l))
  /\ UNCHANGED <<local, air, ledger>>

(* The link closes at this end: the CloseLink command, the stale timer or  *)
(* a LINKCLOSE.  Nothing is done about a letter that waits for it.         *)
CloseLink(n, l) ==
  /\ AtSelect(n)
  /\ l \in LinksOf(n)
  /\ close(l, EndOf(n, l))
  /\ UNCHANGED <<local, air, ledger>>

---------------------------------------------------------------------------
(* Packets arrive.                                                         *)

(* A link request opens the responder's end.                               *)
handle_link_request(n, l) ==
  /\ AtSelect(n)
  /\ n = Callee[l]
  /\ accept(l)
  /\ UNCHANGED <<local, air, ledger>>

(* The proof opens the initiator's end.                                    *)
handle_link_proof(n, l) ==
  /\ AtSelect(n)
  /\ n = Caller[l]
  /\ confirm(l)
  /\ Raise(n, Event("LinkEstablished", l))
  /\ UNCHANGED <<paths, known, pending, log, air, ledger>>

(* Link data.                                                              *)
link_data(n, l, m) ==
  /\ AtSelect(n)
  /\ l \in LinksOf(n)
  /\ deliver(l, EndOf(n, l), m)
  /\ Raise(n, Event("LinkData", m))
  /\ UNCHANGED <<paths, known, pending, log, air, ledger>>

(* An opportunistic packet.                                                *)
handle_data(n, p) ==
  /\ AtSelect(n)
  /\ p \in air /\ p.kind = "Message" /\ p.to = n
  /\ air' = air \ {p}
  /\ Raise(n, Event("Message", p.of))
  /\ UNCHANGED <<sessionVars, paths, known, pending, log, ledger>>

---------------------------------------------------------------------------
(* LxmfMessage::unpack succeeds.                                           *)
unpack(m) == Dest[m] # NoNode

(* Mutant of unpack_for_local_destination: any letter for this node will   *)
(* do, whether its signature can be verified or not.                       *)
unpack_unverified(n, m) == unpack(m) /\ Dest[m] = n

(* A letter for this node, signed by a source whose key the router has.    *)
unpack_for_local_destination(n, m) ==
  unpack(m) /\ Dest[m] = n /\ Source[m] \in known[n]

(* What the application is told: such a letter is an LxmfMessage, anything *)
(* else the event it was.                                                  *)
Surfaced(n, event) ==
  IF event.kind \in {"Message", "LinkData"} /\ unpack_for_local_destination(n, event.of)
  THEN Event("LxmfMessage", event.of) ELSE event

(* remember_source, for the node that announced, while it has a path.      *)
remember_source(n, s) == known' = [known EXCEPT ![n] = @ \cup ({s} \cap paths[n])]

(* The log leaves out LinkEstablished.                                     *)
Record(told, event) ==
  IF event.kind = "LinkEstablished" THEN told ELSE Append(told, event)

(* Mutant of emit_node_events: LinkEstablished sends nothing.              *)
emit_node_events_idle(n) ==
  /\ queue[n] # <<>>
  /\ \/ /\ Head(queue[n]).kind = "Announce"
        /\ remember_source(n, Head(queue[n]).of)
     \/ /\ Head(queue[n]).kind # "Announce"
        /\ UNCHANGED known
  /\ log' = [log EXCEPT ![n] = Record(@, Surfaced(n, Head(queue[n])))]
  /\ queue' = [queue EXCEPT ![n] = Tail(@)]
  /\ UNCHANGED <<sessionVars, paths, pending, air, ledger>>

(* One round of emit_node_events.  An announce makes its source known, as  *)
(* long as there is a path; LinkEstablished sends the letter that waits    *)
(* for this link; then the application is told.                            *)
emit_node_events(n) ==
  /\ queue[n] # <<>>
  /\ LET event == Head(queue[n])
         l == event.of
     IN \/ /\ event.kind = "LinkEstablished" /\ l \in DOMAIN pending
           /\ pending' = Without(pending, {l})
           /\ send(l, "initiator", pending[l])
           /\ UNCHANGED known
        \/ /\ event.kind = "LinkEstablished" /\ l \notin DOMAIN pending
           /\ UNCHANGED <<sessionVars, known, pending>>
        \/ /\ event.kind = "Announce"
           /\ remember_source(n, event.of)
           /\ UNCHANGED <<sessionVars, pending>>
        \/ /\ event.kind \in {"LinkData", "Message"}
           /\ UNCHANGED <<sessionVars, known, pending>>
  /\ log' = [log EXCEPT ![n] = Record(@, Surfaced(n, Head(queue[n])))]
  /\ queue' = [queue EXCEPT ![n] = Tail(@)]
  /\ UNCHANGED <<paths, air, ledger>>

(* The process of a node ends and a new one starts; nothing is on disk.    *)
Crash(n) ==
  /\ crashes < world.crashes
  /\ crashes' = crashes + 1
  /\ LET lost == {d \in Links \X End : NodeAt(d[1], d[2]) = n /\ phase[d[1]][d[2]] # "Absent"}
     IN IF lost = {} THEN UNCHANGED sessionVars ELSE crash(lost)
  /\ paths' = [paths EXCEPT ![n] = {}]
  /\ known' = [known EXCEPT ![n] = {}]
  /\ pending' = Without(pending, {l \in Links : Caller[l] = n})
  /\ queue' = [queue EXCEPT ![n] = <<>>]
  /\ log' = [log EXCEPT ![n] = <<>>]
  /\ UNCHANGED <<air, announces, bound, used, world>>

Next ==
  \/ \E n \in Nodes : AnnounceAll(n)
  \/ \E n \in Nodes, p \in air : handle_announce(n, p)
  \/ \E n, s \in Nodes : prune(n, s)
  \/ \E n \in Nodes, m \in Payloads : LxmfSendOpportunistic(n, m)
  \/ \E n \in Nodes, m \in Payloads, l \in Links : LxmfSendDirect(n, m, l)
  \/ \E n \in Nodes, l \in Links : EstablishLink(n, l)
  \/ \E n \in Nodes, l \in Links, m \in Payloads : LinkSend(n, l, m)
  \/ \E n \in Nodes, l \in Links : CloseLink(n, l)
  \/ \E n \in Nodes, l \in Links : handle_link_request(n, l)
  \/ \E n \in Nodes, l \in Links : handle_link_proof(n, l)
  \/ \E n \in Nodes, l \in Links, m \in Payloads : link_data(n, l, m)
  \/ \E n \in Nodes, p \in air : handle_data(n, p)
  \/ \E n \in Nodes : emit_node_events(n)
  \/ \E n \in Nodes : Crash(n)

Spec == Init /\ [][Next]_vars

(* Applications take their events, and link packets arrive in the end.     *)
Fairness ==
  /\ \A n \in Nodes : WF_vars(emit_node_events(n))
  /\ \A n \in Nodes, l \in Links :
       /\ WF_vars(handle_link_request(n, l))
       /\ WF_vars(handle_link_proof(n, l))
       /\ WF_vars(\E m \in Payloads : link_data(n, l, m))

FairSpec == Spec /\ Fairness

---------------------------------------------------------------------------
(* Properties.                                                             *)

Letters(f) == /\ DOMAIN f \subseteq Links
              /\ \A l \in DOMAIN f : f[l] \in Payloads

Events ==
  [kind : {"Announce"}, of : Nodes]
    \cup [kind : {"LinkEstablished"}, of : Links]
    \cup [kind : {"LinkData", "Message", "LxmfMessage"}, of : Payloads]

(* Type correctness.  A driver is never behind by more than the one event  *)
(* its handler made.                                                       *)
TypeOK ==
  /\ phase \in [Links -> [End -> Phase]]
  /\ crashed \subseteq Links
  /\ sent \in [Links -> [End -> SUBSET Payloads]]
  /\ got \in [Links -> [End -> Seq(Payloads)]]
  /\ paths \in [Nodes -> SUBSET Nodes] /\ known \in [Nodes -> SUBSET Nodes]
  /\ Letters(pending) /\ Letters(bound)
  /\ queue \in [Nodes -> Seq(Events)] /\ \A n \in Nodes : Len(queue[n]) <= 1
  /\ log \in [Nodes -> Seq(Events)]
  /\ world \in Worlds
  /\ used \subseteq world.payloads

(* What lxmf_send_direct accepted is neither dropped nor sent twice nor    *)
(* sent elsewhere: until its process ends, the letter either waits in      *)
(* pending_direct under its own link or has been sent once, on that link.  *)
(* It never waits for a link that is open already.                         *)
OneFate ==
  \A l \in DOMAIN bound :
    /\ \A k \in Links, e \in End : bound[l] \in sent[k][e] => <<k, e>> = <<l, "initiator">>
    /\ phase[l]["initiator"] # "Absent" =>
         (l \in DOMAIN pending /\ pending[l] = bound[l]) # (bound[l] \in sent[l]["initiator"])
    /\ l \in DOMAIN pending /\ phase[l]["initiator"] = "Active" =>
         queue[Caller[l]] = <<Event("LinkEstablished", l)>>

(* When emit_node_events comes to LinkEstablished, the link takes the      *)
(* letter that waits for it: it has not closed again behind the event, and *)
(* nothing of the kind was sent on it.  The letter has left pending_direct *)
(* by then, and would be lost if send_direct failed.                       *)
LinkTakesLetter ==
  \A n \in Nodes : queue[n] # <<>> =>
    LET event == Head(queue[n]) IN
    (event.kind = "LinkEstablished" /\ event.of \in DOMAIN pending) =>
      /\ Caller[event.of] = n
      /\ phase[event.of]["initiator"] = "Active"
      /\ \A e \in End : pending[event.of] \notin sent[event.of][e]

(* A letter is shown as an LxmfMessage exactly if the application was told *)
(* of an announce of its source before, in the life of this process; it is *)
(* handed over as raw data otherwise, and never lost for that.             *)
KnownByAnnounce ==
  \A n \in Nodes : \A j \in 1 .. Len(log[n]) :
    LET event == log[n][j]
        heard == \E i \in 1 .. j - 1 : log[n][i] = Event("Announce", Source[event.of])
    IN event.kind \in {"LinkData", "Message", "LxmfMessage"} =>
         ((event.kind = "LxmfMessage") <=> (Dest[event.of] = n /\ heard))

Told(n, m) ==
  \E j \in 1 .. Len(log[n]) : log[n][j] \in {Event("LxmfMessage", m), Event("LinkData", m)}

(* A letter that was accepted for direct delivery reaches the application  *)
(* at the other end, unless an end closes the link or a process ends.      *)
DirectArrives ==
  \A l \in Links :
    l \in DOMAIN pending
      ~> \/ l \in DOMAIN bound /\ Told(Callee[l], bound[l])
         \/ l \in crashed \/ \E e \in End : phase[l][e] = "Closed"
===========================================================================
