------------------------------ MODULE Driver ------------------------------
(***************************************************************************)
(* The tokio runtime around a node, from                                   *)
(* crates/reticulum-tokio/src/driver.rs: the driver task, one task per     *)
(* interface, the application, and the bounded channels between them.      *)
(* What the node computes is left out: a handler emits some events and     *)
(* queues some packets, and the model is about getting those out.          *)
(*                                                                         *)
(* The driver task is at its select exactly when it has no event left to   *)
(* emit (todo) and the node no packet left to send (outq); otherwise it is *)
(* inside a handler, at an await on a channel.                             *)
(***************************************************************************)
EXTENDS Naturals, Sequences, SequencesExt

CONSTANTS
  Ifaces,                \* interface ids
  Initial,               \* the interfaces the driver is built with
  INTERFACE_CAPACITY,    \* of the inbound and of each outbound channel
  EVENT_CAPACITY,        \* of the application's event channel
  COMMAND_CAPACITY,
  REGISTRATION_CAPACITY,
  Burst,                 \* events and packets one handler may produce
  Calls                  \* the calls the application makes in its event loop

ASSUME DriverAssumption ==
  /\ Initial \subseteq Ifaces
  /\ INTERFACE_CAPACITY \in Nat \ {0} /\ EVENT_CAPACITY \in Nat \ {0}
  /\ COMMAND_CAPACITY \in Nat \ {0} /\ REGISTRATION_CAPACITY \in Nat \ {0}
  /\ Burst \in Nat
  /\ Calls \subseteq {"Send", "Ask", "Shutdown"}

VARIABLES
  keep_alive,     \* set by new_dynamic: a server registers interfaces later
  running,        \* Driver::run has not returned
  todo,           \* events the current handler still has to emit
  outq,           \* the node's outbound queue: the interface of each packet
  interfaces,     \* Driver.interfaces: the ids with an outbound sender
  registered,     \* Node.interfaces
  chan,           \* packets in each interface's outbound channel
  inbound,        \* the shared inbound channel
  task,           \* where each interface task is
  commands,       \* the command channel
  registrations,  \* the registration channel: ids of accepted connections
  registrar,      \* Driver.registrations is Some
  server,         \* the accept loop, which holds the registrar, is running
  events,         \* events in the application's channel
  app             \* the application: listening, in a call, or gone

vars == <<keep_alive, running, todo, outq, interfaces, registered, chan, inbound,
          task, commands, registrations, registrar, server, events, app>>
handler == <<todo, outq>>
network == <<chan, inbound, task>>
registry == <<interfaces, registered>>
arrivals == <<keep_alive, registrations, registrar, server>>
application == <<commands, events, app>>

Inbound == [kind : {"Packet", "Closed", "Error"}, interface : Ifaces]

Message(kind, i) == [kind |-> kind, interface |-> i]

(* Interfaces that exist or existed: interface_stats keeps them all.       *)
Known == {i \in Ifaces : task[i] # "none"}

(* What one handler may leave in the node's outbound queue.                *)
Bursts(S) == UNION {[1 .. n -> S] : n \in 0 .. Burst}

---------------------------------------------------------------------------
(* build: the initial interfaces are registered and their tasks spawned.   *)
(* Without a server the registrar is dropped on return.                    *)
Init ==
  /\ keep_alive \in BOOLEAN
  /\ running = TRUE
  /\ todo = 0 /\ outq = <<>>
  /\ interfaces = Initial
  /\ registered = Initial
  /\ chan = [i \in Ifaces |-> 0]
  /\ inbound = <<>>
  /\ task = [i \in Ifaces |-> IF i \in Initial THEN "idle" ELSE "none"]
  /\ commands = <<>>
  /\ registrations = <<>>
  /\ registrar = TRUE
  /\ server = keep_alive
  /\ events = 0
  /\ app = "listening"

AtSelect == running /\ todo = 0 /\ outq = <<>>

(* A command.  Most are run by the node and may fail with an Error event;  *)
(* "Ask" stands for those with a oneshot reply, which is sent before the   *)
(* packets are.                                                            *)
command ==
  /\ AtSelect
  /\ commands # <<>>
  /\ commands' = Tail(commands)
  /\ \/ /\ Head(commands) = "Send"
        /\ todo' \in 0 .. Burst
        /\ outq' \in Bursts(Known)
        /\ UNCHANGED <<running, app>>
     \/ /\ Head(commands) = "Ask"
        /\ outq' \in Bursts(Known)
        /\ app' = IF app = "awaiting" THEN "listening" ELSE app
        /\ UNCHANGED <<running, todo>>
     \/ /\ Head(commands) = "Shutdown"
        /\ running' = FALSE
        /\ UNCHANGED <<handler, app>>
  /\ UNCHANGED <<registry, network, arrivals, events>>

(* Every handle is gone and the channel is empty: run returns.             *)
commands_closed ==
  /\ AtSelect
  /\ commands = <<>> /\ app = "gone"
  /\ running' = FALSE
  /\ UNCHANGED <<handler, registry, network, arrivals, application>>

inbound_packet ==
  /\ AtSelect
  /\ inbound # <<>> /\ Head(inbound).kind = "Packet"
  /\ inbound' = Tail(inbound)
  /\ todo' \in 0 .. Burst
  /\ outq' \in Bursts(Known)
  /\ UNCHANGED <<running, registry, chan, task, arrivals, application>>

(* Mutant of inbound_closed: an interface that is no longer in the map is  *)
(* skipped, without a look at what is left.                                *)
inbound_closed_skips ==
  /\ AtSelect
  /\ inbound # <<>> /\ Head(inbound).kind \in {"Closed", "Error"}
  /\ inbound' = Tail(inbound)
  /\ LET i == Head(inbound).interface IN
       /\ interfaces' = interfaces \ {i}
       /\ registered' = registered \ {i}
       /\ running' = ~(i \in interfaces /\ interfaces' = {} /\ ~keep_alive)
  /\ UNCHANGED <<handler, chan, task, arrivals, application>>

(* An interface reports its end.  It is forgotten by driver and node; the  *)
(* last one ends the driver unless it is to be kept alive.  An I/O error   *)
(* that does not end the driver is reported to the application.            *)
inbound_closed ==
  /\ AtSelect
  /\ inbound # <<>> /\ Head(inbound).kind \in {"Closed", "Error"}
  /\ inbound' = Tail(inbound)
  /\ interfaces' = interfaces \ {Head(inbound).interface}
  /\ registered' = registered \ {Head(inbound).interface}
  /\ running' = ~(interfaces' = {} /\ ~keep_alive)
  /\ todo' = IF Head(inbound).kind = "Error" /\ running' THEN 1 ELSE 0
  /\ UNCHANGED <<outq, chan, task, arrivals, application>>

(* A registered interface: its task is spawned and announces of the local  *)
(* destinations are queued for it.  An id in use is only reported.         *)
registration ==
  /\ AtSelect
  /\ registrations # <<>>
  /\ registrations' = Tail(registrations)
  /\ LET i == Head(registrations)
         fresh == i \notin interfaces
     IN /\ interfaces' = interfaces \cup {i}
        /\ registered' = registered \cup {i}
        /\ task' = [task EXCEPT ![i] = IF fresh THEN "idle" ELSE @]
        /\ todo' = IF fresh THEN 0 ELSE 1
        /\ outq' \in IF fresh THEN Bursts({i}) ELSE {<<>>}
  /\ UNCHANGED <<keep_alive, running, chan, inbound, registrar, server, application>>

(* Every registrar is gone: no interface will ever come.                   *)
registrations_closed ==
  /\ AtSelect
  /\ registrar /\ registrations = <<>> /\ ~server
  /\ registrar' = FALSE
  /\ running' = (interfaces # {})
  /\ UNCHANGED <<keep_alive, handler, registry, network, registrations, server, application>>

(* The one-second interval: tick_with_entropy.                             *)
tick ==
  /\ AtSelect
  /\ todo' \in 0 .. Burst
  /\ outq' \in Bursts(Known)
  /\ UNCHANGED <<running, registry, network, arrivals, application>>

(* emit: waits for room in the application's channel; nobody listening is  *)
(* no error.                                                               *)
emit ==
  /\ running /\ todo > 0
  /\ todo' = todo - 1
  /\ \/ /\ app # "gone"
        /\ events < EVENT_CAPACITY
        /\ events' = events + 1
     \/ /\ app = "gone"
        /\ UNCHANGED events
  /\ UNCHANGED <<running, outq, registry, network, arrivals, commands, app>>

(* Mutant of drain_outbound: try_send without a look at its result.        *)
drain_outbound_unbounded ==
  /\ running /\ todo = 0 /\ outq # <<>>
  /\ outq' = Tail(outq)
  /\ chan' = [chan EXCEPT ![Head(outq)] = @ + 1]
  /\ UNCHANGED <<running, todo, registry, inbound, task, arrivals, application>>

(* drain_outbound, one packet: waits for room in the interface's channel.  *)
(* A channel whose task has ended is dropped, from the driver's map only,  *)
(* and an unknown interface or a failed send is reported.                  *)
drain_outbound ==
  /\ running /\ todo = 0 /\ outq # <<>>
  /\ outq' = Tail(outq)
  /\ LET i == Head(outq) IN
       \/ /\ i \notin interfaces
          /\ todo' = 1
          /\ UNCHANGED <<interfaces, chan>>
       \/ /\ i \in interfaces /\ task[i] = "done"
          /\ interfaces' = interfaces \ {i}
          /\ todo' = 1
          /\ UNCHANGED chan
       \/ /\ i \in interfaces /\ task[i] # "done"
          /\ chan[i] < INTERFACE_CAPACITY
          /\ chan' = [chan EXCEPT ![i] = @ + 1]
          /\ UNCHANGED <<interfaces, todo>>
  /\ UNCHANGED <<running, registered, inbound, task, arrivals, application>>

---------------------------------------------------------------------------
(* run_interface.  "idle" is its select, "writing" the await of            *)
(* send_packet, in which the other end of the wire may keep it for ever;   *)
(* "Packet", "Closed" and "Error" are the sends into the inbound channel   *)
(* it may be waiting in.                                                   *)

others == <<running, handler, registry, commands, arrivals, events, app>>

(* Mutant of run_outbound: the closed channel is not noticed.              *)
run_outbound_deaf(i) ==
  /\ task[i] = "idle" /\ chan[i] > 0
  /\ chan' = [chan EXCEPT ![i] = @ - 1]
  /\ task' = [task EXCEPT ![i] = "writing"]
  /\ UNCHANGED <<others, inbound>>

(* The outbound branch: a packet is taken to be written, or the closed and *)
(* empty channel ends the task.                                            *)
run_outbound(i) ==
  /\ task[i] = "idle"
  /\ \/ /\ chan[i] > 0
        /\ chan' = [chan EXCEPT ![i] = @ - 1]
        /\ task' = [task EXCEPT ![i] = "writing"]
     \/ /\ chan[i] = 0
        /\ ~running \/ i \notin interfaces
        /\ task' = [task EXCEPT ![i] = "done"]
        /\ UNCHANGED chan
  /\ UNCHANGED <<others, inbound>>

(* Mutant of run_write: a failed send_packet just ends the task.           *)
run_write_silent(i) ==
  /\ task[i] = "writing"
  /\ \E next \in {"idle", "done"} : task' = [task EXCEPT ![i] = next]
  /\ UNCHANGED <<others, chan, inbound>>

(* send_packet is over: the packet is on the wire, or writing has failed.  *)
run_write(i) ==
  /\ task[i] = "writing"
  /\ \E next \in {"idle", "Error"} : task' = [task EXCEPT ![i] = next]
  /\ UNCHANGED <<others, chan, inbound>>

(* The receiving branch: a packet, the end of the stream, or an error.     *)
run_receive(i) ==
  /\ task[i] = "idle"
  /\ \E kind \in {"Packet", "Closed", "Error"} : task' = [task EXCEPT ![i] = kind]
  /\ UNCHANGED <<others, chan, inbound>>

(* The send into the inbound channel, which fails when the driver is gone. *)
run_inbound(i) ==
  /\ task[i] \in {"Packet", "Closed", "Error"}
  /\ \/ /\ running
        /\ Len(inbound) < INTERFACE_CAPACITY
        /\ inbound' = Append(inbound, Message(task[i], i))
        /\ task' = [task EXCEPT ![i] = IF @ = "Packet" THEN "idle" ELSE "done"]
     \/ /\ ~running
        /\ task' = [task EXCEPT ![i] = "done"]
        /\ UNCHANGED inbound
  /\ UNCHANGED <<others, chan>>

(* serve_with_ifac: a connection gets a fresh id and is registered; an     *)
(* error, or running out of ids, ends the loop.                            *)
serve ==
  /\ server
  /\ \/ /\ running
        /\ Len(registrations) < REGISTRATION_CAPACITY
        /\ \E i \in Ifaces :
             /\ task[i] = "none" /\ i \notin ToSet(registrations)
             /\ registrations' = Append(registrations, i)
        /\ UNCHANGED server
     \/ /\ server' = FALSE
        /\ UNCHANGED registrations
  /\ UNCHANGED <<keep_alive, running, handler, registry, network, registrar, application>>

---------------------------------------------------------------------------
(* The application: one loop that receives events and makes calls, as in   *)
(* the TUI's event_loop and the daemon's Mode::Run.                        *)

machinery == <<running, handler, registry, network, arrivals>>

app_receive ==
  /\ app = "listening" /\ events > 0
  /\ events' = events - 1
  /\ UNCHANGED <<machinery, commands, app>>

app_call ==
  /\ app = "listening" /\ running
  /\ app' \in Calls
  /\ UNCHANGED <<machinery, commands, events>>

(* The call waits for room among the commands, and an "Ask" for the reply. *)
app_send ==
  /\ app \in Calls /\ running
  /\ Len(commands) < COMMAND_CAPACITY
  /\ commands' = Append(commands, app)
  /\ app' = CASE app = "Send" -> "listening" [] app = "Ask" -> "awaiting" [] app = "Shutdown" -> "gone"
  /\ UNCHANGED <<machinery, events>>

(* It ends of its own accord, or when it finds that the driver has.        *)
app_stop ==
  /\ app # "gone"
  /\ app = "listening" \/ ~running
  /\ app' = "gone"
  /\ UNCHANGED <<machinery, commands, events>>

Next ==
  \/ command \/ commands_closed
  \/ inbound_packet \/ inbound_closed
  \/ registration \/ registrations_closed
  \/ tick
  \/ emit
  \/ drain_outbound
  \/ \E i \in Ifaces : run_outbound(i)
  \/ \E i \in Ifaces : run_write(i)
  \/ \E i \in Ifaces : run_receive(i)
  \/ \E i \in Ifaces : run_inbound(i)
  \/ serve
  \/ app_receive \/ app_call \/ app_send \/ app_stop

Spec == Init /\ [][Next]_vars

(* Tasks that can run do run, and tokio's select! picks among its ready    *)
(* branches at random, so a branch that is ready again and again is taken. *)
(* Nothing is assumed of the wire, so that neither a packet need come nor  *)
(* a write be over, nor of the server or the application's calls.          *)
Fairness ==
  /\ WF_vars(emit) /\ WF_vars(drain_outbound)
  /\ SF_vars(command) /\ SF_vars(commands_closed)
  /\ SF_vars(inbound_packet \/ inbound_closed)
  /\ SF_vars(registration \/ registrations_closed)
  /\ \A i \in Ifaces : SF_vars(run_outbound(i)) /\ WF_vars(run_inbound(i))
  /\ SF_vars(app_receive) /\ WF_vars(app_send)

FairSpec == Spec /\ Fairness

---------------------------------------------------------------------------
(* Properties.                                                             *)

(* Type correctness, and no channel holds more than its capacity.          *)
TypeOK ==
  /\ keep_alive \in BOOLEAN
  /\ running \in BOOLEAN
  /\ todo \in 0 .. Burst + 1
  /\ outq \in Seq(Ifaces) /\ Len(outq) <= Burst
  /\ interfaces \subseteq Ifaces /\ registered \subseteq Ifaces
  /\ chan \in [Ifaces -> 0 .. INTERFACE_CAPACITY]
  /\ inbound \in Seq(Inbound) /\ Len(inbound) <= INTERFACE_CAPACITY
  /\ task \in [Ifaces -> {"none", "idle", "writing", "Packet", "Closed", "Error", "done"}]
  /\ commands \in Seq(Calls) /\ Len(commands) <= COMMAND_CAPACITY
  /\ registrations \in Seq(Ifaces) /\ Len(registrations) <= REGISTRATION_CAPACITY
  /\ registrar \in BOOLEAN /\ server \in BOOLEAN
  /\ events \in 0 .. EVENT_CAPACITY
  /\ app \in {"listening", "awaiting", "gone"} \cup Calls

(* The driver hears of every interface that ends: drain_outbound drops a   *)
(* dead sender from the driver's map but not from the node, and leaves the *)
(* rest to a report that is still in the inbound channel.                  *)
EndIsReported ==
  running =>
    /\ interfaces \subseteq registered
    /\ \A i \in registered \ interfaces : task[i] = "done"
    /\ \A i \in registered : task[i] = "done" =>
         \E m \in ToSet(inbound) : m.interface = i /\ m.kind \in {"Closed", "Error"}

(* A driver that is not kept alive returns when its last interface is      *)
(* gone, whichever of drain_outbound and the report removes it, provided   *)
(* that the application is never stuck in a call.                          *)
ExitsWhenAlone ==
  []<>(app \in {"listening", "gone"}) => ((running /\ interfaces = {} /\ ~keep_alive) ~> ~running)

(* No write stalls for ever, though any may take its time.                 *)
WritesEnd == \A i \in Ifaces : []<>(task[i] # "writing")

(* When run has returned, every interface task ends, from wherever it      *)
(* waits: its select, a send to the driver that is gone, or a write, as    *)
(* long as that is over one day.                                           *)
TasksEnd == WritesEnd => (~running ~> \A i \in Ifaces : task[i] \in {"none", "done"})

(* The driver always gets back to its select, where the timer is: the node *)
(* is ticked for keepalives, teardown and retries as long as it runs.      *)
(* That a stalled write keeps it from there is not even counted.           *)
ReturnsToSelect == WritesEnd => []<>(AtSelect \/ ~running)
===========================================================================
