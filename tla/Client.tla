------------------------------- MODULE Client -------------------------------
(***************************************************************************)
(* The facade for mobile applications, crates/reticulum-ffi/src/lib.rs:    *)
(* one ReticulumClient whose methods any thread of the application may     *)
(* call, the tokio runtime it owns with the driver and the run_events task *)
(* in it, and the application's callbacks, which run inside run_events.    *)
(* What the driver does is cut down to what a caller can notice: it takes  *)
(* commands, answers them, emits events, hands packets to its interface,   *)
(* and may end by itself.                                                  *)
(*                                                                         *)
(* A method that finds the client in the wrong state returns an error and  *)
(* changes nothing, which is no step of the model.                         *)
(***************************************************************************)
EXTENDS Naturals, Sequences

CONSTANTS
  Threads, NoThread,     \* the application's threads
  Callback,              \* the thread that run_events calls back on
  Handlers, NoHandler,   \* event handlers
  Dests,                 \* destinations to register
  COMMAND_CAPACITY, EVENT_CAPACITY,
  MaxCalls,              \* bound on the calls the application makes
  MaxEvents              \* bound on the events the network causes

ASSUME ClientAssumption ==
  /\ NoThread \notin Threads /\ Callback \notin Threads \cup {NoThread}
  /\ NoHandler \notin Handlers
  /\ COMMAND_CAPACITY \in Nat \ {0} /\ EVENT_CAPACITY \in Nat \ {0}
  /\ MaxCalls \in Nat /\ MaxEvents \in Nat

VARIABLES
  state,       \* ClientState
  lock,        \* the thread that holds the state mutex across a step
  node,        \* the destinations the client's node has registered
  handler,     \* event_handler
  call,        \* where the call of each thread is
  arcs,        \* the threads that hold a clone of the Arc<Runtime>
  stopping,    \* the last Arc<Runtime> is gone: the runtime shuts down
  driver,      \* the driver task: none yet, running, ended
  commands,    \* the driver's command channel
  todo,        \* events the driver is about to emit
  outq,        \* whether the node has packets to send
  events,      \* events in the channel to run_events
  worker,      \* the run_events task, with the handler it calls
  registered,  \* registrations that were answered Ok
  failed,      \* Runtime::new has failed
  inside,      \* a callback has made a call that blocks
  late,        \* callbacks begun with a replaced handler, since it was replaced
  calls, noise \* calls and network events so far

client == <<state, lock, node, handler>>
tasks == <<driver, commands, todo, outq, events, worker>>
history == <<registered, failed, inside, late>>
vars == <<client, call, arcs, stopping, tasks, history, calls, noise>>

Kinds == {"announce", "send", "disconnect"}

Idle == [kind |-> "none", at |-> "idle"]

(* Mutant of Unlocked: the guard that connection takes lives as long as the *)
(* call it is made for.                                                    *)
UnlockedAfterCalls ==
  lock = NoThread /\ \A t \in Threads : call[t].at \notin {"enqueue", "awaiting"}

(* The mutex around the state is free.  Only connect_tcp holds it for      *)
(* longer than a step: connection releases it before the call blocks.      *)
Unlocked == lock = NoThread

(* The application begins a call on thread t.                              *)
Begins(t) ==
  /\ call[t] = Idle
  /\ calls < MaxCalls
  /\ calls' = calls + 1

To(t, kind, at) == call' = [call EXCEPT ![t] = [kind |-> kind, at |-> at]]

(* The tasks of a runtime have stopped.                                    *)
Stopped == driver # "running" /\ worker.at \in {"none", "ended"}

---------------------------------------------------------------------------
Init ==
  /\ state = "Configuring" /\ lock = NoThread
  /\ node = {} /\ handler = NoHandler
  /\ call = [t \in Threads |-> Idle]
  /\ arcs = {} /\ stopping = FALSE
  /\ driver = "none" /\ commands = <<>> /\ todo = 0 /\ outq = 0 /\ events = 0
  /\ worker = [at |-> "none", with |-> NoHandler]
  /\ registered = {} /\ failed = FALSE /\ inside = FALSE /\ late = 0
  /\ calls = 0 /\ noise = 0

(* set_event_handler and, with NoHandler, clear_event_handler.  A callback *)
(* may do this too: run_events does not hold the lock while it calls.      *)
set_event_handler(h) ==
  /\ \/ \E t \in Threads : Begins(t)
     \/ worker.at = "called" /\ calls < MaxCalls /\ calls' = calls + 1
  /\ handler' = h
  /\ late' = 0
  /\ UNCHANGED <<state, lock, node, call, arcs, stopping, tasks, registered, failed,
                 inside, noise>>

register_single_destination(t, d) ==
  /\ Begins(t)
  /\ Unlocked /\ state = "Configuring"
  /\ node' = node \cup {d}
  /\ registered' = registered \cup {d}
  /\ UNCHANGED <<state, lock, handler, call, arcs, stopping, tasks, failed, inside,
                 late, noise>>

(* connect_tcp takes the node out of the state and keeps the lock while it *)
(* connects; if there is no runtime to be had, the node is lost.           *)
connect_tcp(t) ==
  /\ Begins(t)
  /\ Unlocked /\ state = "Configuring"
  /\ state' = "Closed"
  /\ \/ lock' = t /\ To(t, "connect", "connecting") /\ UNCHANGED <<node, failed>>
     \/ failed' = TRUE /\ node' = {} /\ UNCHANGED <<lock, call>>
  /\ UNCHANGED <<handler, arcs, stopping, tasks, registered, inside, late, noise>>

(* Mutant of tcp_failed: the state stays as mem::replace left it.          *)
tcp_failed_closed(t) ==
  /\ call[t].at = "connecting"
  /\ lock' = NoThread
  /\ call' = [call EXCEPT ![t] = Idle]
  /\ UNCHANGED <<state, node, handler, arcs, stopping, tasks, history, calls, noise>>

(* No connection: the node is put back, and connect_tcp can be retried.    *)
tcp_failed(t) ==
  /\ call[t].at = "connecting"
  /\ state' = "Configuring"
  /\ lock' = NoThread
  /\ call' = [call EXCEPT ![t] = Idle]
  /\ UNCHANGED <<node, handler, arcs, stopping, tasks, history, calls, noise>>

tcp_connected(t) ==
  /\ call[t].at = "connecting"
  /\ driver' = "running"
  /\ worker' = [worker EXCEPT !.at = "recv"]
  /\ state' = "Connected"
  /\ lock' = NoThread
  /\ call' = [call EXCEPT ![t] = Idle]
  /\ UNCHANGED <<node, handler, arcs, stopping, commands, todo, outq, events, history,
                 calls, noise>>

(* announce, send and disconnect begin by cloning the runtime and the      *)
(* handle; the lock is released before they block.                         *)
connection(t, kind) ==
  /\ Begins(t)
  /\ Unlocked /\ state = "Connected"
  /\ arcs' = arcs \cup {t}
  /\ To(t, kind, "enqueue")
  /\ UNCHANGED <<client, stopping, tasks, history, noise>>

(* The command goes into the channel when there is room; the driver may    *)
(* have ended, and then the call fails.  A failed disconnect leaves the    *)
(* client Connected.                                                       *)
enqueue(t) ==
  /\ call[t].at = "enqueue"
  /\ \/ /\ driver = "running" /\ Len(commands) < COMMAND_CAPACITY
        /\ commands' = Append(commands, [kind |-> call[t].kind, by |-> t])
        /\ To(t, call[t].kind, CASE call[t].kind = "announce" -> "returning"
                                 [] call[t].kind = "send" -> "awaiting"
                                 [] call[t].kind = "disconnect" -> "closing")
     \/ /\ driver # "running"
        /\ To(t, call[t].kind, "returning")
        /\ UNCHANGED commands
  /\ UNCHANGED <<client, arcs, stopping, driver, todo, outq, events, worker, history,
                 calls, noise>>

(* The oneshot of a send was dropped with the driver.                      *)
reply_dropped(t) ==
  /\ call[t].at = "awaiting"
  /\ driver # "running"
  /\ To(t, call[t].kind, "returning")
  /\ UNCHANGED <<client, arcs, stopping, tasks, history, calls, noise>>

(* The end of disconnect.                                                  *)
close(t) ==
  /\ call[t].at = "closing"
  /\ Unlocked
  /\ state' = "Closed"
  /\ To(t, call[t].kind, "returning")
  /\ UNCHANGED <<lock, node, handler, arcs, stopping, tasks, history, calls, noise>>

(* Mutant of returns: the runtime is told to stop and not waited for.      *)
returns_at_once(t) ==
  /\ call[t].at = "returning"
  /\ arcs' = arcs \ {t}
  /\ stopping' = (stopping \/ (arcs' = {} /\ state # "Connected"))
  /\ call' = [call EXCEPT ![t] = Idle]
  /\ UNCHANGED <<client, tasks, history, calls, noise>>

(* A call that ends drops its Arc<Runtime>.  The last one drops the        *)
(* runtime, and waits until its tasks have stopped.                        *)
returns(t) ==
  /\ call[t].at = "returning"
  /\ arcs' = arcs \ {t}
  /\ IF arcs' = {} /\ state # "Connected"
     THEN stopping' = TRUE /\ To(t, call[t].kind, "dropping")
     ELSE call' = [call EXCEPT ![t] = Idle] /\ UNCHANGED stopping
  /\ UNCHANGED <<client, tasks, history, calls, noise>>

dropped(t) ==
  /\ call[t].at = "dropping"
  /\ Stopped
  /\ call' = [call EXCEPT ![t] = Idle]
  /\ UNCHANGED <<client, arcs, stopping, tasks, history, calls, noise>>

---------------------------------------------------------------------------
(* The driver, as a caller sees it.                                        *)

AtSelect == driver = "running" /\ todo = 0 /\ outq = 0

End == driver' = "ended" /\ commands' = <<>> /\ todo' = 0 /\ outq' = 0

(* A command; packets it makes are sent before the next one is taken, and  *)
(* after a send has been answered.                                         *)
command ==
  /\ AtSelect /\ commands # <<>>
  /\ LET c == Head(commands) IN
       \/ /\ c.kind = "announce"
          /\ commands' = Tail(commands) /\ outq' \in {0, 1}
          /\ UNCHANGED <<driver, todo, call>>
       \/ /\ c.kind = "send"
          /\ commands' = Tail(commands) /\ outq' \in {0, 1}
          /\ To(c.by, "send", "returning")
          /\ UNCHANGED <<driver, todo>>
       \/ /\ c.kind = "disconnect"
          /\ End
          /\ UNCHANGED call
  /\ UNCHANGED <<client, arcs, stopping, events, worker, history, calls, noise>>

(* A packet or the timer makes the node raise an event, send, or both.     *)
inbound ==
  /\ AtSelect /\ noise < MaxEvents
  /\ noise' = noise + 1
  /\ todo' \in {0, 1} /\ outq' \in {0, 1} /\ todo' + outq' > 0
  /\ UNCHANGED <<client, call, arcs, stopping, driver, commands, events, worker,
                 history, calls>>

(* Mutant of emit: the channel is unbounded.                               *)
emit_unbounded ==
  /\ driver = "running" /\ todo > 0
  /\ events' = events + 1
  /\ todo' = todo - 1
  /\ UNCHANGED <<client, call, arcs, stopping, driver, commands, outq, worker, history,
                 calls, noise>>

(* An event is emitted when there is room, or lost if nobody receives.     *)
emit ==
  /\ driver = "running" /\ todo > 0
  /\ \/ worker.at # "ended" /\ events < EVENT_CAPACITY /\ events' = events + 1
     \/ worker.at = "ended" /\ UNCHANGED events
  /\ todo' = todo - 1
  /\ UNCHANGED <<client, call, arcs, stopping, driver, commands, outq, worker, history,
                 calls, noise>>

(* The node's packets go to the interface, once its channel has room; if   *)
(* the interface has ended, that is an event too.                          *)
drain_outbound ==
  /\ driver = "running" /\ todo = 0 /\ outq > 0
  /\ outq' = 0 /\ todo' \in {0, 1}
  /\ UNCHANGED <<client, call, arcs, stopping, driver, commands, events, worker,
                 history, calls, noise>>

(* The connection is closed: the driver's only interface.                  *)
interface_closed ==
  /\ AtSelect
  /\ End
  /\ UNCHANGED <<client, call, arcs, stopping, events, worker, history, calls, noise>>

---------------------------------------------------------------------------
(* The run_events task.                                                    *)

Worker(at, with) == worker' = [at |-> at, with |-> with]

(* An event is received and the handler cloned.  Without a handler, or for *)
(* an event that has no callback, the event is dropped.                    *)
run_events ==
  /\ worker.at = "recv"
  /\ \/ /\ events > 0
        /\ events' = events - 1
        /\ \/ handler # NoHandler /\ Worker("cloned", handler)
           \/ UNCHANGED worker
     \/ /\ events = 0 /\ driver # "running"
        /\ Worker("ended", NoHandler)
        /\ UNCHANGED events
  /\ UNCHANGED <<client, call, arcs, stopping, driver, commands, todo, outq, history,
                 calls, noise>>

callback ==
  /\ worker.at = "cloned"
  /\ worker' = [worker EXCEPT !.at = "called"]
  /\ late' = IF worker.with # handler THEN late + 1 ELSE late
  /\ UNCHANGED <<client, call, arcs, stopping, driver, commands, todo, outq, events,
                 registered, failed, inside, calls, noise>>

(* Mutant of callback_returns: the events that have queued up meanwhile    *)
(* are handed to the same handler.                                         *)
callback_returns_batched ==
  /\ worker.at = "called"
  /\ IF events > 0 THEN Worker("cloned", worker.with) /\ events' = events - 1
                   ELSE Worker("recv", NoHandler) /\ UNCHANGED events
  /\ UNCHANGED <<client, call, arcs, stopping, driver, commands, todo, outq, history,
                 calls, noise>>

callback_returns ==
  /\ worker.at = "called"
  /\ Worker("recv", NoHandler)
  /\ UNCHANGED <<client, call, arcs, stopping, driver, commands, todo, outq, events,
                 history, calls, noise>>

(* A callback calls a method that needs the state.                         *)
nested_call ==
  /\ worker.at = "called" /\ calls < MaxCalls
  /\ calls' = calls + 1
  /\ worker' = [worker EXCEPT !.at = "locking"]
  /\ UNCHANGED <<client, call, arcs, stopping, driver, commands, todo, outq, events,
                 history, noise>>

(* announce, send and disconnect go on to block_on if there is a           *)
(* connection; every other call returns, with an error.                    *)
nested_locked ==
  /\ worker.at = "locking" /\ Unlocked
  /\ \/ /\ worker' = [worker EXCEPT !.at = "called"]
        /\ UNCHANGED <<arcs, inside>>
     \/ /\ state = "Connected"
        /\ arcs' = arcs \cup {Callback}
        /\ worker' = [worker EXCEPT !.at = "blocking"]
        /\ inside' = TRUE
  /\ UNCHANGED <<client, call, stopping, driver, commands, todo, outq, events,
                 registered, failed, late, calls, noise>>

(* block_on panics inside the runtime.  The panic ends the task, unless    *)
(* the callback catches it; the clone is dropped on the way, and a runtime *)
(* dropped by a panicking worker is not waited for.                        *)
nested_panics ==
  /\ worker.at = "blocking"
  /\ arcs' = arcs \ {Callback}
  /\ stopping' = (stopping \/ (arcs' = {} /\ state # "Connected"))
  /\ \/ worker' = [worker EXCEPT !.at = "called"] /\ UNCHANGED events
     \/ Worker("ended", NoHandler) /\ events' = 0
  /\ UNCHANGED <<client, call, driver, commands, todo, outq, history, calls, noise>>

---------------------------------------------------------------------------
(* A runtime that shuts down drops each task at its next await.            *)
stop_driver ==
  /\ stopping /\ driver = "running"
  /\ End
  /\ UNCHANGED <<client, call, arcs, stopping, events, worker, history, calls, noise>>

stop_events ==
  /\ stopping /\ worker.at = "recv"
  /\ Worker("ended", NoHandler)
  /\ events' = 0
  /\ UNCHANGED <<client, call, arcs, stopping, driver, commands, todo, outq, history,
                 calls, noise>>

(* What a thread does once it is in a call.                                *)
Step(t) ==
  \/ tcp_failed(t) \/ tcp_connected(t) \/ enqueue(t) \/ reply_dropped(t) \/ close(t)
  \/ returns(t) \/ dropped(t)

Run == command \/ emit

Listen ==
  \/ run_events \/ callback \/ callback_returns \/ nested_locked \/ nested_panics

Next ==
  \/ \E h \in Handlers \cup {NoHandler} : set_event_handler(h)
  \/ \E t \in Threads :
       \/ \E d \in Dests : register_single_destination(t, d)
       \/ connect_tcp(t)
       \/ \E kind \in Kinds : connection(t, kind)
       \/ Step(t)
  \/ Run \/ drain_outbound \/ inbound \/ interface_closed
  \/ Listen \/ nested_call
  \/ stop_driver \/ stop_events

(* Threads are scheduled, connecting ends one way or the other, tokio runs *)
(* its tasks and stops those it was told to stop, and callbacks return.    *)
(* The interface's channel may stay full for ever (run driver_wedge shows  *)
(* how), so that nothing is assumed of drain_outbound.                     *)
Fairness ==
  /\ \A t \in Threads : WF_vars(Step(t))
  /\ WF_vars(Run) /\ WF_vars(Listen)
  /\ WF_vars(stop_driver) /\ WF_vars(stop_events)

Spec == Init /\ [][Next]_vars

FairSpec == Spec /\ Fairness

---------------------------------------------------------------------------
(* Types; the channels keep to their capacity; and a thread that holds the *)
(* runtime is inside a call.                                               *)
TypeOK ==
  /\ state \in {"Configuring", "Connected", "Closed"}
  /\ lock \in Threads \cup {NoThread}
  /\ node \subseteq Dests /\ registered \subseteq Dests
  /\ handler \in Handlers \cup {NoHandler}
  /\ call \in [Threads -> [kind : Kinds \cup {"none", "connect"},
                           at : {"idle", "connecting", "enqueue", "awaiting", "closing",
                                 "returning", "dropping"}]]
  /\ arcs = {t \in Threads : call[t].at \in {"enqueue", "awaiting", "closing", "returning"}}
            \cup {t \in {Callback} : worker.at = "blocking"}
  /\ driver \in {"none", "running", "ended"}
  /\ commands \in Seq([kind : Kinds, by : Threads]) /\ Len(commands) <= COMMAND_CAPACITY
  /\ todo \in {0, 1} /\ outq \in {0, 1} /\ events \in 0 .. EVENT_CAPACITY
  /\ worker \in [at : {"none", "recv", "cloned", "called", "locking", "blocking", "ended"},
                 with : Handlers \cup {NoHandler}]
  /\ stopping \in BOOLEAN /\ failed \in BOOLEAN /\ inside \in BOOLEAN
  /\ late \in Nat /\ calls \in 0 .. MaxCalls /\ noise \in 0 .. MaxEvents

(* Every registration that was answered Ok is in the node the driver will  *)
(* run: however connects and registrations interleave, a connect that did  *)
(* not work out leaves the client as it was, and only a runtime that could *)
(* not be built costs it its node (mem::replace in connect_tcp).           *)
Served ==
  /\ registered \subseteq node \/ failed
  /\ state = "Closed" /\ Unlocked => driver # "none" \/ failed

(* After disconnect, once no call is under way, nothing runs any more: no  *)
(* driver and no callback, whichever thread had the last Arc<Runtime>.     *)
(* The exception is a callback that called back into a blocking method.    *)
QuietWhenClosed ==
  (state = "Closed" /\ Unlocked /\ (\A t \in Threads : call[t] = Idle) /\ ~inside)
    => Stopped

(* A handler that was cleared or replaced may still be called, by the      *)
(* run_events that has just cloned it, but only once.                      *)
OneLateCallback == late <= 1

(* Unless the driver gets stuck in drain_outbound, every call returns: no  *)
(* method waits on a lock or a channel that, by way of the driver,         *)
(* run_events and a callback that makes calls of its own, waits on the     *)
(* method.                                                                 *)
CallsReturn == []<>(outq = 0) => \A t \in Threads : call[t] # Idle ~> call[t] = Idle
=============================================================================
