---------------------------- MODULE ClientProofs ----------------------------
(***************************************************************************)
(* Theorems about module Client, for any number of threads, handlers,      *)
(* calls and events and any capacity of the channels: type correctness,    *)
(* that registrations are served, that a closed client is quiet, and that  *)
(* a replaced handler is called at most once more.                         *)
(***************************************************************************)
EXTENDS Client, TLAPS

(* The kind of a call and the place it has got to.                         *)
CallsFit ==
  \A t \in Threads :
    /\ call[t].at = "idle" => call[t] = Idle
    /\ call[t].at \in {"enqueue", "awaiting", "closing", "returning", "dropping"} => call[t].kind \in Kinds

(* connect_tcp, and nothing else, holds the lock from step to step.        *)
LockFits == \A t \in Threads : call[t].at = "connecting" <=> lock = t

(* A thread waits for every send in the channel, a thread for each.        *)
SendsAwaited ==
  /\ \A i \in DOMAIN commands : commands[i].kind = "send" => call[commands[i].by].at = "awaiting"
  /\ \A i, j \in DOMAIN commands :
       (commands[i].kind = "send" /\ commands[j].kind = "send" /\ commands[i].by = commands[j].by) => i = j

(* The driver's life: nothing runs before the client is connected, and the *)
(* channels of a driver that has ended are empty.                          *)
DriverFits ==
  /\ driver = "none" => /\ worker.at = "none" /\ arcs = {} /\ ~stopping /\ state # "Connected"
                        /\ \A t \in Threads : call[t].at \in {"idle", "connecting"}
  /\ worker.at = "none" => driver = "none"
  /\ driver # "running" => commands = <<>> /\ todo = 0 /\ outq = 0
  /\ state = "Configuring" \/ lock # NoThread => driver = "none"

(* A runtime that has not stopped is kept, or has been told to stop; and   *)
(* whoever told it, unless it was a panicking callback, waits for it.      *)
RuntimeFits ==
  /\ ~Stopped => state = "Connected" \/ arcs # {} \/ stopping
  /\ stopping /\ ~inside => Stopped \/ \E t \in Threads : call[t].at = "dropping"
  /\ worker.at = "blocking" => inside

(* A handler that is out of date when it is cloned has not been called.    *)
LateFits == (worker.at = "cloned" /\ worker.with # handler) => late = 0

CInv ==
  /\ TypeOK /\ CallsFit /\ LockFits /\ SendsAwaited /\ DriverFits /\ RuntimeFits
  /\ LateFits /\ OneLateCallback /\ Served

---------------------------------------------------------------------------
(* Steps.                                                                  *)

(* Sequences: their elements, what is appended, and what is left.          *)
LEMMA SeqFact ==
  ASSUME NEW S, NEW q \in Seq(S)
  PROVE  /\ <<>> \in Seq(S)
         /\ \A i \in DOMAIN q : q[i] \in S
         /\ \A x \in S : Append(q, x) \in Seq(S) /\ Len(Append(q, x)) = Len(q) + 1
         /\ q # <<>> => /\ Len(q) > 0 /\ 1 \in DOMAIN q /\ Head(q) = q[1]
                        /\ Tail(q) \in Seq(S) /\ Len(Tail(q)) = Len(q) - 1
OBVIOUS

(* A call that has found room in the channel, or an ended driver.          *)
LEMMA EnqueueFact ==
  ASSUME TypeOK, CallsFit, NEW t \in Threads, enqueue(t)
  PROVE  /\ call[t].at = "enqueue" /\ call[t].kind \in Kinds
         /\ \E at \in {"returning", "awaiting", "closing"} :
              /\ call' = [call EXCEPT ![t] = [kind |-> call[t].kind, at |-> at]]
              /\ \/ /\ commands' = Append(commands, [kind |-> call[t].kind, by |-> t])
                    /\ driver = "running" /\ Len(commands) < COMMAND_CAPACITY
                    /\ call[t].kind = "send" => at = "awaiting"
                 \/ commands' = commands
BY DEF TypeOK, CallsFit, Kinds, enqueue, To

(* What the driver makes of a command.                                     *)
LEMMA CommandFact ==
  ASSUME TypeOK, SendsAwaited, command
  PROVE  /\ Len(commands) > 0 /\ commands[1] \in [kind : Kinds, by : Threads]
         /\ commands' \in Seq([kind : Kinds, by : Threads])
         /\ \/ commands' = Tail(commands) /\ Len(commands') = Len(commands) - 1
            \/ commands' = <<>>
         /\ \/ call' = call
            \/ /\ commands[1].kind = "send" /\ call[commands[1].by].at = "awaiting"
               /\ call' = [call EXCEPT ![commands[1].by] = [kind |-> "send", at |-> "returning"]]
               /\ commands' = Tail(commands)
         /\ \/ driver' = driver /\ todo' = todo /\ outq' \in {0, 1}
            \/ driver' = "ended" /\ commands' = <<>> /\ todo' = 0 /\ outq' = 0
<1>1. commands \in Seq([kind : Kinds, by : Threads]) /\ commands # <<>>
  BY DEF TypeOK, command
<1>2. /\ Len(commands) > 0 /\ Head(commands) = commands[1] /\ commands[1] \in [kind : Kinds, by : Threads]
      /\ Tail(commands) \in Seq([kind : Kinds, by : Threads]) /\ Len(Tail(commands)) = Len(commands) - 1
      /\ 1 \in DOMAIN commands
  BY <1>1, SeqFact
<1>3. <<>> \in Seq([kind : Kinds, by : Threads])
  OBVIOUS
<1>4. commands[1].kind = "send" => call[commands[1].by].at = "awaiting"
  BY <1>2 DEF SendsAwaited
<1>5. CASE commands[1].kind # "disconnect"
  BY <1>2, <1>4, <1>5 DEF command, To
<1>6. CASE commands[1].kind = "disconnect"
  BY <1>2, <1>3, <1>6 DEF command, End
<1> QED
  BY <1>5, <1>6

(* Types: in particular, the Arc<Runtime> clones are those of the calls under *)
(* way and of a callback that blocks.                                      *)
LEMMA TypeStep ==
  TypeOK /\ CallsFit /\ LockFits /\ SendsAwaited /\ DriverFits /\ [Next]_vars => TypeOK'
<1> SUFFICES ASSUME TypeOK, CallsFit, LockFits, SendsAwaited, DriverFits, [Next]_vars
             PROVE  TypeOK'
  OBVIOUS
<1> USE ClientAssumption DEF TypeOK, client, tasks, history, Kinds, Idle
<1>arcs. ASSUME NEW t \in Threads, NEW c, c.at \in {"enqueue", "awaiting", "closing", "returning"},
                call[t].at \in {"enqueue", "awaiting", "closing", "returning"},
                call' = [call EXCEPT ![t] = c], UNCHANGED <<arcs, worker>>
         PROVE  arcs' = {x \in Threads : call'[x].at \in {"enqueue", "awaiting", "closing", "returning"}}
                        \cup {x \in {Callback} : worker'.at = "blocking"}
  BY <1>arcs DEF TypeOK
<1>1. ASSUME NEW h \in Handlers \cup {NoHandler}, set_event_handler(h) PROVE TypeOK'
  BY <1>1 DEF set_event_handler, Begins
<1>2. ASSUME NEW t \in Threads, NEW d \in Dests, register_single_destination(t, d) PROVE TypeOK'
  BY <1>2 DEF register_single_destination, Begins
<1>3. ASSUME NEW t \in Threads, connect_tcp(t) PROVE TypeOK'
  <2>1. calls' \in 0 .. MaxCalls /\ state' = "Closed" /\ call[t] = Idle
        /\ UNCHANGED <<handler, arcs, stopping, driver, commands, todo, outq, events, worker, registered,
                       inside, late, noise>>
    BY <1>3 DEF connect_tcp, Begins
  <2>2. CASE lock' = t /\ To(t, "connect", "connecting") /\ UNCHANGED <<node, failed>>
    <3>1. call' \in [Threads -> [kind : Kinds \cup {"none", "connect"},
                                 at : {"idle", "connecting", "enqueue", "awaiting", "closing",
                                       "returning", "dropping"}]]
      BY <2>2 DEF To
    <3>2. \A x \in Threads : call'[x].at \in {"enqueue", "awaiting", "closing", "returning"}
                             <=> call[x].at \in {"enqueue", "awaiting", "closing", "returning"}
      BY <2>1, <2>2 DEF To
    <3> QED
      BY <2>1, <2>2, <3>1, <3>2
  <2>3. CASE failed' = TRUE /\ node' = {} /\ UNCHANGED <<lock, call>>
    BY <2>1, <2>3
  <2> QED
    BY <1>3, <2>2, <2>3 DEF connect_tcp
<1>4. ASSUME NEW t \in Threads, NEW kind \in Kinds, connection(t, kind) PROVE TypeOK'
  BY <1>4 DEF connection, Begins, To
<1>5. ASSUME NEW t \in Threads, tcp_failed(t) PROVE TypeOK'
  BY <1>5 DEF tcp_failed
<1>6. ASSUME NEW t \in Threads, tcp_connected(t) PROVE TypeOK'
  <2>1. worker.at = "none" /\ worker' = [at |-> "recv", with |-> worker.with]
    BY <1>6 DEF tcp_connected, LockFits, DriverFits
  <2>2. arcs' = {x \in Threads : call'[x].at \in {"enqueue", "awaiting", "closing", "returning"}}
                \cup {x \in {Callback} : worker'.at = "blocking"}
    BY <1>6, <2>1 DEF tcp_connected
  <2>3. call' \in [Threads -> [kind : Kinds \cup {"none", "connect"},
                               at : {"idle", "connecting", "enqueue", "awaiting", "closing",
                                     "returning", "dropping"}]]
    BY <1>6 DEF tcp_connected
  <2>4. worker' \in [at : {"none", "recv", "cloned", "called", "locking", "blocking", "ended"},
                     with : Handlers \cup {NoHandler}]
    BY <2>1
  <2> QED
    BY <1>6, <2>2, <2>3, <2>4 DEF tcp_connected
<1>7. ASSUME NEW t \in Threads, enqueue(t) PROVE TypeOK'
  <2>1. UNCHANGED <<client, arcs, stopping, driver, todo, outq, events, worker, history, calls, noise>>
    BY <1>7 DEF enqueue
  <2> PICK at \in {"returning", "awaiting", "closing"} :
         call' = [call EXCEPT ![t] = [kind |-> call[t].kind, at |-> at]]
    BY <1>7, EnqueueFact
  <2>2. call[t].at = "enqueue" /\ call[t].kind \in Kinds
    BY <1>7, EnqueueFact
  <2>3. arcs' = {x \in Threads : call'[x].at \in {"enqueue", "awaiting", "closing", "returning"}}
                \cup {x \in {Callback} : worker'.at = "blocking"}
    BY <1>arcs, <2>1, <2>2
  <2>4. call' \in [Threads -> [kind : Kinds \cup {"none", "connect"},
                               at : {"idle", "connecting", "enqueue", "awaiting", "closing",
                                     "returning", "dropping"}]]
    BY <2>2
  <2>5. [kind |-> call[t].kind, by |-> t] \in [kind : Kinds, by : Threads]
    BY <2>2
  <2>6. commands' \in Seq([kind : Kinds, by : Threads]) /\ Len(commands') <= COMMAND_CAPACITY
    <3>1. \/ commands' = commands
          \/ commands' = Append(commands, [kind |-> call[t].kind, by |-> t]) /\ Len(commands) < COMMAND_CAPACITY
      BY <1>7, EnqueueFact
    <3> DEFINE c == [kind |-> call[t].kind, by |-> t]
    <3>2. Append(commands, c) \in Seq([kind : Kinds, by : Threads]) /\ Len(Append(commands, c)) = Len(commands) + 1
      BY <2>5, SeqFact
    <3>3. Len(commands) \in Nat /\ COMMAND_CAPACITY \in Nat
      OBVIOUS
    <3> HIDE DEF c
    <3>4. Len(commands) < COMMAND_CAPACITY => Len(commands) + 1 <= COMMAND_CAPACITY
      BY <3>3
    <3> QED
      BY <3>1, <3>2, <3>4 DEF c
  <2> QED
    BY <2>1, <2>3, <2>4, <2>6
<1>8. ASSUME NEW t \in Threads, reply_dropped(t) PROVE TypeOK'
  BY <1>8 DEF reply_dropped, To
<1>9. ASSUME NEW t \in Threads, close(t) PROVE TypeOK'
  BY <1>9 DEF close, To
<1>10. ASSUME NEW t \in Threads, returns(t) PROVE TypeOK'
  <2>1. UNCHANGED <<client, tasks, history, calls, noise>> /\ arcs' = arcs \ {t} /\ call[t].at = "returning"
        /\ stopping' \in BOOLEAN
    BY <1>10 DEF returns
  <2>2. call[t].kind \in Kinds
    BY <2>1 DEF CallsFit
  <2>3. \E c \in [kind : Kinds \cup {"none"}, at : {"idle", "dropping"}] : call' = [call EXCEPT ![t] = c]
    BY <1>10, <2>2 DEF returns, To
  <2>4. call' \in [Threads -> [kind : Kinds \cup {"none", "connect"},
                               at : {"idle", "connecting", "enqueue", "awaiting", "closing",
                                     "returning", "dropping"}]]
    BY <2>3
  <2>5. arcs' = {x \in Threads : call'[x].at \in {"enqueue", "awaiting", "closing", "returning"}}
                \cup {x \in {Callback} : worker'.at = "blocking"}
    BY <2>1, <2>3
  <2> QED
    BY <2>1, <2>4, <2>5
<1>11. ASSUME NEW t \in Threads, dropped(t) PROVE TypeOK'
  BY <1>11 DEF dropped
<1>12. CASE command
  <2>1. UNCHANGED <<client, arcs, stopping, events, worker, history, calls, noise>>
    BY <1>12 DEF command
  <2>2. /\ commands' \in Seq([kind : Kinds, by : Threads]) /\ Len(commands') <= COMMAND_CAPACITY
        /\ driver' \in {"none", "running", "ended"} /\ todo' \in {0, 1} /\ outq' \in {0, 1}
    BY <1>12, CommandFact
  <2>3. CASE call' = call
    BY <2>1, <2>2, <2>3
  <2>4. ASSUME NEW t \in Threads, call[t].at = "awaiting",
               call' = [call EXCEPT ![t] = [kind |-> "send", at |-> "returning"]]
        PROVE  TypeOK'
    <3>1. arcs' = {x \in Threads : call'[x].at \in {"enqueue", "awaiting", "closing", "returning"}}
                  \cup {x \in {Callback} : worker'.at = "blocking"}
      BY <1>arcs, <2>1, <2>4
    <3>2. call' \in [Threads -> [kind : Kinds \cup {"none", "connect"},
                                 at : {"idle", "connecting", "enqueue", "awaiting", "closing",
                                       "returning", "dropping"}]]
      BY <2>4
    <3> QED
      BY <2>1, <2>2, <3>1, <3>2
  <2> QED
    BY <1>12, <2>3, <2>4, CommandFact
<1>13. CASE emit
  BY <1>13 DEF emit
<1>14. CASE inbound
  BY <1>14 DEF inbound, AtSelect
<1>15. CASE interface_closed
  BY <1>15 DEF interface_closed, End, AtSelect
<1>16. CASE run_events
  BY <1>16 DEF run_events, Worker
<1>17. CASE callback
  BY <1>17 DEF callback
<1>18. CASE callback_returns
  BY <1>18 DEF callback_returns, Worker
<1>19. CASE nested_locked
  <2>0. UNCHANGED <<client, call, stopping, driver, commands, todo, outq, events, registered, failed, late,
                    calls, noise>> /\ worker.at = "locking"
    BY <1>19 DEF nested_locked
  <2>1. CASE worker' = [worker EXCEPT !.at = "called"] /\ UNCHANGED <<arcs, inside>>
    <3>1. worker' = [at |-> "called", with |-> worker.with]
      BY <2>1
    <3> QED
      BY <2>0, <2>1, <3>1
  <2>2. CASE arcs' = arcs \cup {Callback} /\ worker' = [worker EXCEPT !.at = "blocking"] /\ inside' = TRUE
    <3>1. worker' = [at |-> "blocking", with |-> worker.with]
      BY <2>2
    <3> QED
      BY <2>0, <2>2, <3>1
  <2> QED
    BY <1>19, <2>1, <2>2 DEF nested_locked
<1>20. CASE nested_panics
  BY <1>20 DEF nested_panics, Worker
<1>21. CASE nested_call
  <2>1. calls' \in 0 .. MaxCalls /\ worker' = [at |-> "locking", with |-> worker.with] /\ worker.at = "called"
        /\ UNCHANGED <<client, call, arcs, stopping, driver, commands, todo, outq, events, history, noise>>
    BY <1>21 DEF nested_call
  <2> QED
    BY <2>1
<1>22. CASE stop_driver
  BY <1>22 DEF stop_driver, End
<1>23. CASE stop_events
  BY <1>23 DEF stop_events, Worker
<1>24. CASE drain_outbound
  BY <1>24 DEF drain_outbound
<1>25. CASE UNCHANGED vars
  BY <1>25 DEF vars
<1> HIDE DEF TypeOK
<1> QED
  BY <1>1, <1>2, <1>3, <1>4, <1>5, <1>6, <1>7, <1>8, <1>9, <1>10, <1>11, <1>12, <1>13, <1>14,
     <1>15, <1>16, <1>17, <1>18, <1>19, <1>20, <1>21, <1>22, <1>23, <1>24, <1>25
     DEF Next, Step, Run, Listen

(* Calls have a kind while they are under way.                             *)
LEMMA CallsStep ==
  TypeOK /\ CallsFit /\ SendsAwaited /\ [Next]_vars => CallsFit'
<1> SUFFICES ASSUME TypeOK, CallsFit, SendsAwaited, [Next]_vars
             PROVE  CallsFit'
  OBVIOUS
<1> USE DEF TypeOK, CallsFit, client, tasks, history, Kinds, Idle
<1>1. ASSUME NEW h \in Handlers \cup {NoHandler}, set_event_handler(h) PROVE CallsFit'
  BY <1>1 DEF set_event_handler, Begins
<1>2. ASSUME NEW t \in Threads, NEW d \in Dests, register_single_destination(t, d) PROVE CallsFit'
  BY <1>2 DEF register_single_destination, Begins
<1>3. ASSUME NEW t \in Threads, connect_tcp(t) PROVE CallsFit'
  BY <1>3 DEF connect_tcp, Begins, To
<1>4. ASSUME NEW t \in Threads, NEW kind \in Kinds, connection(t, kind) PROVE CallsFit'
  BY <1>4 DEF connection, Begins, To
<1>5. ASSUME NEW t \in Threads, tcp_failed(t) PROVE CallsFit'
  BY <1>5 DEF tcp_failed
<1>6. ASSUME NEW t \in Threads, tcp_connected(t) PROVE CallsFit'
  BY <1>6 DEF tcp_connected
<1>7. ASSUME NEW t \in Threads, enqueue(t) PROVE CallsFit'
  BY <1>7 DEF enqueue, To
<1>8. ASSUME NEW t \in Threads, reply_dropped(t) PROVE CallsFit'
  BY <1>8 DEF reply_dropped, To
<1>9. ASSUME NEW t \in Threads, close(t) PROVE CallsFit'
  BY <1>9 DEF close, To
<1>10. ASSUME NEW t \in Threads, returns(t) PROVE CallsFit'
  BY <1>10 DEF returns, To
<1>11. ASSUME NEW t \in Threads, dropped(t) PROVE CallsFit'
  BY <1>11 DEF dropped
<1>12. CASE command
  BY <1>12 DEF command, End, To
<1>13. CASE emit
  BY <1>13 DEF emit
<1>14. CASE inbound
  BY <1>14 DEF inbound, AtSelect
<1>15. CASE interface_closed
  BY <1>15 DEF interface_closed, End, AtSelect
<1>16. CASE run_events
  BY <1>16 DEF run_events, Worker
<1>17. CASE callback
  BY <1>17 DEF callback
<1>18. CASE callback_returns
  BY <1>18 DEF callback_returns, Worker
<1>19. CASE nested_locked
  BY <1>19 DEF nested_locked
<1>20. CASE nested_panics
  BY <1>20 DEF nested_panics, Worker
<1>21. CASE nested_call
  BY <1>21 DEF nested_call
<1>22. CASE stop_driver
  BY <1>22 DEF stop_driver, End
<1>23. CASE stop_events
  BY <1>23 DEF stop_events, Worker
<1>24. CASE drain_outbound
  BY <1>24 DEF drain_outbound
<1>25. CASE UNCHANGED vars
  BY <1>25 DEF vars
<1> QED
  BY <1>1, <1>2, <1>3, <1>4, <1>5, <1>6, <1>7, <1>8, <1>9, <1>10, <1>11, <1>12, <1>13, <1>14,
     <1>15, <1>16, <1>17, <1>18, <1>19, <1>20, <1>21, <1>22, <1>23, <1>24, <1>25
     DEF Next, Step, Run, Listen

(* The lock is taken and released by connect_tcp.                          *)
LEMMA LockStep ==
  TypeOK /\ CallsFit /\ LockFits /\ SendsAwaited /\ [Next]_vars => LockFits'
<1> SUFFICES ASSUME TypeOK, CallsFit, LockFits, SendsAwaited, [Next]_vars
             PROVE  LockFits'
  OBVIOUS
<1> USE ClientAssumption DEF TypeOK, LockFits, Unlocked, client, tasks, history, Idle
<1>1. ASSUME NEW h \in Handlers \cup {NoHandler}, set_event_handler(h) PROVE LockFits'
  BY <1>1 DEF set_event_handler, Begins
<1>2. ASSUME NEW t \in Threads, NEW d \in Dests, register_single_destination(t, d) PROVE LockFits'
  BY <1>2 DEF register_single_destination, Begins
<1>3. ASSUME NEW t \in Threads, connect_tcp(t) PROVE LockFits'
  BY <1>3 DEF connect_tcp, Begins, To
<1>4. ASSUME NEW t \in Threads, NEW kind \in Kinds, connection(t, kind) PROVE LockFits'
  BY <1>4 DEF connection, Begins, To
<1>5. ASSUME NEW t \in Threads, tcp_failed(t) PROVE LockFits'
  BY <1>5 DEF tcp_failed
<1>6. ASSUME NEW t \in Threads, tcp_connected(t) PROVE LockFits'
  BY <1>6 DEF tcp_connected
<1>7. ASSUME NEW t \in Threads, enqueue(t) PROVE LockFits'
  <2>1. lock' = lock
    BY <1>7 DEF enqueue
  <2>2. PICK at \in {"returning", "awaiting", "closing"} :
         call' = [call EXCEPT ![t] = [kind |-> call[t].kind, at |-> at]]
    BY <1>7, EnqueueFact
  <2>3. call[t].at = "enqueue"
    BY <1>7, EnqueueFact
  <2>4. call'[t].at = at /\ at # "connecting" /\ \A x \in Threads \ {t} : call'[x] = call[x]
    BY <2>2
  <2> QED
    BY <2>1, <2>3, <2>4
<1>8. ASSUME NEW t \in Threads, reply_dropped(t) PROVE LockFits'
  BY <1>8 DEF reply_dropped, To
<1>9. ASSUME NEW t \in Threads, close(t) PROVE LockFits'
  BY <1>9 DEF close, To
<1>10. ASSUME NEW t \in Threads, returns(t) PROVE LockFits'
  BY <1>10 DEF returns, To
<1>11. ASSUME NEW t \in Threads, dropped(t) PROVE LockFits'
  BY <1>11 DEF dropped
<1>12. CASE command
  BY <1>12, CommandFact DEF command
<1>13. CASE emit
  BY <1>13 DEF emit
<1>14. CASE inbound
  BY <1>14 DEF inbound, AtSelect
<1>15. CASE interface_closed
  BY <1>15 DEF interface_closed, End, AtSelect
<1>16. CASE run_events
  BY <1>16 DEF run_events, Worker
<1>17. CASE callback
  BY <1>17 DEF callback
<1>18. CASE callback_returns
  BY <1>18 DEF callback_returns, Worker
<1>19. CASE nested_locked
  BY <1>19 DEF nested_locked
<1>20. CASE nested_panics
  BY <1>20 DEF nested_panics, Worker
<1>21. CASE nested_call
  BY <1>21 DEF nested_call
<1>22. CASE stop_driver
  BY <1>22 DEF stop_driver, End
<1>23. CASE stop_events
  BY <1>23 DEF stop_events, Worker
<1>24. CASE drain_outbound
  BY <1>24 DEF drain_outbound
<1>25. CASE UNCHANGED vars
  BY <1>25 DEF vars
<1> QED
  BY <1>1, <1>2, <1>3, <1>4, <1>5, <1>6, <1>7, <1>8, <1>9, <1>10, <1>11, <1>12, <1>13, <1>14,
     <1>15, <1>16, <1>17, <1>18, <1>19, <1>20, <1>21, <1>22, <1>23, <1>24, <1>25
     DEF Next, Step, Run, Listen

(* No command outlives the call that waits for its answer.                 *)
LEMMA SendsStep ==
  TypeOK /\ CallsFit /\ DriverFits /\ SendsAwaited /\ [Next]_vars => SendsAwaited'
<1> SUFFICES ASSUME TypeOK, CallsFit, DriverFits, SendsAwaited, [Next]_vars
             PROVE  SendsAwaited'
  OBVIOUS
<1> USE DEF TypeOK, SendsAwaited, DriverFits, Unlocked, client, tasks, history, Idle, Kinds
<1>1. ASSUME NEW h \in Handlers \cup {NoHandler}, set_event_handler(h) PROVE SendsAwaited'
  BY <1>1 DEF set_event_handler, Begins
<1>2. ASSUME NEW t \in Threads, NEW d \in Dests, register_single_destination(t, d) PROVE SendsAwaited'
  BY <1>2 DEF register_single_destination, Begins
<1>3. ASSUME NEW t \in Threads, connect_tcp(t) PROVE SendsAwaited'
  BY <1>3 DEF connect_tcp, Begins, To
<1>4. ASSUME NEW t \in Threads, NEW kind \in Kinds, connection(t, kind) PROVE SendsAwaited'
  BY <1>4 DEF connection, Begins, To
<1>5. ASSUME NEW t \in Threads, tcp_failed(t) PROVE SendsAwaited'
  BY <1>5 DEF tcp_failed
<1>6. ASSUME NEW t \in Threads, tcp_connected(t) PROVE SendsAwaited'
  BY <1>6 DEF tcp_connected
<1>7. ASSUME NEW t \in Threads, enqueue(t) PROVE SendsAwaited'
  <2> PICK at \in {"returning", "awaiting", "closing"} :
         /\ call' = [call EXCEPT ![t] = [kind |-> call[t].kind, at |-> at]]
         /\ \/ /\ commands' = Append(commands, [kind |-> call[t].kind, by |-> t])
               /\ driver = "running" /\ Len(commands) < COMMAND_CAPACITY
               /\ call[t].kind = "send" => at = "awaiting"
            \/ commands' = commands
    BY <1>7, EnqueueFact
  <2>1. call[t].at = "enqueue" /\ call[t].kind \in Kinds
    BY <1>7, EnqueueFact
  <2>2. \A i \in DOMAIN commands : commands[i] \in [kind : Kinds, by : Threads]
    <3>1. commands \in Seq([kind : Kinds, by : Threads])
      OBVIOUS
    <3> QED
      BY <3>1, SeqFact
  <2>3. \A i \in DOMAIN commands : commands[i].kind = "send" => commands[i].by # t
    BY <2>1
  <2>4. CASE commands' = commands
    BY <2>2, <2>3, <2>4
  <2>5. CASE commands' = Append(commands, [kind |-> call[t].kind, by |-> t]) /\ (call[t].kind = "send" => at = "awaiting")
    <3>1. /\ DOMAIN commands' = DOMAIN commands \cup {Len(commands) + 1}
          /\ \A i \in DOMAIN commands : commands'[i] = commands[i]
          /\ commands'[Len(commands) + 1] = [kind |-> call[t].kind, by |-> t]
      BY <2>5
    <3>2. \A i \in DOMAIN commands' : commands'[i].kind = "send" => call'[commands'[i].by].at = "awaiting"
      BY <2>2, <2>3, <2>5, <3>1
    <3>3. \A i, j \in DOMAIN commands' :
            (commands'[i].kind = "send" /\ commands'[j].kind = "send" /\ commands'[i].by = commands'[j].by) => i = j
      BY <2>3, <3>1
    <3> QED
      BY <3>2, <3>3
  <2> QED
    BY <2>4, <2>5
<1>8. ASSUME NEW t \in Threads, reply_dropped(t) PROVE SendsAwaited'
  BY <1>8 DEF reply_dropped, To
<1>9. ASSUME NEW t \in Threads, close(t) PROVE SendsAwaited'
  BY <1>9 DEF close, To
<1>10. ASSUME NEW t \in Threads, returns(t) PROVE SendsAwaited'
  <2>1. commands' = commands /\ call[t].at = "returning" /\ \E c : call' = [call EXCEPT ![t] = c]
    BY <1>10 DEF returns, To
  <2>2. \A i \in DOMAIN commands : commands[i] \in [kind : Kinds, by : Threads]
    <3>1. commands \in Seq([kind : Kinds, by : Threads])
      OBVIOUS
    <3> QED
      BY <3>1, SeqFact
  <2> QED
    BY <2>1, <2>2
<1>11. ASSUME NEW t \in Threads, dropped(t) PROVE SendsAwaited'
  BY <1>11 DEF dropped
<1>12. CASE command
  <2>1. CASE commands' = <<>>
    BY <2>1
  <2>2. CASE commands' = Tail(commands)
    <3>1. /\ \A i \in DOMAIN commands' : i \in Nat \ {0} /\ i + 1 \in DOMAIN commands /\ commands'[i] = commands[i + 1]
          /\ 1 \in DOMAIN commands
      BY <1>12, <2>2, CommandFact
    <3>0. \A i, j \in DOMAIN commands :
            (commands[i].kind = "send" /\ commands[j].kind = "send" /\ commands[i].by = commands[j].by) => i = j
      BY DEF SendsAwaited
    <3> HIDE DEF TypeOK, SendsAwaited, DriverFits
    <3>2. \A i, j \in DOMAIN commands' :
            (commands'[i].kind = "send" /\ commands'[j].kind = "send" /\ commands'[i].by = commands'[j].by) => i = j
      <4> SUFFICES ASSUME NEW i \in DOMAIN commands', NEW j \in DOMAIN commands',
                          commands'[i].kind = "send", commands'[j].kind = "send", commands'[i].by = commands'[j].by
                   PROVE  i = j
        OBVIOUS
      <4>1. i + 1 = j + 1
        BY <3>0, <3>1
      <4> QED
        BY <3>1, <4>1
    <3>3. \A i \in DOMAIN commands' : commands'[i].kind = "send" => call[commands'[i].by].at = "awaiting"
      BY <3>1 DEF SendsAwaited
    <3>4. \A i \in DOMAIN commands' : commands'[i].kind = "send" => call'[commands'[i].by].at = "awaiting"
      <4>1. CASE call' = call
        BY <3>3, <4>1
      <4>2. CASE commands[1].kind = "send" /\ call' = [call EXCEPT ![commands[1].by] = [kind |-> "send", at |-> "returning"]]
        <5>1. ASSUME NEW i \in DOMAIN commands', commands'[i].kind = "send"
              PROVE  commands'[i].by # commands[1].by /\ commands'[i].by \in Threads
          <6>1. commands[i + 1].by # commands[1].by
            <7>1. i + 1 # 1
              BY <3>1
            <7> QED
              BY <3>0, <3>1, <4>2, <5>1, <7>1
          <6>2. commands[i + 1] \in [kind : Kinds, by : Threads]
            BY <3>1, SeqFact DEF TypeOK
          <6> QED
            BY <3>1, <6>1, <6>2
        <5> QED
          BY <3>3, <4>2, <5>1 DEF TypeOK
      <4> QED
        BY <1>12, <4>1, <4>2, CommandFact
    <3> QED
      BY <3>2, <3>4 DEF SendsAwaited
  <2> QED
    BY <1>12, <2>1, <2>2, CommandFact
<1>13. CASE emit
  BY <1>13 DEF emit
<1>14. CASE inbound
  BY <1>14 DEF inbound, AtSelect
<1>15. CASE interface_closed
  BY <1>15 DEF interface_closed, End, AtSelect
<1>16. CASE run_events
  BY <1>16 DEF run_events, Worker
<1>17. CASE callback
  BY <1>17 DEF callback
<1>18. CASE callback_returns
  BY <1>18 DEF callback_returns, Worker
<1>19. CASE nested_locked
  BY <1>19 DEF nested_locked
<1>20. CASE nested_panics
  BY <1>20 DEF nested_panics, Worker
<1>21. CASE nested_call
  BY <1>21 DEF nested_call
<1>22. CASE stop_driver
  BY <1>22 DEF stop_driver, End
<1>23. CASE stop_events
  BY <1>23 DEF stop_events, Worker
<1>24. CASE drain_outbound
  BY <1>24 DEF drain_outbound
<1>25. CASE UNCHANGED vars
  BY <1>25 DEF vars
<1> QED
  BY <1>1, <1>2, <1>3, <1>4, <1>5, <1>6, <1>7, <1>8, <1>9, <1>10, <1>11, <1>12, <1>13, <1>14,
     <1>15, <1>16, <1>17, <1>18, <1>19, <1>20, <1>21, <1>22, <1>23, <1>24, <1>25
     DEF Next, Step, Run, Listen

(* The driver starts once, when the client is connected.                   *)
LEMMA DriverStep ==
  TypeOK /\ CallsFit /\ LockFits /\ DriverFits /\ SendsAwaited /\ [Next]_vars => DriverFits'
<1> SUFFICES ASSUME TypeOK, CallsFit, LockFits, DriverFits, SendsAwaited, [Next]_vars
             PROVE  DriverFits'
  OBVIOUS
<1> USE ClientAssumption DEF TypeOK, LockFits, DriverFits, Unlocked, client, tasks, history, Idle
<1>1. ASSUME NEW h \in Handlers \cup {NoHandler}, set_event_handler(h) PROVE DriverFits'
  BY <1>1 DEF set_event_handler, Begins
<1>2. ASSUME NEW t \in Threads, NEW d \in Dests, register_single_destination(t, d) PROVE DriverFits'
  BY <1>2 DEF register_single_destination, Begins
<1>3. ASSUME NEW t \in Threads, connect_tcp(t) PROVE DriverFits'
  BY <1>3 DEF connect_tcp, Begins, To
<1>4. ASSUME NEW t \in Threads, NEW kind \in Kinds, connection(t, kind) PROVE DriverFits'
  BY <1>4 DEF connection, Begins, To
<1>5. ASSUME NEW t \in Threads, tcp_failed(t) PROVE DriverFits'
  BY <1>5 DEF tcp_failed
<1>6. ASSUME NEW t \in Threads, tcp_connected(t) PROVE DriverFits'
  BY <1>6 DEF tcp_connected
<1>7. ASSUME NEW t \in Threads, enqueue(t) PROVE DriverFits'
  BY <1>7 DEF enqueue, To
<1>8. ASSUME NEW t \in Threads, reply_dropped(t) PROVE DriverFits'
  BY <1>8 DEF reply_dropped, To
<1>9. ASSUME NEW t \in Threads, close(t) PROVE DriverFits'
  BY <1>9 DEF close, To
<1>10. ASSUME NEW t \in Threads, returns(t) PROVE DriverFits'
  BY <1>10 DEF returns, To
<1>11. ASSUME NEW t \in Threads, dropped(t) PROVE DriverFits'
  BY <1>11 DEF dropped
<1>12. CASE command
  BY <1>12 DEF command, End, To
<1>13. CASE emit
  BY <1>13 DEF emit
<1>14. CASE inbound
  BY <1>14 DEF inbound, AtSelect
<1>15. CASE interface_closed
  BY <1>15 DEF interface_closed, End, AtSelect
<1>16. CASE run_events
  BY <1>16 DEF run_events, Worker
<1>17. CASE callback
  BY <1>17 DEF callback
<1>18. CASE callback_returns
  BY <1>18 DEF callback_returns, Worker
<1>19. CASE nested_locked
  BY <1>19 DEF nested_locked
<1>20. CASE nested_panics
  BY <1>20 DEF nested_panics, Worker
<1>21. CASE nested_call
  BY <1>21 DEF nested_call
<1>22. CASE stop_driver
  BY <1>22 DEF stop_driver, End
<1>23. CASE stop_events
  BY <1>23 DEF stop_events, Worker
<1>24. CASE drain_outbound
  BY <1>24 DEF drain_outbound
<1>25. CASE UNCHANGED vars
  BY <1>25 DEF vars
<1> QED
  BY <1>1, <1>2, <1>3, <1>4, <1>5, <1>6, <1>7, <1>8, <1>9, <1>10, <1>11, <1>12, <1>13, <1>14,
     <1>15, <1>16, <1>17, <1>18, <1>19, <1>20, <1>21, <1>22, <1>23, <1>24, <1>25
     DEF Next, Step, Run, Listen

(* Whoever drops the last Arc<Runtime> stops the runtime, and waits.       *)
LEMMA RuntimeStep ==
  TypeOK /\ CallsFit /\ LockFits /\ DriverFits /\ SendsAwaited /\ RuntimeFits /\ [Next]_vars => RuntimeFits'
<1> SUFFICES ASSUME TypeOK, CallsFit, LockFits, DriverFits, SendsAwaited, RuntimeFits, [Next]_vars
             PROVE  RuntimeFits'
  OBVIOUS
<1> USE ClientAssumption DEF TypeOK, LockFits, DriverFits, RuntimeFits, SendsAwaited, Stopped, Unlocked,
        client, tasks, history, Idle
<1>1. ASSUME NEW h \in Handlers \cup {NoHandler}, set_event_handler(h) PROVE RuntimeFits'
  BY <1>1 DEF set_event_handler, Begins
<1>2. ASSUME NEW t \in Threads, NEW d \in Dests, register_single_destination(t, d) PROVE RuntimeFits'
  BY <1>2 DEF register_single_destination, Begins
<1>3. ASSUME NEW t \in Threads, connect_tcp(t) PROVE RuntimeFits'
  BY <1>3 DEF connect_tcp, Begins, To
<1>4. ASSUME NEW t \in Threads, NEW kind \in Kinds, connection(t, kind) PROVE RuntimeFits'
  BY <1>4 DEF connection, Begins, To
<1>5. ASSUME NEW t \in Threads, tcp_failed(t) PROVE RuntimeFits'
  BY <1>5 DEF tcp_failed
<1>6. ASSUME NEW t \in Threads, tcp_connected(t) PROVE RuntimeFits'
  BY <1>6 DEF tcp_connected
<1>7. ASSUME NEW t \in Threads, enqueue(t) PROVE RuntimeFits'
  <2>1. UNCHANGED <<state, lock, arcs, stopping, driver, worker, inside>>
    BY <1>7 DEF enqueue
  <2>2. PICK at \in {"returning", "awaiting", "closing"} :
         call' = [call EXCEPT ![t] = [kind |-> call[t].kind, at |-> at]]
    BY <1>7, EnqueueFact
  <2>3. call[t].at = "enqueue"
    BY <1>7, EnqueueFact
  <2>4. \A x \in Threads : call[x].at = "dropping" => call'[x].at = "dropping"
    BY <2>2, <2>3
  <2> QED
    BY <2>1, <2>4
<1>8. ASSUME NEW t \in Threads, reply_dropped(t) PROVE RuntimeFits'
  BY <1>8 DEF reply_dropped, To
<1>9. ASSUME NEW t \in Threads, close(t) PROVE RuntimeFits'
  BY <1>9 DEF close, To
<1>10. ASSUME NEW t \in Threads, returns(t) PROVE RuntimeFits'
  BY <1>10 DEF returns, To
<1>11. ASSUME NEW t \in Threads, dropped(t) PROVE RuntimeFits'
  BY <1>11 DEF dropped
<1>12. CASE command
  BY <1>12 DEF command, End, To
<1>13. CASE emit
  BY <1>13 DEF emit
<1>14. CASE inbound
  BY <1>14 DEF inbound, AtSelect
<1>15. CASE interface_closed
  BY <1>15 DEF interface_closed, End, AtSelect
<1>16. CASE run_events
  BY <1>16 DEF run_events, Worker
<1>17. CASE callback
  BY <1>17 DEF callback
<1>18. CASE callback_returns
  BY <1>18 DEF callback_returns, Worker
<1>19. CASE nested_locked
  BY <1>19 DEF nested_locked
<1>20. CASE nested_panics
  BY <1>20 DEF nested_panics, Worker
<1>21. CASE nested_call
  BY <1>21 DEF nested_call
<1>22. CASE stop_driver
  BY <1>22 DEF stop_driver, End
<1>23. CASE stop_events
  BY <1>23 DEF stop_events, Worker
<1>24. CASE drain_outbound
  BY <1>24 DEF drain_outbound
<1>25. CASE UNCHANGED vars
  BY <1>25 DEF vars
<1> QED
  BY <1>1, <1>2, <1>3, <1>4, <1>5, <1>6, <1>7, <1>8, <1>9, <1>10, <1>11, <1>12, <1>13, <1>14,
     <1>15, <1>16, <1>17, <1>18, <1>19, <1>20, <1>21, <1>22, <1>23, <1>24, <1>25
     DEF Next, Step, Run, Listen

(* A handler is cloned anew for every event.                               *)
LEMMA LateStep ==
  TypeOK /\ LateFits /\ OneLateCallback /\ [Next]_vars => (LateFits /\ OneLateCallback)'
<1> SUFFICES ASSUME TypeOK, LateFits, OneLateCallback, [Next]_vars
             PROVE  (LateFits /\ OneLateCallback)'
  OBVIOUS
<1> USE DEF TypeOK, LateFits, OneLateCallback, client, tasks, history
<1>1. ASSUME NEW h \in Handlers \cup {NoHandler}, set_event_handler(h) PROVE (LateFits /\ OneLateCallback)'
  BY <1>1 DEF set_event_handler, Begins
<1>2. ASSUME NEW t \in Threads, NEW d \in Dests, register_single_destination(t, d) PROVE (LateFits /\ OneLateCallback)'
  BY <1>2 DEF register_single_destination, Begins
<1>3. ASSUME NEW t \in Threads, connect_tcp(t) PROVE (LateFits /\ OneLateCallback)'
  BY <1>3 DEF connect_tcp, Begins, To
<1>4. ASSUME NEW t \in Threads, NEW kind \in Kinds, connection(t, kind) PROVE (LateFits /\ OneLateCallback)'
  BY <1>4 DEF connection, Begins, To
<1>5. ASSUME NEW t \in Threads, tcp_failed(t) PROVE (LateFits /\ OneLateCallback)'
  BY <1>5 DEF tcp_failed
<1>6. ASSUME NEW t \in Threads, tcp_connected(t) PROVE (LateFits /\ OneLateCallback)'
  BY <1>6 DEF tcp_connected
<1>7. ASSUME NEW t \in Threads, enqueue(t) PROVE (LateFits /\ OneLateCallback)'
  BY <1>7 DEF enqueue, To
<1>8. ASSUME NEW t \in Threads, reply_dropped(t) PROVE (LateFits /\ OneLateCallback)'
  BY <1>8 DEF reply_dropped, To
<1>9. ASSUME NEW t \in Threads, close(t) PROVE (LateFits /\ OneLateCallback)'
  BY <1>9 DEF close, To
<1>10. ASSUME NEW t \in Threads, returns(t) PROVE (LateFits /\ OneLateCallback)'
  BY <1>10 DEF returns, To
<1>11. ASSUME NEW t \in Threads, dropped(t) PROVE (LateFits /\ OneLateCallback)'
  BY <1>11 DEF dropped
<1>12. CASE command
  BY <1>12 DEF command, End, To
<1>13. CASE emit
  BY <1>13 DEF emit
<1>14. CASE inbound
  BY <1>14 DEF inbound, AtSelect
<1>15. CASE interface_closed
  BY <1>15 DEF interface_closed, End, AtSelect
<1>16. CASE run_events
  BY <1>16 DEF run_events, Worker
<1>17. CASE callback
  BY <1>17 DEF callback
<1>18. CASE callback_returns
  BY <1>18 DEF callback_returns, Worker
<1>19. CASE nested_locked
  BY <1>19 DEF nested_locked
<1>20. CASE nested_panics
  BY <1>20 DEF nested_panics, Worker
<1>21. CASE nested_call
  BY <1>21 DEF nested_call
<1>22. CASE stop_driver
  BY <1>22 DEF stop_driver, End
<1>23. CASE stop_events
  BY <1>23 DEF stop_events, Worker
<1>24. CASE drain_outbound
  BY <1>24 DEF drain_outbound
<1>25. CASE UNCHANGED vars
  BY <1>25 DEF vars
<1> QED
  BY <1>1, <1>2, <1>3, <1>4, <1>5, <1>6, <1>7, <1>8, <1>9, <1>10, <1>11, <1>12, <1>13, <1>14,
     <1>15, <1>16, <1>17, <1>18, <1>19, <1>20, <1>21, <1>22, <1>23, <1>24, <1>25
     DEF Next, Step, Run, Listen

(* The node is put back when there is no connection.                       *)
LEMMA ServedStep ==
  TypeOK /\ LockFits /\ DriverFits /\ Served /\ [Next]_vars => Served'
<1> SUFFICES ASSUME TypeOK, LockFits, DriverFits, Served, [Next]_vars
             PROVE  Served'
  OBVIOUS
<1> USE ClientAssumption DEF TypeOK, LockFits, DriverFits, Served, Unlocked, client, tasks, history
<1>1. ASSUME NEW h \in Handlers \cup {NoHandler}, set_event_handler(h) PROVE Served'
  BY <1>1 DEF set_event_handler, Begins
<1>2. ASSUME NEW t \in Threads, NEW d \in Dests, register_single_destination(t, d) PROVE Served'
  BY <1>2 DEF register_single_destination, Begins
<1>3. ASSUME NEW t \in Threads, connect_tcp(t) PROVE Served'
  BY <1>3 DEF connect_tcp, Begins, To
<1>4. ASSUME NEW t \in Threads, NEW kind \in Kinds, connection(t, kind) PROVE Served'
  BY <1>4 DEF connection, Begins, To
<1>5. ASSUME NEW t \in Threads, tcp_failed(t) PROVE Served'
  BY <1>5 DEF tcp_failed
<1>6. ASSUME NEW t \in Threads, tcp_connected(t) PROVE Served'
  BY <1>6 DEF tcp_connected
<1>7. ASSUME NEW t \in Threads, enqueue(t) PROVE Served'
  BY <1>7 DEF enqueue, To
<1>8. ASSUME NEW t \in Threads, reply_dropped(t) PROVE Served'
  BY <1>8 DEF reply_dropped, To
<1>9. ASSUME NEW t \in Threads, close(t) PROVE Served'
  BY <1>9 DEF close, To
<1>10. ASSUME NEW t \in Threads, returns(t) PROVE Served'
  BY <1>10 DEF returns, To
<1>11. ASSUME NEW t \in Threads, dropped(t) PROVE Served'
  BY <1>11 DEF dropped
<1>12. CASE command
  BY <1>12 DEF command, End, To
<1>13. CASE emit
  BY <1>13 DEF emit
<1>14. CASE inbound
  BY <1>14 DEF inbound, AtSelect
<1>15. CASE interface_closed
  BY <1>15 DEF interface_closed, End, AtSelect
<1>16. CASE run_events
  BY <1>16 DEF run_events, Worker
<1>17. CASE callback
  BY <1>17 DEF callback
<1>18. CASE callback_returns
  BY <1>18 DEF callback_returns, Worker
<1>19. CASE nested_locked
  BY <1>19 DEF nested_locked
<1>20. CASE nested_panics
  BY <1>20 DEF nested_panics, Worker
<1>21. CASE nested_call
  BY <1>21 DEF nested_call
<1>22. CASE stop_driver
  BY <1>22 DEF stop_driver, End
<1>23. CASE stop_events
  BY <1>23 DEF stop_events, Worker
<1>24. CASE drain_outbound
  BY <1>24 DEF drain_outbound
<1>25. CASE UNCHANGED vars
  BY <1>25 DEF vars
<1> QED
  BY <1>1, <1>2, <1>3, <1>4, <1>5, <1>6, <1>7, <1>8, <1>9, <1>10, <1>11, <1>12, <1>13, <1>14,
     <1>15, <1>16, <1>17, <1>18, <1>19, <1>20, <1>21, <1>22, <1>23, <1>24, <1>25
     DEF Next, Step, Run, Listen

---------------------------------------------------------------------------
(* The theorems.                                                           *)

(* The inductive invariant holds of every reachable state.                 *)
THEOREM Invariance == Spec => []CInv
<1>1. Init => CInv
  <2> SUFFICES ASSUME Init PROVE CInv
    OBVIOUS
  <2>1. TypeOK
    <3>1. commands \in Seq([kind : Kinds, by : Threads]) /\ Len(commands) = 0
      BY DEF Init
    <3>2. /\ call \in [Threads -> [kind : Kinds \cup {"none", "connect"},
                                 at : {"idle", "connecting", "enqueue", "awaiting", "closing",
                                       "returning", "dropping"}]]
          /\ \A t \in Threads : call[t].at = "idle"
      BY DEF Init, Idle
    <3>3. 0 \in 0 .. EVENT_CAPACITY /\ 0 \in 0 .. MaxCalls /\ 0 \in 0 .. MaxEvents /\ 0 <= COMMAND_CAPACITY
      BY ClientAssumption
    <3> QED
      BY <3>1, <3>2, <3>3 DEF Init, TypeOK
  <2> QED
    BY <2>1, ClientAssumption
       DEF Init, CInv, CallsFit, LockFits, SendsAwaited, DriverFits, RuntimeFits, LateFits,
           OneLateCallback, Served, Stopped, Idle
<1>2. CInv /\ [Next]_vars => CInv'
  BY TypeStep, CallsStep, LockStep, SendsStep, DriverStep, RuntimeStep, LateStep, ServedStep DEF CInv
<1> QED
  BY <1>1, <1>2, PTL DEF Spec

(* Types, the capacity of both channels, and that the Arc<Runtime> clones  *)
(* under way are exactly those of the calls that are.                      *)
THEOREM TypeCorrect == Spec => []TypeOK
<1>1. CInv => TypeOK
  BY DEF CInv
<1> QED
  BY <1>1, Invariance, PTL

(* Registrations that were answered Ok are in the node that will run,      *)
(* whatever connects and fails to connect in between (mem::replace in      *)
(* connect_tcp).                                                           *)
THEOREM RegistrationsServed == Spec => []Served
<1>1. CInv => Served
  BY DEF CInv
<1> QED
  BY <1>1, Invariance, PTL

(* After disconnect, once no call is under way, no task of the runtime runs, *)
(* whichever thread dropped the last Arc<Runtime>.                         *)
THEOREM ClosedIsQuiet == Spec => []QuietWhenClosed
<1>1. CInv => QuietWhenClosed
  <2> SUFFICES ASSUME CInv, state = "Closed", Unlocked, \A t \in Threads : call[t] = Idle, ~inside
               PROVE  Stopped
    BY DEF QuietWhenClosed
  <2>1. TypeOK /\ RuntimeFits
    BY DEF CInv
  <2>2. worker.at # "blocking" /\ \A t \in Threads : call[t].at = "idle"
    BY <2>1 DEF RuntimeFits, Idle
  <2>3. arcs = {}
    BY <2>1, <2>2 DEF TypeOK
  <2> QED
    BY <2>1, <2>2, <2>3 DEF RuntimeFits
<1> QED
  BY <1>1, Invariance, PTL

(* A handler that was replaced or cleared is called at most once more by   *)
(* run_events.                                                             *)
THEOREM LateCallbackOnce == Spec => []OneLateCallback
<1>1. CInv => OneLateCallback
  BY DEF CInv
<1> QED
  BY <1>1, Invariance, PTL
=============================================================================
