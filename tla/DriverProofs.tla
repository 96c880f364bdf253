---------------------------- MODULE DriverProofs ----------------------------
(***************************************************************************)
(* Theorems about module Driver, for any interfaces, channel capacities,   *)
(* bursts and calls: type correctness with the bounds of all channels, and *)
(* that the driver hears of every interface that ends.                     *)
(***************************************************************************)
EXTENDS Driver, TLAPS

(* Queues: their elements, what is appended and what is left.              *)
LEMMA SeqFact ==
  ASSUME NEW S, NEW q \in Seq(S)
  PROVE  /\ Len(q) \in Nat
         /\ ToSet(q) \subseteq S
         /\ \A x \in S : /\ Append(q, x) \in Seq(S) /\ Len(Append(q, x)) = Len(q) + 1
                         /\ ToSet(Append(q, x)) = ToSet(q) \cup {x}
         /\ q # <<>> => /\ Head(q) \in S
                        /\ Tail(q) \in Seq(S) /\ Len(Tail(q)) = Len(q) - 1
                        /\ ToSet(q) = ToSet(Tail(q)) \cup {Head(q)}
<1>1. Len(q) \in Nat /\ DOMAIN q = 1 .. Len(q) /\ \A i \in 1 .. Len(q) : q[i] \in S
  OBVIOUS
<1>2. ToSet(q) \subseteq S
  BY <1>1 DEF ToSet
<1>3. ASSUME NEW x \in S
      PROVE  /\ Append(q, x) \in Seq(S) /\ Len(Append(q, x)) = Len(q) + 1
             /\ ToSet(Append(q, x)) = ToSet(q) \cup {x}
  <2>1. Append(q, x) \in Seq(S) /\ Len(Append(q, x)) = Len(q) + 1
    OBVIOUS
  <2>2. /\ DOMAIN Append(q, x) = DOMAIN q \cup {Len(q) + 1}
        /\ \A i \in DOMAIN q : Append(q, x)[i] = q[i]
        /\ Append(q, x)[Len(q) + 1] = x
    OBVIOUS
  <2> QED
    BY <2>1, <2>2 DEF ToSet
<1>4. ASSUME q # <<>>
      PROVE  /\ Head(q) \in S
             /\ Tail(q) \in Seq(S) /\ Len(Tail(q)) = Len(q) - 1
             /\ ToSet(q) = ToSet(Tail(q)) \cup {Head(q)}
  <2>1. Head(q) \in S /\ Head(q) = q[1] /\ Tail(q) \in Seq(S) /\ Len(Tail(q)) = Len(q) - 1 /\ Len(q) > 0
    BY <1>4
  <2>2. /\ DOMAIN Tail(q) = 1 .. (Len(q) - 1)
        /\ \A i \in DOMAIN Tail(q) : Tail(q)[i] = q[i + 1] /\ i + 1 \in DOMAIN q
    BY <1>4
  <2>3. ASSUME NEW i \in DOMAIN q PROVE i = 1 \/ (i - 1 \in DOMAIN Tail(q) /\ Tail(q)[i - 1] = q[i])
    <3>1. i = 1 \/ i - 1 \in 1 .. (Len(q) - 1)
      BY <1>1
    <3>2. i - 1 + 1 = i
      BY <1>1
    <3> QED
      BY <2>2, <3>1, <3>2
  <2>4. ToSet(q) \subseteq ToSet(Tail(q)) \cup {Head(q)}
    <3> SUFFICES ASSUME NEW i \in DOMAIN q PROVE q[i] \in ToSet(Tail(q)) \cup {Head(q)}
      BY DEF ToSet
    <3> QED
      BY <2>1, <2>3 DEF ToSet
  <2>5. 1 \in DOMAIN q
    BY <1>1, <2>1
  <2>6. ToSet(Tail(q)) \cup {Head(q)} \subseteq ToSet(q)
    BY <2>1, <2>2, <2>5 DEF ToSet
  <2> QED
    BY <2>1, <2>4, <2>6
<1> QED
  BY <1>1, <1>2, <1>3, <1>4

(* A packet more, where there is room for it.                              *)
LEMMA RoomFact ==
  ASSUME NEW n \in 0 .. INTERFACE_CAPACITY, n < INTERFACE_CAPACITY
  PROVE  n + 1 \in 0 .. INTERFACE_CAPACITY
BY DriverAssumption

(* What a handler leaves in the node's queue fits in it.                   *)
LEMMA BurstFact ==
  ASSUME NEW S \in SUBSET Ifaces, NEW q \in Bursts(S)
  PROVE  q \in Seq(Ifaces) /\ Len(q) <= Burst
<1>1. PICK n \in 0 .. Burst : q \in [1 .. n -> S]
  BY DEF Bursts
<1>2. n \in Nat /\ n <= Burst
  BY <1>1, DriverAssumption
<1>3. q \in Seq(Ifaces) /\ Len(q) = n
  BY <1>1, <1>2
<1> QED
  BY <1>2, <1>3

(* Init establishes both properties.                                       *)
LEMMA InitFact == Init => TypeOK /\ EndIsReported
<1> SUFFICES ASSUME Init PROVE TypeOK /\ EndIsReported
  OBVIOUS
<1>1. <<>> \in Seq(Ifaces) /\ <<>> \in Seq(Inbound) /\ <<>> \in Seq(Calls) /\ Len(<<>>) = 0
  OBVIOUS
<1>2. TypeOK
  BY <1>1, DriverAssumption DEF Init, TypeOK
<1>3. EndIsReported
  BY DriverAssumption DEF Init, EndIsReported
<1> QED
  BY <1>2, <1>3

(* Every step keeps to the types and to the capacities.                    *)
LEMMA TypeStep == TypeOK /\ [Next]_vars => TypeOK'
<1> SUFFICES ASSUME TypeOK, [Next]_vars PROVE TypeOK'
  OBVIOUS
<1> USE DriverAssumption DEF TypeOK, handler, network, registry, arrivals, application
<1>known. Known \in SUBSET Ifaces
  BY DEF Known
<1>1. CASE command
  <2>1. commands' \in Seq(Calls) /\ Len(commands') <= COMMAND_CAPACITY
    BY <1>1, SeqFact DEF command
  <2>2. CASE Head(commands) = "Send" /\ outq' \in Bursts(Known) /\ todo' \in 0 .. Burst
    <3>1. outq' \in Seq(Ifaces) /\ Len(outq') <= Burst
      BY <2>2, <1>known, BurstFact
    <3>2. todo' \in 0 .. Burst + 1
      BY <2>2
    <3>3. UNCHANGED <<running, app, registry, network, arrivals, events>>
      BY <1>1, <2>2 DEF command
    <3> QED
      BY <2>1, <3>1, <3>2, <3>3
  <2>3. CASE Head(commands) = "Ask" /\ outq' \in Bursts(Known)
    <3>1. outq' \in Seq(Ifaces) /\ Len(outq') <= Burst
      BY <2>3, <1>known, BurstFact
    <3> QED
      BY <1>1, <2>1, <2>3, <3>1 DEF command
  <2>4. CASE Head(commands) = "Shutdown"
    BY <1>1, <2>1, <2>4 DEF command
  <2> QED
    BY <1>1, <2>2, <2>3, <2>4 DEF command
<1>2. CASE commands_closed
  BY <1>2 DEF commands_closed
<1>3. CASE inbound_packet
  <2>1. inbound' \in Seq(Inbound) /\ Len(inbound') <= INTERFACE_CAPACITY
    BY <1>3, SeqFact DEF inbound_packet
  <2>2. outq' \in Seq(Ifaces) /\ Len(outq') <= Burst
    BY <1>3, <1>known, BurstFact DEF inbound_packet
  <2>3. todo' \in 0 .. Burst + 1
    BY <1>3 DEF inbound_packet
  <2> QED
    BY <1>3, <2>1, <2>2, <2>3 DEF inbound_packet
<1>4. CASE inbound_closed
  <2>1. inbound' \in Seq(Inbound) /\ Len(inbound') <= INTERFACE_CAPACITY
    BY <1>4, SeqFact DEF inbound_closed
  <2>2. todo' \in 0 .. Burst + 1 /\ running' \in BOOLEAN
    BY <1>4 DEF inbound_closed
  <2> QED
    BY <1>4, <2>1, <2>2 DEF inbound_closed
<1>5. CASE registration
  <2> DEFINE i == Head(registrations)
  <2>1. i \in Ifaces /\ registrations' \in Seq(Ifaces) /\ Len(registrations') <= REGISTRATION_CAPACITY
    BY <1>5, SeqFact DEF registration
  <2>2. outq' \in Seq(Ifaces) /\ Len(outq') <= Burst
    <3>1. CASE outq' \in Bursts({i})
      BY <2>1, <3>1, BurstFact
    <3>2. CASE outq' = <<>>
      BY <3>2
    <3> QED
      BY <1>5, <3>1, <3>2 DEF registration
  <2>3. todo' \in 0 .. Burst + 1
    BY <1>5 DEF registration
  <2>4. task' \in [Ifaces -> {"none", "idle", "writing", "Packet", "Closed", "Error", "done"}]
    BY <1>5, <2>1 DEF registration
  <2>5. interfaces' \subseteq Ifaces /\ registered' \subseteq Ifaces
    BY <1>5, <2>1 DEF registration
  <2>6. UNCHANGED <<keep_alive, running, chan, inbound, registrar, server, application>>
    BY <1>5 DEF registration
  <2> QED
    BY <2>1, <2>2, <2>3, <2>4, <2>5, <2>6
<1>6. CASE registrations_closed
  BY <1>6 DEF registrations_closed
<1>7. CASE tick
  <2>1. outq' \in Seq(Ifaces) /\ Len(outq') <= Burst
    BY <1>7, <1>known, BurstFact DEF tick
  <2>2. todo' \in 0 .. Burst + 1
    BY <1>7 DEF tick
  <2> QED
    <3>1. UNCHANGED <<running, registry, network, arrivals, application>>
      BY <1>7 DEF tick
    <3> QED
      BY <2>1, <2>2, <3>1
<1>8. CASE emit
  <2>1. todo' \in 0 .. Burst + 1
    BY <1>8 DEF emit
  <2>2. events' \in 0 .. EVENT_CAPACITY
    BY <1>8 DEF emit
  <2>3. UNCHANGED <<running, outq, registry, network, arrivals, commands, app>>
    BY <1>8 DEF emit
  <2> QED
    BY <2>1, <2>2, <2>3
<1>9. CASE drain_outbound
  <2>1. Head(outq) \in Ifaces /\ outq' \in Seq(Ifaces) /\ Len(outq') <= Burst
    BY <1>9, SeqFact DEF drain_outbound
  <2>2. todo' \in {1, todo} /\ interfaces' \subseteq interfaces
    BY <1>9 DEF drain_outbound
  <2>3. chan' \in [Ifaces -> 0 .. INTERFACE_CAPACITY]
    <3>1. CASE chan' = chan
      BY <3>1
    <3>2. CASE /\ chan[Head(outq)] < INTERFACE_CAPACITY
               /\ chan' = [chan EXCEPT ![Head(outq)] = @ + 1]
      <4>1. chan[Head(outq)] + 1 \in 0 .. INTERFACE_CAPACITY
        <5>1. chan[Head(outq)] \in 0 .. INTERFACE_CAPACITY
          BY <2>1
        <5> QED
          BY <3>2, <5>1, RoomFact
      <4> QED
        BY <3>2, <4>1
    <3> QED
      BY <1>9, <3>1, <3>2 DEF drain_outbound
  <2> QED
    <3>1. todo' \in 0 .. Burst + 1 /\ interfaces' \subseteq Ifaces
      BY <2>2
    <3>2. UNCHANGED <<running, registered, inbound, task, arrivals, application>>
      BY <1>9 DEF drain_outbound
    <3> QED
      BY <2>1, <2>3, <3>1, <3>2
<1>10. ASSUME NEW i \in Ifaces, run_outbound(i) PROVE TypeOK'
  <2>1. chan' \in [Ifaces -> 0 .. INTERFACE_CAPACITY]
    <3>1. CASE chan' = chan
      BY <3>1
    <3>2. CASE chan[i] > 0 /\ chan' = [chan EXCEPT ![i] = @ - 1]
      <4>1. chan[i] - 1 \in 0 .. INTERFACE_CAPACITY
        BY <3>2
      <4> QED
        BY <3>2, <4>1
    <3> QED
      BY <1>10, <3>1, <3>2 DEF run_outbound
  <2>2. task' \in [Ifaces -> {"none", "idle", "writing", "Packet", "Closed", "Error", "done"}]
    BY <1>10 DEF run_outbound
  <2>3. UNCHANGED <<others, inbound>>
    BY <1>10 DEF run_outbound
  <2> QED
    BY <2>1, <2>2, <2>3 DEF others
<1>19. ASSUME NEW i \in Ifaces, run_write(i) PROVE TypeOK'
  BY <1>19 DEF run_write, others
<1>11. ASSUME NEW i \in Ifaces, run_receive(i) PROVE TypeOK'
  BY <1>11 DEF run_receive, others
<1>12. ASSUME NEW i \in Ifaces, run_inbound(i) PROVE TypeOK'
  <2>1. Message(task[i], i) \in Inbound
    BY <1>12 DEF run_inbound, Message, Inbound
  <2>2. inbound' \in Seq(Inbound) /\ Len(inbound') <= INTERFACE_CAPACITY
    <3>1. CASE inbound' = inbound
      BY <3>1
    <3>2. CASE Len(inbound) < INTERFACE_CAPACITY /\ inbound' = Append(inbound, Message(task[i], i))
      <4>1. /\ Len(inbound) \in Nat /\ inbound' \in Seq(Inbound)
            /\ Len(inbound') = Len(inbound) + 1
        BY <2>1, <3>2, SeqFact
      <4> QED
        BY <3>2, <4>1
    <3> QED
      BY <1>12, <3>1, <3>2 DEF run_inbound
  <2>3. task' \in [Ifaces -> {"none", "idle", "writing", "Packet", "Closed", "Error", "done"}]
    BY <1>12 DEF run_inbound
  <2> QED
    BY <1>12, <2>2, <2>3 DEF run_inbound, others
<1>13. CASE serve
  <2>1. registrations' \in Seq(Ifaces) /\ Len(registrations') <= REGISTRATION_CAPACITY
    <3>1. CASE registrations' = registrations
      BY <3>1
    <3>2. ASSUME NEW i \in Ifaces, Len(registrations) < REGISTRATION_CAPACITY,
                 registrations' = Append(registrations, i)
          PROVE  registrations' \in Seq(Ifaces) /\ Len(registrations') <= REGISTRATION_CAPACITY
      <4>1. /\ Len(registrations) \in Nat /\ registrations' \in Seq(Ifaces)
            /\ Len(registrations') = Len(registrations) + 1
        BY <3>2, SeqFact
      <4> QED
        BY <3>2, <4>1
    <3> QED
      BY <1>13, <3>1, <3>2 DEF serve
  <2> QED
    BY <1>13, <2>1 DEF serve
<1>14. CASE app_receive
  BY <1>14 DEF app_receive, machinery
<1>15. CASE app_call
  BY <1>15 DEF app_call, machinery
<1>16. CASE app_send
  <2>1. commands' \in Seq(Calls) /\ Len(commands') <= COMMAND_CAPACITY
    BY <1>16, SeqFact DEF app_send
  <2>2. app' \in {"listening", "awaiting", "gone"}
    BY <1>16 DEF app_send
  <2> QED
    BY <1>16, <2>1, <2>2 DEF app_send, machinery
<1>17. CASE app_stop
  BY <1>17 DEF app_stop, machinery
<1>18. CASE UNCHANGED vars
  BY <1>18 DEF vars
<1> HIDE DEF TypeOK
<1> QED
  BY <1>1, <1>2, <1>3, <1>4, <1>5, <1>6, <1>7, <1>8, <1>9, <1>10, <1>11, <1>12, <1>13,
     <1>14, <1>15, <1>16, <1>17, <1>18, <1>19 DEF Next

(* A report leaves the inbound channel only when it is acted upon, and an  *)
(* interface ends without one only when the driver knows it no more.       *)
LEMMA EndStep == TypeOK /\ EndIsReported /\ [Next]_vars => EndIsReported'
<1> SUFFICES ASSUME TypeOK, EndIsReported, [Next]_vars PROVE EndIsReported'
  OBVIOUS
<1> USE DEF EndIsReported, handler, network, registry, arrivals, application
<1>1. CASE command
  BY <1>1 DEF command, AtSelect
<1>2. CASE commands_closed
  BY <1>2 DEF commands_closed
<1>3. CASE inbound_packet
  <2>1. UNCHANGED <<running, interfaces, registered, task>> /\ Head(inbound).kind = "Packet"
    BY <1>3 DEF inbound_packet
  <2>2. ToSet(inbound) = ToSet(inbound') \cup {Head(inbound)}
    BY <1>3, SeqFact DEF inbound_packet, TypeOK
  <2> QED
    BY <2>1, <2>2
<1>4. CASE inbound_closed
  <2>1. /\ interfaces' = interfaces \ {Head(inbound).interface} /\ task' = task /\ running
        /\ registered' = registered \ {Head(inbound).interface}
    BY <1>4 DEF inbound_closed, AtSelect
  <2>2. ToSet(inbound) = ToSet(inbound') \cup {Head(inbound)}
    BY <1>4, SeqFact DEF inbound_closed, TypeOK
  <2> QED
    BY <2>1, <2>2
<1>5. CASE registration
  <2>1. Head(registrations) \in Ifaces
    BY <1>5, SeqFact DEF registration, TypeOK
  <2> QED
    BY <1>5, <2>1 DEF registration, TypeOK
<1>6. CASE registrations_closed
  BY <1>6 DEF registrations_closed, AtSelect
<1>7. CASE tick
  BY <1>7 DEF tick
<1>8. CASE emit
  BY <1>8 DEF emit
<1>9. CASE drain_outbound
  BY <1>9 DEF drain_outbound
<1>10. ASSUME NEW i \in Ifaces, run_outbound(i) PROVE EndIsReported'
  <2>1. UNCHANGED <<running, interfaces, registered, inbound>> /\ task[i] = "idle"
    BY <1>10 DEF run_outbound, others
  <2>2. CASE task' = [task EXCEPT ![i] = "writing"]
    BY <2>1, <2>2 DEF TypeOK
  <2>3. CASE task' = [task EXCEPT ![i] = "done"] /\ (~running \/ i \notin interfaces)
    BY <2>1, <2>3 DEF TypeOK
  <2> QED
    BY <1>10, <2>2, <2>3 DEF run_outbound
<1>19. ASSUME NEW i \in Ifaces, run_write(i) PROVE EndIsReported'
  <2>1. UNCHANGED <<running, interfaces, registered, inbound>> /\ task[i] = "writing"
    BY <1>19 DEF run_write, others
  <2>2. \/ task' = [task EXCEPT ![i] = "idle"]
        \/ task' = [task EXCEPT ![i] = "Error"]
    BY <1>19 DEF run_write
  <2>3. \A j \in Ifaces : task'[j] = "done" <=> task[j] = "done"
    BY <2>1, <2>2 DEF TypeOK
  <2> QED
    BY <2>1, <2>3 DEF TypeOK
<1>11. ASSUME NEW i \in Ifaces, run_receive(i) PROVE EndIsReported'
  <2>1. PICK kind \in {"Packet", "Closed", "Error"} : task' = [task EXCEPT ![i] = kind]
    BY <1>11 DEF run_receive
  <2>2. UNCHANGED <<running, interfaces, registered, inbound>> /\ task[i] = "idle"
    BY <1>11 DEF run_receive, others
  <2> QED
    BY <2>1, <2>2 DEF TypeOK
<1>12. ASSUME NEW i \in Ifaces, run_inbound(i) PROVE EndIsReported'
  <2>1. UNCHANGED <<running, interfaces, registered>> /\ task[i] \in {"Packet", "Closed", "Error"}
    BY <1>12 DEF run_inbound, others
  <2>2. CASE ~running
    BY <2>1, <2>2
  <2>3. CASE running
    <3>1. /\ inbound' = Append(inbound, Message(task[i], i))
          /\ task' = [task EXCEPT ![i] = IF @ = "Packet" THEN "idle" ELSE "done"]
      BY <1>12, <2>3 DEF run_inbound
    <3>2. Message(task[i], i) \in Inbound /\ Message(task[i], i).interface = i /\ Message(task[i], i).kind = task[i]
      BY <2>1 DEF Message, Inbound
    <3>3. ToSet(inbound') = ToSet(inbound) \cup {Message(task[i], i)}
      BY <3>1, <3>2, SeqFact DEF TypeOK
    <3> QED
      BY <2>1, <2>3, <3>1, <3>2, <3>3 DEF TypeOK
  <2> QED
    BY <2>2, <2>3
<1>13. CASE serve
  BY <1>13 DEF serve
<1>14. CASE app_receive
  BY <1>14 DEF app_receive, machinery
<1>15. CASE app_call
  BY <1>15 DEF app_call, machinery
<1>16. CASE app_send
  BY <1>16 DEF app_send, machinery
<1>17. CASE app_stop
  BY <1>17 DEF app_stop, machinery
<1>18. CASE UNCHANGED vars
  BY <1>18 DEF vars
<1> HIDE DEF EndIsReported
<1> QED
  BY <1>1, <1>2, <1>3, <1>4, <1>5, <1>6, <1>7, <1>8, <1>9, <1>10, <1>11, <1>12, <1>13,
     <1>14, <1>15, <1>16, <1>17, <1>18, <1>19 DEF Next

---------------------------------------------------------------------------
(* The types of the driver's state; no channel ever holds more than its    *)
(* capacity, although handlers produce bursts of events and packets.       *)
THEOREM TypeCorrect == Spec => []TypeOK
BY InitFact, TypeStep, PTL DEF Spec

(* The driver hears of every interface that ends: where drain_outbound has *)
(* dropped a dead sender, the report that unregisters the interface is     *)
(* still on its way.                                                       *)
THEOREM EndsReported == Spec => []EndIsReported
BY InitFact, TypeStep, EndStep, PTL DEF Spec
=============================================================================
