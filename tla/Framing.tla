------------------------------ MODULE Framing ------------------------------
(***************************************************************************)
(* Packets on a byte stream: the HDLC framing of TCP connections           *)
(* (crates/reticulum-interface/src/hdlc.rs, reticulum-tokio/src/tcp.rs)    *)
(* and the KISS framing of serial lines (kiss.rs, with the reader thread   *)
(* of reticulum-tokio/src/serial.rs and the incremental decoder of         *)
(* reticulum-embedded/src/uart.rs).  A sender writes frames, the stream is *)
(* read in chunks of any size, and one of the three readers turns it back  *)
(* into packets.                                                           *)
(*                                                                         *)
(* Bytes are named for what the framing makes of them.  HDLC: "FLAG",      *)
(* "ESC", their masked forms "5E" and "5D", and "61", masked "41".  KISS:  *)
(* "FEND", "FESC", "TFEND", "TFESC", and two ordinary bytes, "00", which   *)
(* is also the data command, and "01", which is another command.           *)
(***************************************************************************)
EXTENDS Naturals, FiniteSets, Sequences, SequencesExt

CONSTANTS
  Lines,         \* the lines considered: who reads, what may be sent, and
                 \* the bounds of the line
  MaxPackets,    \* bound on packets sent
  READ_CHUNK     \* the most a read of a TCP stream returns

HdlcByte == {"FLAG", "ESC", "5E", "5D", "61", "41"}
KissByte == {"FEND", "FESC", "TFEND", "TFESC", "00", "01"}
Bytes(reader) == IF reader = "tcp" THEN HdlcByte ELSE KissByte

(* capacity is MAX_BUFFER, READ_CAPACITY or max_packet_len; maxLoss bounds *)
(* the packets that lose bytes, none on TCP; with shared, a foreign sender *)
(* may let one flag end one frame and begin the next, as RNS does.         *)
ASSUME FramingAssumption ==
  /\ MaxPackets \in Nat /\ READ_CHUNK \in Nat \ {0}
  /\ \A l \in Lines :
       /\ l.reader \in {"tcp", "serial", "uart"}
       /\ l.packets \subseteq Seq(Bytes(l.reader)) \ {<<>>}
       /\ l.capacity \in Nat \ {0}
       /\ l.maxLoss \in Nat /\ (l.reader = "tcp" => l.maxLoss = 0)
       /\ l.shared \in BOOLEAN /\ (l.shared => l.reader = "tcp")

VARIABLES
  line,       \* the line, which never changes
  sent,       \* the packets written
  wire,       \* the bytes under way, each with the number of its packet
  buffer,     \* read_buffer (tcp), framed (serial) or packet (uart)
  flags,      \* the flags of the KissStreamDecoder that are set
  hit,        \* the packets that lost bytes
  delivered   \* the packets handed on

vars == <<line, sent, wire, buffer, flags, hit, delivered>>

---------------------------------------------------------------------------
(* hdlc.rs.                                                                *)

(* b ^ ESC_MASK *)
Mask == [b \in HdlcByte |->
  CASE b = "FLAG" -> "5E"   [] b = "ESC" -> "5D" [] b = "61" -> "41"
    [] b = "5E"   -> "FLAG" [] b = "5D"  -> "ESC" [] b = "41" -> "61"]

HdlcCode == [b \in HdlcByte |-> IF b \in {"FLAG", "ESC"} THEN <<"ESC", Mask[b]>> ELSE <<b>>]

(* A loop over bytes: what step, a function of the state and a byte, makes *)
(* of start.                                                               *)
Loop(step, start, bytes) ==
  LET state[i \in 0 .. Len(bytes)] ==
        IF i = 0 THEN start ELSE step[<<state[i - 1], bytes[i]>>]
  IN state[Len(bytes)]

(* The bytes of p one after the other, each as code writes it.             *)
Escaped(code, p) ==
  Loop([x \in Seq(DOMAIN code) \X DOMAIN code |-> x[1] \o code[x[2]]], <<>>, p)

hdlc_frame(p) == <<"FLAG">> \o Escaped(HdlcCode, p) \o <<"FLAG">>

(* A decoder's progress through the body of a frame.                       *)
Decoder(byte) == [out : Seq(byte), escaped : BOOLEAN, malformed : BOOLEAN]
Start == [out |-> <<>>, escaped |-> FALSE, malformed |-> FALSE]

hdlc_step(d, b) ==
  IF d.escaped THEN [d EXCEPT !.out = Append(@, Mask[b]), !.escaped = FALSE]
  ELSE IF b = "ESC" THEN [d EXCEPT !.escaped = TRUE]
  ELSE IF b = "FLAG" THEN [d EXCEPT !.malformed = TRUE]
  ELSE [d EXCEPT !.out = Append(@, b)]

(* None is the empty set.                                                  *)
Decoded(d) == IF d.escaped \/ d.malformed THEN {} ELSE {d.out}

hdlc_run(body) ==
  Loop([x \in Decoder(HdlcByte) \X HdlcByte |-> hdlc_step(x[1], x[2])], Start, body)

hdlc_deframe(framed) == Decoded(hdlc_run(SubSeq(framed, 2, Len(framed) - 1)))

---------------------------------------------------------------------------
(* kiss.rs.                                                                *)

Escape == [b \in {"FEND", "FESC"} |-> IF b = "FEND" THEN "TFEND" ELSE "TFESC"]
Unescape == [b \in {"TFEND", "TFESC"} |-> IF b = "TFEND" THEN "FEND" ELSE "FESC"]

KissCode == [b \in KissByte |-> IF b \in DOMAIN Escape THEN <<"FESC", Escape[b]>> ELSE <<b>>]

kiss_frame(p) == <<"FEND", "00">> \o Escaped(KissCode, p) \o <<"FEND">>

kiss_step(d, b) ==
  IF d.escaped
  THEN IF b \in DOMAIN Unescape
       THEN [d EXCEPT !.out = Append(@, Unescape[b]), !.escaped = FALSE]
       ELSE [d EXCEPT !.malformed = TRUE]
  ELSE IF b = "FESC" THEN [d EXCEPT !.escaped = TRUE]
  ELSE IF b = "FEND" THEN [d EXCEPT !.malformed = TRUE]
  ELSE [d EXCEPT !.out = Append(@, b)]

kiss_run(body) ==
  Loop([x \in Decoder(KissByte) \X KissByte |-> kiss_step(x[1], x[2])], Start, body)

kiss_deframe(framed) ==
  IF Len(framed) < 3 \/ framed[2] # "00" THEN {}
  ELSE Decoded(kiss_run(SubSeq(framed, 3, Len(framed) - 1)))

---------------------------------------------------------------------------
Init ==
  /\ line \in Lines
  /\ sent = <<>> /\ wire = <<>>
  /\ buffer = <<>> /\ flags = {}
  /\ hit = {} /\ delivered = <<>>

frame(p) == IF line.reader = "tcp" THEN hdlc_frame(p) ELSE kiss_frame(p)

(* send_packet: the whole frame is written.                                *)
send_packet(p, shared) ==
  /\ Len(sent) < MaxPackets
  /\ shared => line.shared /\ sent # <<>>
  /\ sent' = Append(sent, p)
  /\ LET bytes == IF shared THEN Tail(frame(p)) ELSE frame(p)
     IN wire' = wire \o [i \in 1 .. Len(bytes) |-> [byte |-> bytes[i], of |-> Len(sent')]]
  /\ UNCHANGED <<line, buffer, flags, hit, delivered>>

Flags == {i \in 1 .. Len(buffer) : buffer[i] = "FLAG"}

(* Mutant of recv_packet: what there is no room for is cut off.            *)
recv_packet_cuts(n) ==
  /\ Cardinality(Flags) < 2
  /\ LET grown == buffer \o [i \in 1 .. n |-> wire[i].byte]
     IN buffer' = IF Len(grown) > line.capacity THEN SubSeq(grown, 1, line.capacity) ELSE grown

(* TcpClientInterface::recv_packet when no complete frame is buffered:     *)
(* what precedes a flag is dropped, a chunk is read, and a buffer that has *)
(* grown too large is emptied.                                             *)
recv_packet(n) ==
  /\ Cardinality(Flags) < 2
  /\ LET kept == IF Flags = {} THEN buffer
                 ELSE SubSeq(buffer, CHOOSE i \in Flags : TRUE, Len(buffer))
         grown == kept \o [i \in 1 .. n |-> wire[i].byte]
     IN buffer' = IF Len(grown) > line.capacity THEN <<>> ELSE grown

read_chunk(n) ==
  /\ line.reader = "tcp"
  /\ n <= Len(wire)
  /\ recv_packet(n)
  /\ wire' = SubSeq(wire, n + 1, Len(wire))
  /\ UNCHANGED <<line, sent, flags, hit, delivered>>

(* The closing flag is retained: it may be the opening one of the next.    *)
Rest(end) == SubSeq(buffer, end, Len(buffer))

(* One pass of the loop of take_packet.  Nothing between two flags and     *)
(* what does not decode are skipped.                                       *)
take_packet ==
  /\ line.reader = "tcp"
  /\ \E start, end \in Flags :
       /\ start < end
       /\ \A i \in Flags : i = start \/ end <= i
       /\ buffer' = Rest(end)
       /\ LET packet == IF end = start + 1 THEN {} ELSE hdlc_deframe(SubSeq(buffer, start, end))
          IN delivered' = delivered \o SetToSeq(packet)
  /\ UNCHANGED <<line, sent, wire, flags, hit>>

(* Mutant of serial_byte: the flag that ends a frame does not begin one.   *)
serial_byte_closes(b) ==
  IF b = "FEND"
  THEN /\ buffer' = IF buffer = <<>> THEN <<"FEND">> ELSE <<>>
       /\ delivered' = IF Len(buffer) < 2 THEN delivered
                       ELSE delivered \o SetToSeq(kiss_deframe(Append(buffer, "FEND")))
  ELSE /\ buffer' = IF buffer = <<>> THEN <<>>
                    ELSE IF Len(buffer) < line.capacity THEN Append(buffer, b) ELSE <<>>
       /\ UNCHANGED delivered

(* One byte at the reader thread of a SerialInterface.                     *)
serial_byte(b) ==
  IF b = "FEND"
  THEN /\ buffer' = <<"FEND">>
       /\ delivered' = IF Len(buffer) < 2 THEN delivered
                       ELSE delivered \o SetToSeq(kiss_deframe(Append(buffer, "FEND")))
  ELSE /\ buffer' = IF buffer = <<>> THEN <<>>
                    ELSE IF Len(buffer) < line.capacity THEN Append(buffer, b) ELSE <<>>
       /\ UNCHANGED delivered

(* Mutant of store: one byte more than there is room for.                  *)
store_over(b) ==
  IF Len(buffer) > line.capacity
  THEN buffer' = <<>> /\ flags' = (flags \ {"escaped"}) \cup {"invalid"}
  ELSE buffer' = Append(buffer, b) /\ flags' = flags \ {"escaped"}

(* A byte that belongs to the packet.                                      *)
store(b) ==
  IF Len(buffer) = line.capacity
  THEN buffer' = <<>> /\ flags' = (flags \ {"escaped"}) \cup {"invalid"}
  ELSE buffer' = Append(buffer, b) /\ flags' = flags \ {"escaped"}

(* KissStreamDecoder::push at a frame boundary.                            *)
uart_end ==
  /\ delivered' = IF {"in_frame", "has_command"} \subseteq flags /\ buffer # <<>>
                     /\ flags \cap {"escaped", "invalid"} = {}
                  THEN Append(delivered, buffer) ELSE delivered
  /\ buffer' = <<>>
  /\ flags' = {"in_frame"}

(* KissStreamDecoder::push elsewhere: the command byte, the second half of *)
(* an escape, the first half, or a plain byte.                             *)
uart_byte(b) ==
  /\ UNCHANGED delivered
  /\ IF "in_frame" \notin flags \/ "invalid" \in flags THEN UNCHANGED <<buffer, flags>>
     ELSE IF "has_command" \notin flags
     THEN /\ flags' = flags \cup {"has_command"} \cup IF b = "00" THEN {} ELSE {"invalid"}
          /\ UNCHANGED buffer
     ELSE IF "escaped" \in flags /\ b \notin DOMAIN Unescape
     THEN /\ flags' = (flags \ {"escaped"}) \cup {"invalid"}
          /\ UNCHANGED buffer
     ELSE IF "escaped" \in flags THEN store(Unescape[b])
     ELSE IF b = "FESC"
     THEN /\ flags' = flags \cup {"escaped"}
          /\ UNCHANGED buffer
     ELSE store(b)

(* The loops over a chunk of a serial line look at one byte at a time and  *)
(* keep nothing else, so chunks do not matter.                             *)
read_byte ==
  /\ wire # <<>>
  /\ wire' = Tail(wire)
  /\ LET b == wire[1].byte
     IN \/ line.reader = "serial" /\ serial_byte(b) /\ UNCHANGED flags
        \/ line.reader = "uart" /\ b = "FEND" /\ uart_end
        \/ line.reader = "uart" /\ b # "FEND" /\ uart_byte(b)
  /\ UNCHANGED <<line, sent, hit>>

(* A byte is lost on the line.                                             *)
Lose(i) ==
  /\ wire[i].of \in hit \/ Cardinality(hit) < line.maxLoss
  /\ hit' = hit \cup {wire[i].of}
  /\ wire' = RemoveAt(wire, i)
  /\ UNCHANGED <<line, sent, buffer, flags, delivered>>

Next ==
  \/ \E p \in line.packets, shared \in BOOLEAN : send_packet(p, shared)
  \/ \E n \in 1 .. READ_CHUNK : read_chunk(n)
  \/ take_packet
  \/ read_byte
  \/ \E i \in 1 .. Len(wire) : Lose(i)

Spec == Init /\ [][Next]_vars

---------------------------------------------------------------------------
(* Properties.                                                             *)

(* Type correctness; and the memory a stream can claim is bounded: the     *)
(* promise of KissStreamDecoder to be "allocation-bounded", and what       *)
(* MAX_BUFFER and READ_CAPACITY are for.                                   *)
TypeOK ==
  /\ line \in Lines
  /\ sent \in Seq(line.packets)
  /\ wire \in Seq([byte : Bytes(line.reader), of : 1 .. MaxPackets])
  /\ buffer \in Seq(Bytes(line.reader)) /\ Len(buffer) <= line.capacity
  /\ flags \subseteq {"in_frame", "has_command", "escaped", "invalid"}
  /\ hit \subseteq 1 .. MaxPackets
  /\ delivered \in Seq(Seq(Bytes(line.reader)))

(* An account of what was handed on: at[i] is the number of the packet     *)
(* that the i-th one delivered comes from.  Each accounts for a packet of  *)
(* its own, in the order of sending, and is that packet unless it lost a   *)
(* byte.                                                                   *)
Account(at) ==
  /\ at \in [1 .. Len(delivered) -> 1 .. Len(sent)]
  /\ \A i, j \in 1 .. Len(delivered) : i < j => at[i] < at[j]
  /\ \A i \in 1 .. Len(delivered) : at[i] \notin hit => delivered[i] = sent[at[i]]

(* What take_packet, the serial reader and KissStreamDecoder hand on are   *)
(* packets that were sent, whole and in order, however the stream is cut   *)
(* into chunks and whatever a full buffer discards; a byte lost on a       *)
(* serial line spoils the packet it belonged to and no other.              *)
Intact == \E at \in [1 .. Len(delivered) -> 1 .. Len(sent)] : Account(at)

(* Room for a packet: READ_CAPACITY counts the opening flag, the command   *)
(* and the escaped bytes, max_packet_len only the packet.                  *)
Fits(p) ==
  CASE line.reader = "tcp"    -> TRUE
    [] line.reader = "serial" -> Len(frame(p)) - 1 <= line.capacity
    [] line.reader = "uart"   -> Len(p) <= line.capacity

(* MAX_BUFFER has room for any frame but for its last byte and one chunk.  *)
Roomy == \A p \in line.packets : Len(frame(p)) - 1 + READ_CHUNK <= line.capacity

Undamaged == {k \in 1 .. Len(sent) : k \notin hit /\ Fits(sent[k])}

(* The readers resynchronise: once the stream is read, every packet that   *)
(* lost no byte and fits has been handed on, in order, and nothing more    *)
(* than one mangled packet for each one that lost a byte.  The buffer of a *)
(* TCP stream has to be as large as Roomy says.                            *)
Recovers ==
  (wire = <<>> /\ (line.reader = "tcp" => Roomy /\ Cardinality(Flags) < 2)) =>
    \E at \in [1 .. Len(delivered) -> 1 .. Len(sent)] :
      Account(at) /\ Undamaged \subseteq Range(at) /\ Range(at) \subseteq Undamaged \cup hit
===========================================================================
