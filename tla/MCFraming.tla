----------------------------- MODULE MCFraming -----------------------------
(* A small instance of Framing for TLC; see MCFraming.cfg.  The packets    *)
(* have a flag, an escape or a masked byte in every place that matters,    *)
(* and one on each serial line does not fit.                               *)
EXTENDS Framing

TcpPackets == {<<"FLAG">>, <<"ESC", "5E">>, <<"61">>, <<"5D", "FLAG">>}
KissPackets == {<<"FEND", "01">>, <<"00", "FESC">>, <<"TFEND">>, <<"01", "01", "TFESC", "FEND">>}
ShortPackets == {<<"00">>, <<"FESC">>}

Stream(capacity) ==
  [reader |-> "tcp", packets |-> TcpPackets, capacity |-> capacity, maxLoss |-> 0, shared |-> TRUE]
SerialLine(reader, capacity, packets, maxLoss) ==
  [reader |-> reader, packets |-> packets, capacity |-> capacity, maxLoss |-> maxLoss, shared |-> FALSE]

(* A TCP stream with just enough room and one that overflows; a serial     *)
(* line and a UART, with one damaged packet among any and with two among   *)
(* short ones, which the losses may merge.                                 *)
SmallLines ==
  {Stream(7), Stream(4),
   SerialLine("serial", 5, KissPackets, 1), SerialLine("uart", 3, KissPackets, 1),
   SerialLine("serial", 5, ShortPackets, 2), SerialLine("uart", 3, ShortPackets, 2)}
===========================================================================
