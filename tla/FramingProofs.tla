--------------------------- MODULE FramingProofs ---------------------------
(***************************************************************************)
(* Proofs about Framing: that deframing undoes framing for every packet,   *)
(* and that TypeOK, Intact and Recovers hold whatever the packets, the     *)
(* sizes of the buffers and of the chunks, and the bytes lost.             *)
(*                                                                         *)
(* Escaped, hdlc_run and kiss_run are recursive functions; what is known   *)
(* of them is their value on the empty sequence and on an extended one     *)
(* (lemmas ...Empty and ...Append), and the rest follows by induction.     *)
(* The induction principles here speak of a set S instead of a predicate,  *)
(* so that the provers can instantiate them.                               *)
(***************************************************************************)
EXTENDS Framing, FiniteSetTheorems, TLAPS

---------------------------------------------------------------------------
(* Induction.                                                              *)

(* If some n were outside S, the numbers up to n outside S would be a      *)
(* finite set that m |-> m - 1 maps into itself one to one, hence onto     *)
(* itself; but nothing is mapped to n.                                     *)
LEMMA NatInduct ==
  ASSUME NEW S, 0 \in S, \A n \in Nat : n \in S => n + 1 \in S
  PROVE  Nat \subseteq S
<1> SUFFICES ASSUME NEW n \in Nat, n \notin S PROVE FALSE
  OBVIOUS
<1> DEFINE T == {m \in 0 .. n : m \notin S}
           f == [m \in T |-> m - 1]
<1>1. IsFiniteSet(T)
  <2>1. IsFiniteSet(0 .. n)
    BY FS_Interval
  <2> QED BY <2>1, FS_Subset
<1>2. \A m \in T : m # 0 /\ m - 1 \in T
  <2> SUFFICES ASSUME NEW m \in T PROVE m # 0 /\ m - 1 \in T
    OBVIOUS
  <2>1. m \in Nat /\ m <= n /\ m # 0
    OBVIOUS
  <2>2. m - 1 \in Nat /\ (m - 1) + 1 = m
    BY <2>1
  <2>3. m - 1 \notin S
    BY <2>2
  <2> QED BY <2>1, <2>2, <2>3
<1>3. f \in Injection(T, T)
  BY <1>2 DEF Injection, IsInjective
<1>4. f \in Surjection(T, T)
  BY <1>1, <1>3, FS_Injection
<1>5. n \in T
  OBVIOUS
<1>6. PICK m \in T : f[m] = n
  BY <1>4, <1>5 DEF Surjection
<1> QED BY <1>2, <1>6

(* A set with the empty sequence that is closed under Append has them all. *)
LEMMA SeqInduct ==
  ASSUME NEW B, NEW S, <<>> \in S,
         \A p \in Seq(B), b \in B : p \in S => Append(p, b) \in S
  PROVE  Seq(B) \subseteq S
<1> DEFINE L == {n \in Nat : \A p \in Seq(B) : Len(p) = n => p \in S}
<1>1. 0 \in L
  <2>1. \A p \in Seq(B) : Len(p) = 0 => p = <<>>
    OBVIOUS
  <2> QED BY <2>1
<1>2. \A n \in Nat : n \in L => n + 1 \in L
  <2> SUFFICES ASSUME NEW n \in Nat, n \in L, NEW p \in Seq(B), Len(p) = n + 1
               PROVE  p \in S
    OBVIOUS
  <2>1. SubSeq(p, 1, n) \in Seq(B) /\ Len(SubSeq(p, 1, n)) = n /\ p[n + 1] \in B
    OBVIOUS
  <2>2. p = Append(SubSeq(p, 1, n), p[n + 1])
    OBVIOUS
  <2>3. SubSeq(p, 1, n) \in S
    BY <2>1
  <2> QED BY <2>1, <2>2, <2>3
<1> HIDE DEF L
<1>3. Nat \subseteq L
  BY <1>1, <1>2, NatInduct
<1> QED BY <1>3 DEF L

(* g holds the values that the step function f makes of start along s.     *)
Values(g, D, start, s, f) ==
  /\ g \in [0 .. Len(s) -> D]
  /\ g[0] = start
  /\ \A i \in 1 .. Len(s) : g[i] = f[<<g[i - 1], s[i]>>]

Computes(g, D, start, s, f) == Values(g, D, start, s, f) /\ Loop(f, start, s) = g[Len(s)]

(* Definition by recursion along a sequence: there are such values.        *)
LEMMA Iteration ==
  ASSUME NEW D, NEW start \in D, NEW B, NEW s \in Seq(B), NEW f \in [D \X B -> D]
  PROVE  \E g : Values(g, D, start, s, f)
<1> DEFINE Good(n, g) == g[0] = start /\ \A i \in 1 .. n : g[i] = f[<<g[i - 1], s[i]>>]
           L == {n \in Nat : n <= Len(s) => \E g \in [0 .. n -> D] : Good(n, g)}
<1>1. 0 \in L
  <2>1. [i \in 0 .. 0 |-> start] \in [0 .. 0 -> D] /\ Good(0, [i \in 0 .. 0 |-> start])
    OBVIOUS
  <2> QED BY <2>1
<1>2. \A n \in Nat : n \in L => n + 1 \in L
  <2> SUFFICES ASSUME NEW n \in Nat, n \in L, n + 1 <= Len(s)
               PROVE  \E g \in [0 .. n + 1 -> D] : Good(n + 1, g)
    BY SMTT(30)
  <2>1. PICK h \in [0 .. n -> D] : Good(n, h)
    OBVIOUS
  <2> DEFINE g == [i \in 0 .. n + 1 |-> IF i = n + 1 THEN f[<<h[n], s[n + 1]>>] ELSE h[i]]
  <2>2. h[n] \in D /\ s[n + 1] \in B
    OBVIOUS
  <2>3. f[<<h[n], s[n + 1]>>] \in D
    BY <2>2
  <2>4. g \in [0 .. n + 1 -> D]
    BY <2>3
  <2>5. g[0] = start
    BY <2>1
  <2>6. \A i \in 1 .. n + 1 : g[i] = f[<<g[i - 1], s[i]>>]
    <3> SUFFICES ASSUME NEW i \in 1 .. n + 1 PROVE g[i] = f[<<g[i - 1], s[i]>>]
      OBVIOUS
    <3>1. CASE i = n + 1
      <4>1. i - 1 = n /\ g[n] = h[n] /\ g[i] = f[<<h[n], s[n + 1]>>]
        BY <3>1
      <4> QED BY <3>1, <4>1
    <3>2. CASE i \in 1 .. n
      BY <3>2, <2>1
    <3> QED BY <3>1, <3>2
  <2> HIDE DEF g
  <2> QED BY <2>4, <2>5, <2>6
<1> HIDE DEF L
<1>3. Nat \subseteq L
  BY <1>1, <1>2, NatInduct
<1>4. Len(s) \in Nat
  OBVIOUS
<1> QED BY <1>3, <1>4 DEF L, Values

---------------------------------------------------------------------------
(* Loop.                                                                   *)

LEMMA LoopValues ==
  ASSUME NEW D, NEW start \in D, NEW B, NEW s \in Seq(B), NEW f \in [D \X B -> D]
  PROVE  \E g : Computes(g, D, start, s, f)
<1> DEFINE Rec(g) == [i \in 0 .. Len(s) |-> IF i = 0 THEN start ELSE f[<<g[i - 1], s[i]>>]]
<1>1. PICK h : Values(h, D, start, s, f)
  BY Iteration
<1>2. h = Rec(h)
  <2>1. \A i \in 0 .. Len(s) : h[i] = Rec(h)[i]
    BY <1>1 DEF Values
  <2> QED BY <2>1, <1>1 DEF Values
<1>3. PICK g : g = Rec(g) /\ Loop(f, start, s) = g[Len(s)]
  <2>1. \E g : g = Rec(g)
    BY <1>2
  <2> QED BY <2>1, Zenon DEF Loop
<1>4. g[0] = start /\ \A i \in 1 .. Len(s) : g[i] = f[<<g[i - 1], s[i]>>]
  <2>1. Len(s) \in Nat
    OBVIOUS
  <2>2. \A i \in 0 .. Len(s) : g[i] = Rec(g)[i]
    BY <1>3, Zenon
  <2>3. \A i \in 0 .. Len(s) : g[i] = IF i = 0 THEN start ELSE f[<<g[i - 1], s[i]>>]
    BY <2>2
  <2> HIDE DEF Rec
  <2>4. g[0] = start
    <3>1. 0 \in 0 .. Len(s)
      BY <2>1
    <3> QED BY <3>1, <2>3, Zenon
  <2>5. ASSUME NEW i \in 1 .. Len(s) PROVE g[i] = f[<<g[i - 1], s[i]>>]
    <3>1. i \in 0 .. Len(s) /\ i # 0
      BY <2>1
    <3> QED BY <3>1, <2>3
  <2> QED BY <2>4, <2>5
<1> DEFINE L == {n \in Nat : n <= Len(s) => g[n] \in D}
<1>5. 0 \in L
  BY <1>4
<1>6. \A n \in Nat : n \in L => n + 1 \in L
  <2> SUFFICES ASSUME NEW n \in Nat, n \in L, n + 1 <= Len(s)
               PROVE  g[n + 1] \in D
    OBVIOUS
  <2>1. n + 1 \in 1 .. Len(s) /\ (n + 1) - 1 = n /\ s[n + 1] \in B
    OBVIOUS
  <2>3. g[n] \in D
    <3>1. n <= Len(s)
      OBVIOUS
    <3> QED BY <3>1
  <2>2. g[n + 1] = f[<<g[n], s[n + 1]>>]
    BY <2>1, <1>4
  <2> QED BY <2>1, <2>2, <2>3
<1> HIDE DEF L
<1>7. Nat \subseteq L
  BY <1>5, <1>6, NatInduct
<1>8. \A n \in 0 .. Len(s) : g[n] \in D
  BY <1>7 DEF L
<1>9. g \in [0 .. Len(s) -> D]
  <2>1. g = [i \in 0 .. Len(s) |-> g[i]]
    BY <1>3
  <2> QED BY <2>1, <1>8
<1> QED BY <1>3, <1>4, <1>9 DEF Values, Computes

LEMMA LoopEmpty ==
  ASSUME NEW D, NEW start \in D, NEW B, NEW f \in [D \X B -> D]
  PROVE  Loop(f, start, <<>>) = start
<1>1. <<>> \in Seq(B) /\ Len(<<>>) = 0
  OBVIOUS
<1>2. \E g : Computes(g, D, start, <<>>, f)
  BY <1>1, LoopValues
<1> QED BY <1>1, <1>2 DEF Computes, Values

Extends(D, start, f, p, b) ==
  Loop(f, start, p) \in D /\ Loop(f, start, Append(p, b)) = f[<<Loop(f, start, p), b>>]

LEMMA LoopAppend ==
  ASSUME NEW D, NEW start \in D, NEW B, NEW f \in [D \X B -> D], NEW p \in Seq(B), NEW b \in B
  PROVE  Extends(D, start, f, p, b)
<1> DEFINE q == Append(p, b)
<1>1. q \in Seq(B) /\ Len(q) = Len(p) + 1 /\ q[Len(p) + 1] = b /\ \A i \in 1 .. Len(p) : q[i] = p[i]
  OBVIOUS
<1> HIDE DEF q
<1>2. PICK g : Computes(g, D, start, p, f)
  BY LoopValues
<1>3. PICK h : Computes(h, D, start, q, f)
  BY <1>1, LoopValues
<1> DEFINE L == {n \in Nat : n <= Len(p) => g[n] = h[n]}
<1>4. 0 \in L
  BY <1>2, <1>3 DEF Computes, Values
<1>5. \A n \in Nat : n \in L => n + 1 \in L
  <2> SUFFICES ASSUME NEW n \in Nat, n <= Len(p) => g[n] = h[n], n + 1 <= Len(p)
               PROVE  g[n + 1] = h[n + 1]
    <3>1. \A n \in Nat : n + 1 \in Nat
      OBVIOUS
    <3> QED BY <3>1, Zenon
  <2>0. n <= Len(p)
    OBVIOUS
  <2>1. g[n] = h[n] /\ (n + 1) - 1 = n /\ n + 1 \in 1 .. Len(p) /\ n + 1 \in 1 .. Len(q)
    BY <2>0, <1>1
  <2>2. g[n + 1] = f[<<g[n], p[n + 1]>>] /\ h[n + 1] = f[<<h[n], q[n + 1]>>]
    BY <2>1, <1>2, <1>3 DEF Computes, Values
  <2>3. q[n + 1] = p[n + 1]
    BY <2>1, <1>1
  <2> QED BY <2>1, <2>2, <2>3
<1> HIDE DEF L
<1>6. Nat \subseteq L
  BY <1>4, <1>5, NatInduct
<1>7. g[Len(p)] = h[Len(p)]
  BY <1>6 DEF L
<1>8. h[Len(p) + 1] = f[<<h[Len(p)], b>>]
  <2>1. Len(p) + 1 \in 1 .. Len(q) /\ (Len(p) + 1) - 1 = Len(p)
    BY <1>1
  <2> QED BY <2>1, <1>1, <1>3 DEF Computes, Values
<1>9. Loop(f, start, p) \in D
  BY <1>2 DEF Computes, Values
<1> QED BY <1>1, <1>2, <1>3, <1>7, <1>8, <1>9 DEF q, Computes, Extends

---------------------------------------------------------------------------
(* Escaped.                                                                *)

LEMMA EscapedEmpty ==
  ASSUME NEW B, NEW code \in [B -> Seq(B)]
  PROVE  Escaped(code, <<>>) = <<>>
<1> DEFINE f == [x \in Seq(B) \X B |-> x[1] \o code[x[2]]]
<1>1. f \in [Seq(B) \X B -> Seq(B)] /\ <<>> \in Seq(B)
  OBVIOUS
<1>2. Escaped(code, <<>>) = Loop(f, <<>>, <<>>)
  BY DEF Escaped
<1> HIDE DEF f
<1> QED BY <1>1, <1>2, LoopEmpty

LEMMA EscapedAppend ==
  ASSUME NEW B, NEW code \in [B -> Seq(B)], NEW p \in Seq(B), NEW b \in B
  PROVE  /\ Escaped(code, p) \in Seq(B)
         /\ Escaped(code, Append(p, b)) = Escaped(code, p) \o code[b]
<1> DEFINE D == Seq(B)
           e == <<>>
           f == [x \in Seq(B) \X B |-> x[1] \o code[x[2]]]
<1>1. f \in [D \X B -> D] /\ e \in D
  OBVIOUS
<1>2. Escaped(code, p) = Loop(f, e, p) /\ Escaped(code, Append(p, b)) = Loop(f, e, Append(p, b))
  BY DEF Escaped
<1>3. \A d \in Seq(B) : f[<<d, b>>] = d \o code[b]
  OBVIOUS
<1> HIDE DEF f, D, e
<1>4. Extends(D, e, f, p, b)
  BY <1>1, LoopAppend
<1> QED BY <1>2, <1>3, <1>4 DEF D, Extends

---------------------------------------------------------------------------
(* hdlc.rs.                                                                *)

LEMMA MaskFacts ==
  /\ Mask \in [HdlcByte -> HdlcByte]
  /\ Mask["FLAG"] = "5E" /\ Mask["ESC"] = "5D"
  /\ \A b \in HdlcByte : Mask[Mask[b]] = b
  BY DEF Mask, HdlcByte

LEMMA HdlcCodeFacts ==
  /\ HdlcCode \in [HdlcByte -> Seq(HdlcByte)]
  /\ \A b \in {"FLAG", "ESC"} : HdlcCode[b] = <<"ESC", Mask[b]>>
  /\ \A b \in HdlcByte \ {"FLAG", "ESC"} : HdlcCode[b] = <<b>>
<1> DEFINE g == [b \in HdlcByte |-> IF b \in {"FLAG", "ESC"} THEN <<"ESC", Mask[b]>> ELSE <<b>>]
<1>1. \A b \in HdlcByte : Mask[b] \in HdlcByte /\ "ESC" \in HdlcByte
  BY MaskFacts DEF HdlcByte
<1>2. \A b \in HdlcByte : <<b>> \in Seq(HdlcByte) /\ <<"ESC", Mask[b]>> \in Seq(HdlcByte)
  BY <1>1
<1>3. {"FLAG", "ESC"} \subseteq HdlcByte
  BY DEF HdlcByte
<1> QED BY <1>2, <1>3 DEF HdlcCode

LEMMA StartType == ASSUME NEW B PROVE Start \in Decoder(B)
  BY DEF Start, Decoder

LEMMA HdlcStepType ==
  ASSUME NEW d \in Decoder(HdlcByte), NEW b \in HdlcByte
  PROVE  hdlc_step(d, b) \in Decoder(HdlcByte)
<1>1. Mask[b] \in HdlcByte
  BY MaskFacts
<1>2. Append(d.out, Mask[b]) \in Seq(HdlcByte) /\ Append(d.out, b) \in Seq(HdlcByte)
  BY <1>1 DEF Decoder
<1>3. /\ [d EXCEPT !.out = Append(@, Mask[b]), !.escaped = FALSE] \in Decoder(HdlcByte)
      /\ [d EXCEPT !.escaped = TRUE] \in Decoder(HdlcByte)
      /\ [d EXCEPT !.malformed = TRUE] \in Decoder(HdlcByte)
      /\ [d EXCEPT !.out = Append(@, b)] \in Decoder(HdlcByte)
  BY <1>2 DEF Decoder
<1> QED BY <1>3 DEF hdlc_step

LEMMA HdlcRunEmpty == hdlc_run(<<>>) = Start
<1> DEFINE D == Decoder(HdlcByte)
           f == [x \in Decoder(HdlcByte) \X HdlcByte |-> hdlc_step(x[1], x[2])]
<1>1. f \in [D \X HdlcByte -> D] /\ Start \in D
  BY HdlcStepType, StartType
<1>2. hdlc_run(<<>>) = Loop(f, Start, <<>>)
  BY DEF hdlc_run
<1> HIDE DEF f, D
<1> QED BY <1>1, <1>2, LoopEmpty

LEMMA HdlcRunAppend ==
  ASSUME NEW s \in Seq(HdlcByte), NEW b \in HdlcByte
  PROVE  /\ hdlc_run(s) \in Decoder(HdlcByte)
         /\ hdlc_run(Append(s, b)) = hdlc_step(hdlc_run(s), b)
<1> DEFINE D == Decoder(HdlcByte)
           f == [x \in Decoder(HdlcByte) \X HdlcByte |-> hdlc_step(x[1], x[2])]
<1>1. f \in [D \X HdlcByte -> D] /\ Start \in D
  BY HdlcStepType, StartType
<1>2. hdlc_run(s) = Loop(f, Start, s) /\ hdlc_run(Append(s, b)) = Loop(f, Start, Append(s, b))
  BY DEF hdlc_run
<1>3. \A d \in D : f[<<d, b>>] = hdlc_step(d, b)
  OBVIOUS
<1> HIDE DEF f, D
<1>4. Extends(D, Start, f, s, b)
  BY <1>1, LoopAppend
<1> QED BY <1>2, <1>3, <1>4 DEF D, Extends

LEMMA HdlcEscapedAppend ==
  ASSUME NEW q \in Seq(HdlcByte), NEW b \in HdlcByte
  PROVE  Escaped(HdlcCode, Append(q, b)) = Escaped(HdlcCode, q) \o HdlcCode[b]
<1>1. HdlcCode \in [HdlcByte -> Seq(HdlcByte)]
  BY HdlcCodeFacts
<1> QED BY <1>1, EscapedAppend, Zenon

(* What the loop of frame writes for p: bytes, no flag among them, from    *)
(* which the loop of deframe gets p back.                                  *)
LEMMA HdlcEscaped ==
  ASSUME NEW p \in Seq(HdlcByte)
  PROVE  /\ Escaped(HdlcCode, p) \in Seq(HdlcByte)
         /\ Len(p) <= Len(Escaped(HdlcCode, p))
         /\ \A i \in 1 .. Len(Escaped(HdlcCode, p)) : Escaped(HdlcCode, p)[i] # "FLAG"
         /\ hdlc_run(Escaped(HdlcCode, p)) = [out |-> p, escaped |-> FALSE, malformed |-> FALSE]
<1> DEFINE Q(q, e) == /\ e \in Seq(HdlcByte)
                      /\ Len(q) <= Len(e)
                      /\ \A i \in 1 .. Len(e) : e[i] # "FLAG"
                      /\ hdlc_run(e) = [out |-> q, escaped |-> FALSE, malformed |-> FALSE]
           S == {q \in Seq(HdlcByte) : Q(q, Escaped(HdlcCode, q))}
<1>1. <<>> \in S
  <2>1. <<>> \in Seq(HdlcByte) /\ Escaped(HdlcCode, <<>>) = <<>>
    BY EscapedEmpty, HdlcCodeFacts
  <2>2. Q(<<>>, <<>>)
    BY HdlcRunEmpty DEF Start
  <2> QED BY <2>1, <2>2
<1>2. \A q \in Seq(HdlcByte), b \in HdlcByte : q \in S => Append(q, b) \in S
  <2> SUFFICES ASSUME NEW q \in Seq(HdlcByte), NEW b \in HdlcByte, Q(q, Escaped(HdlcCode, q))
               PROVE  Q(Append(q, b), Escaped(HdlcCode, Append(q, b)))
    BY SMTT(30)
  <2> DEFINE e == Escaped(HdlcCode, q)
             d == [out |-> q, escaped |-> FALSE, malformed |-> FALSE]
             dd == [out |-> Append(q, b), escaped |-> FALSE, malformed |-> FALSE]
  <2>1. Escaped(HdlcCode, Append(q, b)) = e \o HdlcCode[b]
    BY HdlcEscapedAppend
  <2>2. e \in Seq(HdlcByte) /\ Len(q) <= Len(e) /\ hdlc_run(e) = d /\ \A i \in 1 .. Len(e) : e[i] # "FLAG"
    OBVIOUS
  <2> HIDE DEF e
  <2>3. CASE b \in {"FLAG", "ESC"}
    <3>1. HdlcCode[b] = <<"ESC", Mask[b]>> /\ Mask[b] \in HdlcByte /\ Mask[b] # "FLAG" /\ Mask[Mask[b]] = b
      BY <2>3, HdlcCodeFacts, MaskFacts
    <3>2. "ESC" \in HdlcByte
      BY DEF HdlcByte
    <3> DEFINE e1 == Append(e, "ESC")
               e2 == Append(e1, Mask[b])
    <3>3. e1 \in Seq(HdlcByte) /\ e2 \in Seq(HdlcByte) /\ e \o HdlcCode[b] = e2
      BY <2>2, <3>1, <3>2
    <3>4. Len(e2) = Len(e) + 2 /\ \A i \in 1 .. Len(e2) : e2[i] # "FLAG"
      BY <2>2, <3>1
    <3>5. hdlc_run(e1) = [d EXCEPT !.escaped = TRUE]
      <4>1. hdlc_run(e1) = hdlc_step(d, "ESC")
        BY <2>2, <3>2, HdlcRunAppend
      <4> QED BY <4>1 DEF hdlc_step
    <3>6. hdlc_run(e2) = dd
      <4>1. hdlc_run(e2) = hdlc_step([d EXCEPT !.escaped = TRUE], Mask[b])
        BY <3>1, <3>3, <3>5, HdlcRunAppend
      <4> QED BY <4>1, <3>1, ZenonT(60) DEF hdlc_step
    <3> HIDE DEF e1, e2
    <3> QED BY <2>1, <2>2, <3>3, <3>4, <3>6
  <2>4. CASE b \notin {"FLAG", "ESC"}
    <3> DEFINE e1 == Append(e, b)
    <3>1. HdlcCode[b] = <<b>>
      BY <2>4, HdlcCodeFacts
    <3>2. e \o HdlcCode[b] = e1 /\ e1 \in Seq(HdlcByte)
      BY <3>1, <2>2
    <3>3. Len(e1) = Len(e) + 1 /\ \A i \in 1 .. Len(e1) : e1[i] # "FLAG"
      BY <2>2, <2>4
    <3>4. hdlc_run(e1) = dd
      <4>1. hdlc_run(e1) = hdlc_step(d, b)
        BY <2>2, HdlcRunAppend
      <4> QED BY <4>1, <2>4 DEF hdlc_step
    <3> HIDE DEF e1
    <3> QED BY <2>1, <2>2, <3>2, <3>3, <3>4
  <2> QED BY <2>3, <2>4
<1> HIDE DEF S
<1>3. p \in S
  BY <1>1, <1>2, SeqInduct
<1> QED BY <1>3 DEF S

(* Deframing undoes framing, and no byte of a frame but its first and its  *)
(* last is a flag.                                                         *)
LEMMA HdlcFrameFacts ==
  ASSUME NEW p \in Seq(HdlcByte)
  PROVE  /\ hdlc_frame(p) \in Seq(HdlcByte)
         /\ Len(hdlc_frame(p)) >= 2 + Len(p)
         /\ hdlc_frame(p)[1] = "FLAG" /\ hdlc_frame(p)[Len(hdlc_frame(p))] = "FLAG"
         /\ \A i \in 2 .. Len(hdlc_frame(p)) - 1 : hdlc_frame(p)[i] # "FLAG"
         /\ hdlc_deframe(hdlc_frame(p)) = {p}
<1> DEFINE e == Escaped(HdlcCode, p)
           f == <<"FLAG">> \o e \o <<"FLAG">>
<1>1. /\ e \in Seq(HdlcByte) /\ Len(p) <= Len(e)
      /\ \A i \in 1 .. Len(e) : e[i] # "FLAG"
      /\ hdlc_run(e) = [out |-> p, escaped |-> FALSE, malformed |-> FALSE]
  BY HdlcEscaped
<1> HIDE DEF e
<1>2. "FLAG" \in HdlcByte
  BY DEF HdlcByte
<1>3. f \in Seq(HdlcByte) /\ Len(f) = Len(e) + 2 /\ f[1] = "FLAG" /\ f[Len(f)] = "FLAG"
  BY <1>1, <1>2
<1>4. \A i \in 2 .. Len(f) - 1 : f[i] = e[i - 1]
  BY <1>1
<1>5. SubSeq(f, 2, Len(f) - 1) = e
  BY <1>1, <1>3, <1>4
<1>6. hdlc_frame(p) = f
  BY DEF hdlc_frame, e
<1> HIDE DEF f
<1>7. hdlc_deframe(f) = {p}
  <2>1. hdlc_deframe(f) = Decoded(hdlc_run(e))
    BY <1>5 DEF hdlc_deframe
  <2> QED BY <2>1, <1>1 DEF Decoded
<1>8. \A i \in 2 .. Len(f) - 1 : f[i] # "FLAG"
  BY <1>1, <1>3, <1>4
<1>9. Len(p) \in Nat
  OBVIOUS
<1> QED BY <1>1, <1>3, <1>6, <1>7, <1>8, <1>9

---------------------------------------------------------------------------
(* kiss.rs.                                                                *)

LEMMA EscapeFacts ==
  /\ DOMAIN Escape = {"FEND", "FESC"} /\ DOMAIN Unescape = {"TFEND", "TFESC"}
  /\ \A b \in DOMAIN Escape : /\ Escape[b] \in DOMAIN Unescape /\ Escape[b] \in KissByte
                              /\ Escape[b] # "FEND" /\ Unescape[Escape[b]] = b
  /\ \A b \in DOMAIN Unescape : Unescape[b] \in KissByte
  BY DEF Escape, Unescape, KissByte

LEMMA KissCodeFacts ==
  /\ KissCode \in [KissByte -> Seq(KissByte)]
  /\ \A b \in {"FEND", "FESC"} : KissCode[b] = <<"FESC", Escape[b]>>
  /\ \A b \in KissByte \ {"FEND", "FESC"} : KissCode[b] = <<b>>
<1>1. \A b \in DOMAIN Escape : Escape[b] \in KissByte /\ "FESC" \in KissByte
  BY EscapeFacts DEF KissByte
<1>2. \A b \in DOMAIN Escape : <<"FESC", Escape[b]>> \in Seq(KissByte)
  BY <1>1
<1>3. \A b \in KissByte : <<b>> \in Seq(KissByte)
  OBVIOUS
<1>4. {"FEND", "FESC"} \subseteq KissByte /\ DOMAIN Escape = {"FEND", "FESC"}
  BY EscapeFacts DEF KissByte
<1> QED BY <1>2, <1>3, <1>4 DEF KissCode

LEMMA KissStepType ==
  ASSUME NEW d \in Decoder(KissByte), NEW b \in KissByte
  PROVE  kiss_step(d, b) \in Decoder(KissByte)
<1>1. /\ Append(d.out, b) \in Seq(KissByte)
      /\ b \in DOMAIN Unescape => Append(d.out, Unescape[b]) \in Seq(KissByte)
  BY EscapeFacts DEF Decoder
<1>2. /\ b \in DOMAIN Unescape =>
           [d EXCEPT !.out = Append(@, Unescape[b]), !.escaped = FALSE] \in Decoder(KissByte)
      /\ [d EXCEPT !.escaped = TRUE] \in Decoder(KissByte)
      /\ [d EXCEPT !.malformed = TRUE] \in Decoder(KissByte)
      /\ [d EXCEPT !.out = Append(@, b)] \in Decoder(KissByte)
  BY <1>1 DEF Decoder
<1> QED BY <1>2 DEF kiss_step

LEMMA KissRunEmpty == kiss_run(<<>>) = Start
<1> DEFINE D == Decoder(KissByte)
           f == [x \in Decoder(KissByte) \X KissByte |-> kiss_step(x[1], x[2])]
<1>1. f \in [D \X KissByte -> D] /\ Start \in D
  BY KissStepType, StartType
<1>2. kiss_run(<<>>) = Loop(f, Start, <<>>)
  BY DEF kiss_run
<1> HIDE DEF f, D
<1> QED BY <1>1, <1>2, LoopEmpty

LEMMA KissRunAppend ==
  ASSUME NEW s \in Seq(KissByte), NEW b \in KissByte
  PROVE  /\ kiss_run(s) \in Decoder(KissByte)
         /\ kiss_run(Append(s, b)) = kiss_step(kiss_run(s), b)
<1> DEFINE D == Decoder(KissByte)
           f == [x \in Decoder(KissByte) \X KissByte |-> kiss_step(x[1], x[2])]
<1>1. f \in [D \X KissByte -> D] /\ Start \in D
  BY KissStepType, StartType
<1>2. kiss_run(s) = Loop(f, Start, s) /\ kiss_run(Append(s, b)) = Loop(f, Start, Append(s, b))
  BY DEF kiss_run
<1>3. \A d \in D : f[<<d, b>>] = kiss_step(d, b)
  OBVIOUS
<1> HIDE DEF f, D
<1>4. Extends(D, Start, f, s, b)
  BY <1>1, LoopAppend
<1> QED BY <1>2, <1>3, <1>4 DEF D, Extends

LEMMA KissEscapedAppend ==
  ASSUME NEW q \in Seq(KissByte), NEW b \in KissByte
  PROVE  Escaped(KissCode, Append(q, b)) = Escaped(KissCode, q) \o KissCode[b]
<1>1. KissCode \in [KissByte -> Seq(KissByte)]
  BY KissCodeFacts
<1> QED BY <1>1, EscapedAppend, Zenon

(* The same for the loops of kiss.rs.                                      *)
LEMMA KissEscaped ==
  ASSUME NEW p \in Seq(KissByte)
  PROVE  /\ Escaped(KissCode, p) \in Seq(KissByte)
         /\ Len(p) <= Len(Escaped(KissCode, p))
         /\ \A i \in 1 .. Len(Escaped(KissCode, p)) : Escaped(KissCode, p)[i] # "FEND"
         /\ kiss_run(Escaped(KissCode, p)) = [out |-> p, escaped |-> FALSE, malformed |-> FALSE]
<1> DEFINE Q(q, e) == /\ e \in Seq(KissByte)
                      /\ Len(q) <= Len(e)
                      /\ \A i \in 1 .. Len(e) : e[i] # "FEND"
                      /\ kiss_run(e) = [out |-> q, escaped |-> FALSE, malformed |-> FALSE]
           S == {q \in Seq(KissByte) : Q(q, Escaped(KissCode, q))}
<1>1. <<>> \in S
  <2>1. <<>> \in Seq(KissByte) /\ Escaped(KissCode, <<>>) = <<>>
    BY EscapedEmpty, KissCodeFacts
  <2>2. Q(<<>>, <<>>)
    BY KissRunEmpty DEF Start
  <2> QED BY <2>1, <2>2
<1>2. \A q \in Seq(KissByte), b \in KissByte : q \in S => Append(q, b) \in S
  <2> SUFFICES ASSUME NEW q \in Seq(KissByte), NEW b \in KissByte, Q(q, Escaped(KissCode, q))
               PROVE  Q(Append(q, b), Escaped(KissCode, Append(q, b)))
    BY SMTT(30)
  <2> DEFINE e == Escaped(KissCode, q)
             d == [out |-> q, escaped |-> FALSE, malformed |-> FALSE]
             dd == [out |-> Append(q, b), escaped |-> FALSE, malformed |-> FALSE]
  <2>1. Escaped(KissCode, Append(q, b)) = e \o KissCode[b]
    BY KissEscapedAppend
  <2>2. e \in Seq(KissByte) /\ Len(q) <= Len(e) /\ kiss_run(e) = d /\ \A i \in 1 .. Len(e) : e[i] # "FEND"
    OBVIOUS
  <2> HIDE DEF e
  <2>3. CASE b \in {"FEND", "FESC"}
    <3>1. /\ KissCode[b] = <<"FESC", Escape[b]>> /\ Escape[b] \in KissByte
          /\ Escape[b] # "FEND" /\ Escape[b] \in DOMAIN Unescape /\ Unescape[Escape[b]] = b
      BY <2>3, KissCodeFacts, EscapeFacts
    <3>2. "FESC" \in KissByte
      BY DEF KissByte
    <3> DEFINE e1 == Append(e, "FESC")
               e2 == Append(e1, Escape[b])
    <3>3. e1 \in Seq(KissByte) /\ e2 \in Seq(KissByte) /\ e \o KissCode[b] = e2
      BY <2>2, <3>1, <3>2
    <3>4. Len(e2) = Len(e) + 2 /\ \A i \in 1 .. Len(e2) : e2[i] # "FEND"
      BY <2>2, <3>1
    <3>5. kiss_run(e1) = [d EXCEPT !.escaped = TRUE]
      <4>1. kiss_run(e1) = kiss_step(d, "FESC")
        BY <2>2, <3>2, KissRunAppend
      <4> QED BY <4>1 DEF kiss_step
    <3>6. kiss_run(e2) = dd
      <4>1. kiss_run(e2) = kiss_step([d EXCEPT !.escaped = TRUE], Escape[b])
        BY <3>1, <3>3, <3>5, KissRunAppend
      <4> QED BY <4>1, <3>1, ZenonT(60) DEF kiss_step
    <3> HIDE DEF e1, e2
    <3> QED BY <2>1, <2>2, <3>3, <3>4, <3>6
  <2>4. CASE b \notin {"FEND", "FESC"}
    <3> DEFINE e1 == Append(e, b)
    <3>1. KissCode[b] = <<b>>
      BY <2>4, KissCodeFacts
    <3>2. e \o KissCode[b] = e1 /\ e1 \in Seq(KissByte)
      BY <3>1, <2>2
    <3>3. Len(e1) = Len(e) + 1 /\ \A i \in 1 .. Len(e1) : e1[i] # "FEND"
      BY <2>2, <2>4
    <3>4. kiss_run(e1) = dd
      <4>1. kiss_run(e1) = kiss_step(d, b)
        BY <2>2, KissRunAppend
      <4> QED BY <4>1, <2>4 DEF kiss_step
    <3> HIDE DEF e1
    <3> QED BY <2>1, <2>2, <3>2, <3>3, <3>4
  <2> QED BY <2>3, <2>4
<1> HIDE DEF S
<1>3. p \in S
  BY <1>1, <1>2, SeqInduct
<1> QED BY <1>3 DEF S

LEMMA KissFrameFacts ==
  ASSUME NEW p \in Seq(KissByte)
  PROVE  /\ kiss_frame(p) \in Seq(KissByte)
         /\ Len(kiss_frame(p)) >= 3 + Len(p)
         /\ kiss_frame(p)[1] = "FEND" /\ kiss_frame(p)[Len(kiss_frame(p))] = "FEND"
         /\ kiss_frame(p)[2] = "00"
         /\ \A i \in 2 .. Len(kiss_frame(p)) - 1 : kiss_frame(p)[i] # "FEND"
         /\ kiss_run(SubSeq(kiss_frame(p), 3, Len(kiss_frame(p)) - 1)) =
              [out |-> p, escaped |-> FALSE, malformed |-> FALSE]
<1> DEFINE e == Escaped(KissCode, p)
           f == <<"FEND", "00">> \o e \o <<"FEND">>
<1>1. /\ e \in Seq(KissByte) /\ Len(p) <= Len(e)
      /\ \A i \in 1 .. Len(e) : e[i] # "FEND"
      /\ kiss_run(e) = [out |-> p, escaped |-> FALSE, malformed |-> FALSE]
  BY KissEscaped
<1> HIDE DEF e
<1>2. "FEND" \in KissByte /\ "00" \in KissByte
  BY DEF KissByte
<1>3. f \in Seq(KissByte) /\ Len(f) = Len(e) + 3 /\ f[1] = "FEND" /\ f[2] = "00" /\ f[Len(f)] = "FEND"
  BY <1>1, <1>2
<1>4. \A i \in 3 .. Len(f) - 1 : f[i] = e[i - 2]
  BY <1>1
<1>5. SubSeq(f, 3, Len(f) - 1) = e
  BY <1>1, <1>3, <1>4
<1>6. kiss_frame(p) = f
  BY DEF kiss_frame, e
<1> HIDE DEF f
<1>7. Len(f) >= 3 + Len(p)
  BY <1>1, <1>3
<1>8. ASSUME NEW i \in 2 .. Len(f) - 1 PROVE f[i] # "FEND"
  <2>1. CASE i = 2
    BY <2>1, <1>3
  <2>2. CASE i # 2
    <3>1. i \in 3 .. Len(f) - 1 /\ i - 2 \in 1 .. Len(e)
      BY <2>2, <1>1, <1>3
    <3> QED BY <3>1, <1>1, <1>4
  <2> QED BY <2>1, <2>2
<1>9. kiss_run(SubSeq(f, 3, Len(f) - 1)) = [out |-> p, escaped |-> FALSE, malformed |-> FALSE]
  BY <1>1, <1>5
<1> QED BY <1>3, <1>6, <1>7, <1>8, <1>9, Zenon

(* hdlc::deframe and kiss::deframe give back every packet that frame is    *)
(* given, however many flags and escapes it contains.                      *)
THEOREM RoundTrip ==
  /\ \A p \in Seq(HdlcByte) : hdlc_deframe(hdlc_frame(p)) = {p}
  /\ \A p \in Seq(KissByte) : kiss_deframe(kiss_frame(p)) = {p}
<1>1. \A p \in Seq(HdlcByte) : hdlc_deframe(hdlc_frame(p)) = {p}
  BY HdlcFrameFacts
<1>2. ASSUME NEW p \in Seq(KissByte) PROVE kiss_deframe(kiss_frame(p)) = {p}
  <2> DEFINE f == kiss_frame(p)
             d == [out |-> p, escaped |-> FALSE, malformed |-> FALSE]
  <2>1. f[2] = "00" /\ Len(f) >= 3 + Len(p) /\ kiss_run(SubSeq(f, 3, Len(f) - 1)) = d /\ f \in Seq(KissByte)
    BY KissFrameFacts
  <2> HIDE DEF f
  <2>2. ~(Len(f) < 3)
    BY <2>1
  <2>3. kiss_deframe(f) = Decoded(d)
    BY <2>1, <2>2 DEF kiss_deframe
  <2>4. Decoded(d) = {p}
    BY DEF Decoded
  <2> QED BY <2>3, <2>4 DEF f
<1> QED BY <1>1, <1>2

LEMMA KissStepGrows ==
  ASSUME NEW d \in Decoder(KissByte), NEW b \in KissByte
  PROVE  /\ Len(d.out) <= Len(kiss_step(d, b).out)
         /\ d.malformed => kiss_step(d, b).malformed
<1>1. d.out \in Seq(KissByte)
  BY DEF Decoder
<1>2. \A c : Len(Append(d.out, c)) = Len(d.out) + 1
  BY <1>1
<1> QED BY <1>1, <1>2 DEF kiss_step, Decoder

(* A decoder that has given up, or has written too much, does not recover  *)
(* before the end of the frame.                                            *)
LEMMA KissRunGrows ==
  ASSUME NEW s \in Seq(KissByte), NEW n \in 0 .. Len(s)
  PROVE  /\ Len(kiss_run(SubSeq(s, 1, n)).out) <= Len(kiss_run(s).out)
         /\ kiss_run(SubSeq(s, 1, n)).malformed => kiss_run(s).malformed
<1> DEFINE d(j) == kiss_run(SubSeq(s, 1, j))
           L == {k \in Nat : n + k <= Len(s) => /\ Len(d(n).out) <= Len(d(n + k).out)
                                                /\ d(n).malformed => d(n + k).malformed}
<1>0. \A j \in 0 .. Len(s) : d(j) \in Decoder(KissByte) /\ Len(d(j).out) \in Nat
  <2> SUFFICES ASSUME NEW j \in 0 .. Len(s) PROVE d(j) \in Decoder(KissByte) /\ Len(d(j).out) \in Nat
    OBVIOUS
  <2>1. SubSeq(s, 1, j) \in Seq(KissByte) /\ "00" \in KissByte
    BY DEF KissByte
  <2>2. d(j) \in Decoder(KissByte)
    BY <2>1, KissRunAppend
  <2> QED BY <2>2 DEF Decoder
<1>1. 0 \in L
  BY <1>0
<1>2. ASSUME NEW k \in Nat, k \in L PROVE k + 1 \in L
  <2> SUFFICES ASSUME n + (k + 1) <= Len(s)
               PROVE  Len(d(n).out) <= Len(d(n + (k + 1)).out) /\ (d(n).malformed => d(n + (k + 1)).malformed)
    OBVIOUS
  <2> DEFINE j == n + k
  <2>1. j \in 0 .. Len(s) /\ n + (k + 1) = j + 1 /\ j + 1 \in 1 .. Len(s) /\ s[j + 1] \in KissByte
    OBVIOUS
  <2>2. Len(d(n).out) <= Len(d(j).out) /\ (d(n).malformed => d(j).malformed)
    <3>1. n + k <= Len(s)
      BY <2>1
    <3> HIDE DEF d
    <3> QED BY <1>2, <3>1, Zenon
  <2>3. SubSeq(s, 1, j + 1) = Append(SubSeq(s, 1, j), s[j + 1]) /\ SubSeq(s, 1, j) \in Seq(KissByte)
    BY <2>1
  <2>4. d(j + 1) = kiss_step(d(j), s[j + 1])
    BY <2>1, <2>3, KissRunAppend
  <2>5. d(n) \in Decoder(KissByte) /\ d(j) \in Decoder(KissByte) /\ d(j + 1) \in Decoder(KissByte)
        /\ Len(d(n).out) \in Nat /\ Len(d(j).out) \in Nat /\ Len(d(j + 1).out) \in Nat
    BY <1>0, <2>1
  <2>6. Len(d(j).out) <= Len(d(j + 1).out) /\ (d(j).malformed => d(j + 1).malformed)
    BY <2>1, <2>4, <2>5, KissStepGrows
  <2> HIDE DEF d, j
  <2> QED BY <2>1, <2>2, <2>5, <2>6
<1> HIDE DEF L
<1>3. Nat \subseteq L
  BY <1>1, <1>2, NatInduct
<1> DEFINE k == Len(s) - n
<1>4. k \in Nat /\ n + k <= Len(s) /\ n + k = Len(s) /\ SubSeq(s, 1, Len(s)) = s
  OBVIOUS
<1> HIDE DEF k
<1>5. k \in L
  BY <1>3, <1>4
<1>6. Len(d(n).out) <= Len(d(n + k).out) /\ (d(n).malformed => d(n + k).malformed)
  <2> HIDE DEF d
  <2> QED BY <1>4, <1>5, Zenon DEF L
<1> QED BY <1>4, <1>6, Zenon

---------------------------------------------------------------------------
(* The bytes under way.  R is what the reader still holds followed by what *)
(* is on the wire, each byte with the number of its packet; l is the line, *)
(* s the packets sent, h those that lost a byte.  The reader's part of R   *)
(* is no variable of the model: the invariant says that there is one.      *)

Flag(l) == IF l.reader = "tcp" THEN "FLAG" ELSE "FEND"
FrameOf(l, p) == IF l.reader = "tcp" THEN hdlc_frame(p) ELSE kiss_frame(p)
Tagged(l, s) == [byte : Bytes(l.reader), of : 1 .. Len(s)]

(* a and b are the places of two flags with none between them.             *)
Chunk(l, R, a, b) ==
  /\ a \in 1 .. Len(R) /\ b \in 1 .. Len(R) /\ a < b
  /\ R[a].byte = Flag(l) /\ R[b].byte = Flag(l)
  /\ \A i \in a + 1 .. b - 1 : R[i].byte # Flag(l)

Spells(R, a, b, f) == Len(f) = b - a + 1 /\ \A i \in a .. b : R[i].byte = f[i - a + 1]

(* m is the number of the last packet accounted for.                       *)
Later(l, m, R) == \A i \in 1 .. Len(R) : R[i].byte # Flag(l) => m < R[i].of

(* A flag separates the bytes of different packets.                        *)
Ordered(l, R) ==
  \A i, b, j \in 1 .. Len(R) :
    (i < b /\ b < j /\ R[i].byte # Flag(l) /\ R[b].byte = Flag(l) /\ R[j].byte # Flag(l)) =>
      R[i].of < R[j].of

(* What is between two flags is a packet if that packet lost no byte.      *)
Clean(l, s, h, R) ==
  \A a, b, i \in 1 .. Len(R) :
    (Chunk(l, R, a, b) /\ a < i /\ i < b /\ R[i].of \notin h) =>
      /\ Spells(R, a, b, FrameOf(l, s[R[i].of]))
      /\ \A j \in a + 1 .. b : R[j].of = R[i].of
      /\ ~l.shared => R[a].of = R[i].of

(* The next flag after a byte of a packet is its closing one.              *)
Ended(l, h, R) ==
  \A i, b \in 1 .. Len(R) :
    (i < b /\ R[b].byte = Flag(l) /\ (\A j \in i .. b - 1 : R[j].byte # Flag(l)) /\ R[i].of \notin h) =>
      R[b].of = R[i].of

(* A packet whose closing flag is missing has lost it.                     *)
Closed(l, h, R) ==
  \A i \in 1 .. Len(R) : (\A j \in i .. Len(R) : R[j].byte # Flag(l)) => R[i].of \in h

Stream(l, s, h, m, R) ==
  /\ R \in Seq(Tagged(l, s)) /\ Later(l, m, R) /\ Ordered(l, R)
  /\ Clean(l, s, h, R) /\ Ended(l, h, R) /\ Closed(l, h, R)

FitsOn(l, p) ==
  /\ l.reader = "serial" => Len(FrameOf(l, p)) - 1 <= l.capacity
  /\ l.reader = "uart" => Len(p) <= l.capacity
RoomyOn(l) == \A p \in l.packets : Len(FrameOf(l, p)) - 1 + READ_CHUNK <= l.capacity

(* The packets that have to arrive.                                        *)
Due(l, s, h) ==
  {k \in 1 .. Len(s) : k \notin h /\ FitsOn(l, s[k]) /\ (l.reader = "tcp" => RoomyOn(l))}

(* Those that have not arrived are under way, between two flags.           *)
Pending(l, s, h, done, R) ==
  \A k \in Due(l, s, h) \ done :
    \E a, b, i \in 1 .. Len(R) : Chunk(l, R, a, b) /\ a < i /\ i < b /\ R[i].of = k

(* Dropping the first c bytes.                                             *)
LEMMA CutStream ==
  ASSUME NEW l, NEW s, NEW h, NEW m, NEW R, Stream(l, s, h, m, R), NEW c \in 0 .. Len(R), NEW R2,
         R2 \in Seq(Tagged(l, s)), Len(R2) = Len(R) - c, \A i \in 1 .. Len(R2) : R2[i] = R[i + c]
  PROVE  /\ Stream(l, s, h, m, R2)
         /\ \A a, b \in 1 .. Len(R2) : Chunk(l, R2, a, b) <=> Chunk(l, R, a + c, b + c)
<1>0. Len(R) \in Nat /\ Len(R2) \in Nat
  BY DEF Stream
<1>1. ASSUME NEW a \in 1 .. Len(R2), NEW b \in 1 .. Len(R2)
      PROVE  Chunk(l, R2, a, b) <=> Chunk(l, R, a + c, b + c)
  <2>1. a + c \in 1 .. Len(R) /\ b + c \in 1 .. Len(R) /\ R2[a] = R[a + c] /\ R2[b] = R[b + c]
    BY <1>0
  <2>2. ASSUME Chunk(l, R2, a, b), NEW i \in (a + c) + 1 .. (b + c) - 1
        PROVE  R[i].byte # Flag(l)
    <3>1. i - c \in a + 1 .. b - 1 /\ i - c \in 1 .. Len(R2) /\ (i - c) + c = i
      BY <1>0
    <3> QED BY <2>2, <3>1 DEF Chunk
  <2>3. ASSUME Chunk(l, R, a + c, b + c), NEW i \in a + 1 .. b - 1
        PROVE  R2[i].byte # Flag(l)
    <3>1. i + c \in (a + c) + 1 .. (b + c) - 1 /\ i \in 1 .. Len(R2)
      BY <1>0
    <3> QED BY <2>3, <3>1 DEF Chunk
  <2> QED BY <1>0, <2>1, <2>2, <2>3, SMTT(30) DEF Chunk
<1>2. Later(l, m, R2)
  BY <1>0, SMTT(30) DEF Stream, Later
<1>3. Ordered(l, R2)
  <2> SUFFICES ASSUME NEW i \in 1 .. Len(R2), NEW b \in 1 .. Len(R2), NEW j \in 1 .. Len(R2), i < b, b < j,
                      R2[i].byte # Flag(l), R2[b].byte = Flag(l), R2[j].byte # Flag(l)
               PROVE  R2[i].of < R2[j].of
    BY DEF Ordered
  <2>1. i + c \in 1 .. Len(R) /\ b + c \in 1 .. Len(R) /\ j + c \in 1 .. Len(R) /\ i + c < b + c /\ b + c < j + c
    BY <1>0
  <2> QED BY <2>1 DEF Stream, Ordered
<1>4. Clean(l, s, h, R2)
  <2> SUFFICES ASSUME NEW a \in 1 .. Len(R2), NEW b \in 1 .. Len(R2), NEW i \in 1 .. Len(R2),
                      Chunk(l, R2, a, b), a < i, i < b, R2[i].of \notin h
               PROVE  /\ Spells(R2, a, b, FrameOf(l, s[R2[i].of]))
                      /\ \A j \in a + 1 .. b : R2[j].of = R2[i].of
                      /\ ~l.shared => R2[a].of = R2[i].of
    BY DEF Clean
  <2>1. a + c \in 1 .. Len(R) /\ b + c \in 1 .. Len(R) /\ i + c \in 1 .. Len(R) /\ a + c < i + c /\ i + c < b + c
        /\ R2[i] = R[i + c] /\ R2[a] = R[a + c]
    BY <1>0
  <2>2. Chunk(l, R, a + c, b + c)
    BY <1>1
  <2> DEFINE f == FrameOf(l, s[R2[i].of])
  <2>3. /\ Spells(R, a + c, b + c, f)
        /\ \A j \in (a + c) + 1 .. b + c : R[j].of = R[i + c].of
        /\ ~l.shared => R[a + c].of = R[i + c].of
    BY <2>1, <2>2 DEF Stream, Clean
  <2> HIDE DEF f
  <2>4. ASSUME NEW j \in a .. b PROVE R2[j].byte = f[j - a + 1]
    <3>1. j \in 1 .. Len(R2) /\ j + c \in a + c .. b + c /\ (j + c) - (a + c) + 1 = j - a + 1
      BY <1>0
    <3> QED BY <2>3, <3>1 DEF Spells
  <2>5. ASSUME NEW j \in a + 1 .. b PROVE R2[j].of = R2[i].of
    <3>1. j \in 1 .. Len(R2) /\ j + c \in (a + c) + 1 .. b + c
      BY <1>0
    <3> QED BY <2>1, <2>3, <3>1
  <2>6. Len(f) = b - a + 1
    BY <1>0, <2>3 DEF Spells
  <2> QED BY <2>1, <2>3, <2>4, <2>5, <2>6 DEF Spells, f
<1>5. Closed(l, h, R2)
  <2> SUFFICES ASSUME NEW i \in 1 .. Len(R2), \A j \in i .. Len(R2) : R2[j].byte # Flag(l)
               PROVE  R2[i].of \in h
    BY DEF Closed
  <2>1. ASSUME NEW j \in i + c .. Len(R) PROVE R[j].byte # Flag(l)
    <3>1. j - c \in i .. Len(R2) /\ j - c \in 1 .. Len(R2) /\ (j - c) + c = j
      BY <1>0
    <3> QED BY <3>1
  <2>2. i + c \in 1 .. Len(R)
    BY <1>0
  <2> QED BY <2>1, <2>2 DEF Stream, Closed
<1>6. Ended(l, h, R2)
  <2> SUFFICES ASSUME NEW i \in 1 .. Len(R2), NEW b \in 1 .. Len(R2), i < b, R2[b].byte = Flag(l),
                      \A j \in i .. b - 1 : R2[j].byte # Flag(l), R2[i].of \notin h
               PROVE  R2[b].of = R2[i].of
    BY DEF Ended
  <2>1. i + c \in 1 .. Len(R) /\ b + c \in 1 .. Len(R) /\ i + c < b + c
    BY <1>0
  <2>2. ASSUME NEW j \in i + c .. (b + c) - 1 PROVE R[j].byte # Flag(l)
    <3>1. j - c \in i .. b - 1 /\ j - c \in 1 .. Len(R2) /\ (j - c) + c = j
      BY <1>0
    <3> QED BY <3>1
  <2>3. R[b + c].of = R[i + c].of
    <3>1. Ended(l, h, R)
      BY DEF Stream
    <3>2. R[b + c].byte = Flag(l) /\ R[i + c].of \notin h
      OBVIOUS
    <3> QED BY <2>1, <2>2, <3>1, <3>2 DEF Ended
  <2> QED BY <2>3
<1> QED BY <1>1, <1>2, <1>3, <1>4, <1>5, <1>6 DEF Stream

LEMMA CutPending ==
  ASSUME NEW l, NEW s, NEW h, NEW m, NEW R, Stream(l, s, h, m, R), NEW c \in 0 .. Len(R), NEW R2,
         R2 \in Seq(Tagged(l, s)), Len(R2) = Len(R) - c, \A i \in 1 .. Len(R2) : R2[i] = R[i + c],
         NEW done, NEW done2, Pending(l, s, h, done, R), done \subseteq done2,
         \A a, b, i \in 1 .. Len(R) :
           (Chunk(l, R, a, b) /\ a <= c /\ a < i /\ i < b /\ R[i].of \in Due(l, s, h)) => R[i].of \in done2
  PROVE  Pending(l, s, h, done2, R2)
<1>0. Len(R) \in Nat /\ Len(R2) \in Nat
  BY DEF Stream
<1> SUFFICES ASSUME NEW k \in Due(l, s, h) \ done2
             PROVE  \E a, b, i \in 1 .. Len(R2) : Chunk(l, R2, a, b) /\ a < i /\ i < b /\ R2[i].of = k
  BY DEF Pending
<1>1. PICK a \in 1 .. Len(R), b \in 1 .. Len(R), i \in 1 .. Len(R) :
        Chunk(l, R, a, b) /\ a < i /\ i < b /\ R[i].of = k
  BY DEF Pending
<1>2. ~(a <= c)
  BY <1>1
<1>3. a - c \in 1 .. Len(R2) /\ b - c \in 1 .. Len(R2) /\ i - c \in 1 .. Len(R2)
      /\ (a - c) + c = a /\ (b - c) + c = b /\ (i - c) + c = i /\ a - c < i - c /\ i - c < b - c
  BY <1>0, <1>1, <1>2
<1>4. \A x, y \in 1 .. Len(R2) : Chunk(l, R2, x, y) <=> Chunk(l, R, x + c, y + c)
  BY CutStream
<1>5. Chunk(l, R2, a - c, b - c)
  BY <1>1, <1>3, <1>4
<1> QED BY <1>1, <1>3, <1>5

(* What is left after the closing flag of a chunk belongs to later packets.*)
LEMMA LaterAfter ==
  ASSUME NEW l, NEW s, NEW h, NEW m, NEW R, Stream(l, s, h, m, R), NEW a, NEW b,
         Chunk(l, R, a, b), a + 1 < b, NEW R2,
         R2 \in Seq(Tagged(l, s)), Len(R2) = Len(R) - (b - 1), \A i \in 1 .. Len(R2) : R2[i] = R[i + (b - 1)]
  PROVE  Later(l, R[a + 1].of, R2)
<1>0. Len(R) \in Nat /\ Len(R2) \in Nat /\ a \in 1 .. Len(R) /\ b \in 1 .. Len(R) /\ R[b].byte = Flag(l)
  BY DEF Stream, Chunk
<1> SUFFICES ASSUME NEW i \in 1 .. Len(R2), R2[i].byte # Flag(l)
             PROVE  R[a + 1].of < R2[i].of
  BY DEF Later
<1>1. a + 1 \in 1 .. Len(R) /\ i + (b - 1) \in 1 .. Len(R) /\ R2[i] = R[i + (b - 1)] /\ a + 1 < b
  BY <1>0
<1>2. R[a + 1].byte # Flag(l)
  BY <1>0 DEF Chunk
<1>3. b < i + (b - 1)
  <2>1. i + (b - 1) # b
    BY <1>0, <1>1
  <2> QED BY <1>0, <2>1
<1> QED BY <1>0, <1>1, <1>2, <1>3 DEF Stream, Ordered

LEMMA FrameFacts ==
  ASSUME NEW l \in Lines, NEW p \in l.packets
  PROVE  /\ p \in Seq(Bytes(l.reader)) /\ Len(p) \in Nat \ {0}
         /\ FrameOf(l, p) \in Seq(Bytes(l.reader)) /\ Len(FrameOf(l, p)) \in Nat /\ Len(FrameOf(l, p)) >= 3
         /\ FrameOf(l, p)[1] = Flag(l) /\ FrameOf(l, p)[Len(FrameOf(l, p))] = Flag(l)
         /\ \A i \in 2 .. Len(FrameOf(l, p)) - 1 : FrameOf(l, p)[i] # Flag(l)
<1>1. p \in Seq(Bytes(l.reader)) /\ p # <<>>
  BY FramingAssumption
<1>2. Len(p) \in Nat \ {0}
  BY <1>1
<1>3. CASE l.reader = "tcp"
  <2>1. p \in Seq(HdlcByte)
    BY <1>1, <1>3 DEF Bytes
  <2> DEFINE f == hdlc_frame(p)
  <2>2. f \in Seq(HdlcByte) /\ Len(f) >= 2 + Len(p) /\ f[1] = "FLAG" /\ f[Len(f)] = "FLAG"
        /\ \A i \in 2 .. Len(f) - 1 : f[i] # "FLAG"
    BY <2>1, HdlcFrameFacts
  <2>3. FrameOf(l, p) = f /\ Flag(l) = "FLAG" /\ Bytes(l.reader) = HdlcByte
    BY <1>3 DEF FrameOf, Flag, Bytes
  <2> HIDE DEF f
  <2>4. Len(f) \in Nat /\ Len(f) >= 3
    BY <1>2, <2>2
  <2> QED BY <1>1, <1>2, <2>2, <2>3, <2>4
<1>4. CASE l.reader # "tcp"
  <2>1. p \in Seq(KissByte)
    BY <1>1, <1>4 DEF Bytes
  <2> DEFINE f == kiss_frame(p)
  <2>2. f \in Seq(KissByte) /\ Len(f) >= 3 + Len(p) /\ f[1] = "FEND" /\ f[Len(f)] = "FEND"
        /\ \A i \in 2 .. Len(f) - 1 : f[i] # "FEND"
    BY <2>1, KissFrameFacts
  <2>3. FrameOf(l, p) = f /\ Flag(l) = "FEND" /\ Bytes(l.reader) = KissByte
    BY <1>4 DEF FrameOf, Flag, Bytes
  <2> HIDE DEF f
  <2>4. Len(f) \in Nat /\ Len(f) >= 3
    BY <1>2, <2>2
  <2> QED BY <1>1, <1>2, <2>2, <2>3, <2>4
<1> QED BY <1>3, <1>4

(* Writing the frame of p, without its opening flag if x is 1.             *)
LEMMA SendStream ==
  ASSUME NEW l \in Lines, NEW p \in l.packets, NEW s \in Seq(l.packets), NEW h, NEW m \in 0 .. Len(s),
         NEW R, Stream(l, s, h, m, R), NEW x \in {0, 1}, x = 1 => l.shared /\ h = {}, NEW R2,
         R2 \in Seq(Tagged(l, Append(s, p))), Len(R2) = Len(R) + (Len(FrameOf(l, p)) - x),
         \A i \in 1 .. Len(R) : R2[i] = R[i],
         \A i \in Len(R) + 1 .. Len(R2) :
           R2[i].byte = FrameOf(l, p)[i - Len(R) + x] /\ R2[i].of = Len(s) + 1
  PROVE  /\ Stream(l, Append(s, p), h, m, R2)
         /\ \A done : Pending(l, s, h, done, R) /\ (x = 1 /\ RoomyOn(l) => R # <<>>) =>
                        Pending(l, Append(s, p), h, done, R2)
<1> DEFINE f == FrameOf(l, p)
           s2 == Append(s, p)
           n == Len(R)
           n2 == Len(R2)
           k0 == Len(f)
<1>0. R \in Seq(Tagged(l, s))
  BY DEF Stream
<1>n. n \in Nat /\ n2 \in Nat /\ k0 \in Nat /\ k0 >= 3 /\ n2 = n + (k0 - x)
      /\ (x = 0 \/ x = 1) /\ x \in Nat
  BY <1>0, FrameFacts
<1>1. f[1] = Flag(l) /\ f[k0] = Flag(l) /\ \A i \in 2 .. k0 - 1 : f[i] # Flag(l)
  BY FrameFacts
<1>2. \A i \in n + 1 .. n2 : R2[i].byte = f[i - n + x] /\ R2[i].of = Len(s) + 1
  OBVIOUS
<1>3. \A i \in 1 .. n : R2[i] = R[i] /\ R[i].of \in 1 .. Len(s)
  <2> SUFFICES ASSUME NEW i \in 1 .. n PROVE R2[i] = R[i] /\ R[i].of \in 1 .. Len(s)
    OBVIOUS
  <2>1. R[i] \in Tagged(l, s)
    BY <1>0
  <2>2. R[i].of \in 1 .. Len(s)
    BY <2>1 DEF Tagged
  <2> QED BY <2>2
<1>4. Len(s) \in Nat /\ Len(s2) = Len(s) + 1 /\ s2[Len(s) + 1] = p /\ \A k \in 1 .. Len(s) : s2[k] = s[k]
  OBVIOUS
<1> HIDE DEF f, s2, n, n2, k0
<1>5. R2[n2].byte = Flag(l) /\ n2 \in n + 1 .. n2
  <2>1. n2 - n + x = k0 /\ n2 \in n + 1 .. n2
    BY <1>n
  <2> QED BY <1>n, <1>1, <1>2, <2>1
<1>6. ASSUME NEW i \in n + 1 .. n2, R2[i].byte = Flag(l) PROVE i = n2 \/ (x = 0 /\ i = n + 1)
  <2>1. ~(i - n + x \in 2 .. k0 - 1)
    BY <1>n, <1>1, <1>2, <1>6, SMTT(30)
  <2>2. CASE x = 0
    BY <2>1, <2>2, <1>n
  <2>3. CASE x = 1
    BY <2>1, <2>3, <1>n
  <2> QED BY <2>2, <2>3, <1>n
<1>7. x = 0 => R2[n + 1].byte = Flag(l) /\ n + 1 \in n + 1 .. n2 /\ n + 1 < n2
  <2>1. x = 0 => (n + 1) - n + x = 1 /\ n + 1 \in n + 1 .. n2 /\ n + 1 < n2
    BY <1>n, <1>1
  <2> QED BY <1>n, <1>1, <1>2, <2>1
<1>8. ASSUME NEW a \in 1 .. n, NEW b \in 1 .. n PROVE Chunk(l, R2, a, b) <=> Chunk(l, R, a, b)
  <2>1. a \in 1 .. n2 /\ b \in 1 .. n2 /\ \A i \in a + 1 .. b - 1 : i \in 1 .. n
    BY <1>n, <1>1
  <2> QED BY <1>3, <2>1 DEF Chunk, n, n2
<1>9. x = 1 /\ n # 0 => R[n].byte = Flag(l)
  <2> SUFFICES ASSUME x = 1, n # 0, R[n].byte # Flag(l) PROVE FALSE
    OBVIOUS
  <2>1. n \in 1 .. n /\ \A j \in n .. n : R[j].byte # Flag(l)
    BY <1>n, <1>1
  <2>2. R[n].of \in h
    BY <2>1 DEF Stream, Closed, n
  <2> QED BY <2>2
<1> DEFINE a0 == IF x = 0 THEN n + 1 ELSE n
<1>10. x = 0 \/ n # 0 =>
         /\ Chunk(l, R2, a0, n2)
         /\ Spells(R2, a0, n2, f)
         /\ a0 + 1 \in a0 + 1 .. n2 - 1
         /\ a0 + 1 \in n + 1 .. n2
  <2> SUFFICES ASSUME x = 0 \/ n # 0
               PROVE  /\ Chunk(l, R2, a0, n2)
                      /\ Spells(R2, a0, n2, f)
                      /\ a0 + 1 \in a0 + 1 .. n2 - 1
                      /\ a0 + 1 \in n + 1 .. n2
    OBVIOUS
  <2>1. /\ a0 \in 1 .. n2 /\ a0 < n2 /\ n2 \in 1 .. n2 /\ a0 + 1 \in a0 + 1 .. n2 - 1
        /\ a0 + 1 \in n + 1 .. n2 /\ k0 = n2 - a0 + 1
    <3>1. CASE x = 0
      BY <3>1, <1>n
    <3>2. CASE x = 1
      BY <3>2, <1>n
    <3> QED BY <3>1, <3>2, <1>n
  <2>2. R2[a0].byte = Flag(l)
    <3>1. CASE x = 0
      BY <3>1, <1>7
    <3>2. CASE x = 1
      <4>1. n \in 1 .. n /\ n # 0
        BY <3>2, <1>n, <1>1
      <4> QED BY <3>2, <4>1, <1>3, <1>9
    <3> QED BY <3>1, <3>2
  <2>3. ASSUME NEW i \in a0 + 1 .. n2 PROVE i \in n + 1 .. n2 /\ i - n + x = i - a0 + 1
    BY <1>n, <1>1, <2>1
  <2>4. ASSUME NEW i \in a0 + 1 .. n2 - 1 PROVE R2[i].byte # Flag(l)
    <3>1. i \in a0 + 1 .. n2 /\ i - a0 + 1 \in 2 .. k0 - 1
      BY <1>n, <1>1, <2>1
    <3>2. i \in n + 1 .. n2 /\ i - n + x = i - a0 + 1
      BY <2>3, <3>1
    <3>3. R2[i].byte = f[i - a0 + 1]
      BY <1>2, <3>2
    <3> QED BY <1>1, <3>1, <3>3
  <2>5. ASSUME NEW i \in a0 .. n2 PROVE R2[i].byte = f[i - a0 + 1]
    <3>1. CASE i = a0
      <4>1. i - a0 + 1 = 1
        BY <3>1, <2>1
      <4> QED BY <3>1, <4>1, <2>2, <1>n, <1>1
    <3>2. CASE i # a0
      <4>1. i \in a0 + 1 .. n2
        BY <3>2, <2>1, SMTT(30)
      <4> QED BY <4>1, <2>3, <1>2
    <3> QED BY <3>1, <3>2
  <2> HIDE DEF a0
  <2> QED BY <2>1, <2>2, <2>4, <2>5, <1>5 DEF Chunk, Spells, n2, k0
<1>11. Later(l, m, R2)
  <2> SUFFICES ASSUME NEW i \in 1 .. n2, R2[i].byte # Flag(l) PROVE m < R2[i].of
    BY DEF Later, n2
  <2>1. CASE i \in 1 .. n
    BY <2>1, <1>3 DEF Stream, Later, n
  <2>2. CASE i \notin 1 .. n
    <3>1. i \in n + 1 .. n2
      BY <1>n, <1>1, <2>2
    <3> QED BY <1>2, <1>4, <3>1
  <2> QED BY <2>1, <2>2
<1>12. Ordered(l, R2)
  <2> SUFFICES ASSUME NEW i \in 1 .. n2, NEW b \in 1 .. n2, NEW j \in 1 .. n2, i < b, b < j,
                      R2[i].byte # Flag(l), R2[b].byte = Flag(l), R2[j].byte # Flag(l)
               PROVE  R2[i].of < R2[j].of
    BY DEF Ordered, n2
  <2>1. CASE j \in 1 .. n
    <3>1. i \in 1 .. n /\ b \in 1 .. n
      BY <1>n, <1>1, <2>1
    <3> QED BY <2>1, <3>1, <1>3 DEF Stream, Ordered, n
  <2>2. CASE j \notin 1 .. n
    <3>1. j \in n + 1 .. n2 /\ R2[j].of = Len(s) + 1
      BY <1>n, <1>1, <1>2, <2>2
    <3>2. CASE i \in 1 .. n
      BY <3>1, <3>2, <1>3, <1>4, SMTT(30)
    <3>3. CASE i \notin 1 .. n
      <4>1. b \in n + 1 .. n2 /\ b # n2 /\ b # n + 1
        BY <1>n, <1>1, <3>3
      <4> QED BY <4>1, <1>6
    <3> QED BY <3>2, <3>3
  <2> QED BY <2>1, <2>2
<1>13. Closed(l, h, R2)
  <2> SUFFICES ASSUME NEW i \in 1 .. n2, \A j \in i .. n2 : R2[j].byte # Flag(l) PROVE FALSE
    BY DEF Closed, n2
  <2>1. n2 \in i .. n2
    BY <1>n, <1>1
  <2> QED BY <1>5, <2>1
<1>14. Clean(l, s2, h, R2)
  <2> SUFFICES ASSUME NEW a \in 1 .. n2, NEW b \in 1 .. n2, NEW i \in 1 .. n2,
                      Chunk(l, R2, a, b), a < i, i < b, R2[i].of \notin h
               PROVE  /\ Spells(R2, a, b, FrameOf(l, s2[R2[i].of]))
                      /\ \A j \in a + 1 .. b : R2[j].of = R2[i].of
                      /\ ~l.shared => R2[a].of = R2[i].of
    BY ZenonT(30) DEF Clean, n2
  <2>0. R2[b].byte = Flag(l) /\ R2[a].byte = Flag(l) /\ \A j \in a + 1 .. b - 1 : R2[j].byte # Flag(l)
    BY DEF Chunk
  <2>1. CASE b \in 1 .. n
    <3>0. n \in Nat
      BY <1>n
    <3>1. a \in 1 .. n /\ i \in 1 .. n /\ \A j \in a .. b : j \in 1 .. n
      BY <2>1, <3>0
    <3>2. Chunk(l, R, a, b) /\ R2[i] = R[i] /\ R2[a] = R[a] /\ s2[R[i].of] = s[R[i].of]
      BY <2>1, <3>1, <1>3, <1>4, <1>8
    <3>3. /\ Spells(R, a, b, FrameOf(l, s[R[i].of]))
          /\ \A j \in a + 1 .. b : R[j].of = R[i].of
          /\ ~l.shared => R[a].of = R[i].of
      BY <2>1, <3>1, <3>2 DEF Stream, Clean, n
    <3>4. \A j \in a + 1 .. b : j \in 1 .. n
      BY <1>n, <1>1, <2>1, <3>1
    <3>5. \A j \in a .. b : R2[j] = R[j]
      BY <3>1, <1>3
    <3>6. Spells(R2, a, b, FrameOf(l, s[R[i].of]))
      BY <3>3, <3>5 DEF Spells
    <3>7. \A j \in a + 1 .. b : R2[j].of = R[i].of
      BY <3>3, <3>4, <1>3
    <3> QED BY <3>2, <3>3, <3>6, <3>7
  <2>2. CASE b \notin 1 .. n
    <3>1. b \in n + 1 .. n2
      BY <1>n, <1>1, <2>2
    <3>2. ASSUME b = n + 1, x = 0 PROVE FALSE
      <4>1. i \in 1 .. n /\ \A j \in i .. n : j \in a + 1 .. b - 1 /\ j \in 1 .. n
        BY <1>n, <1>1, <3>2
      <4>2. \A j \in i .. n : R[j].byte # Flag(l)
        BY <4>1, <2>0, <1>3
      <4>3. R[i].of \in h
        BY <4>1, <4>2 DEF Stream, Closed, n
      <4> QED BY <4>1, <4>3, <1>3
    <3>3. b = n2
      BY <1>6, <3>1, <3>2, <2>0
    <3>4. a = a0 /\ (x = 0 \/ n # 0)
      <4>1. CASE x = 0
        <5>1. ~(n + 1 \in a + 1 .. b - 1)
          BY <4>1, <1>7, <2>0
        <5>2. a \in n + 1 .. n2
          BY <5>1, <4>1, <1>n, <1>1, <3>3
        <5>3. a = n + 1
          BY <5>2, <1>6, <2>0, <1>n, <1>1, <3>3
        <5> QED BY <4>1, <5>3
      <4>2. CASE x = 1
        <5>1. ~(a \in n + 1 .. n2)
          BY <4>2, <1>6, <2>0, <1>n, <1>1, <3>3
        <5>2. a \in 1 .. n /\ n \in 1 .. n /\ n # 0
          BY <5>1, <1>n, <1>1
        <5>3. R2[n].byte = Flag(l)
          BY <4>2, <5>2, <1>9, <1>3
        <5>4. ~(n \in a + 1 .. b - 1)
          BY <5>3, <2>0
        <5> QED BY <5>2, <5>4, <3>1, <4>2, <1>n, <1>1, SMTT(30)
      <4> QED BY <4>1, <4>2
    <3>5. \A j \in a + 1 .. b : j \in n + 1 .. n2
      BY <1>n, <1>1, <3>3, <3>4
    <3>6. i \in a + 1 .. b
      BY <1>n, <1>1
    <3>7. R2[i].of = Len(s) + 1 /\ \A j \in a + 1 .. b : R2[j].of = Len(s) + 1
      BY <1>2, <3>5, <3>6
    <3>8. s2[R2[i].of] = p /\ Spells(R2, a, b, f)
      BY <1>4, <1>10, <3>3, <3>4, <3>7
    <3>9. ~l.shared => R2[a].of = Len(s) + 1
      <4> SUFFICES ASSUME ~l.shared PROVE R2[a].of = Len(s) + 1
        OBVIOUS
      <4>1. a = n + 1 /\ n + 1 \in n + 1 .. n2
        BY <3>4, <1>7
      <4> QED BY <4>1, <1>2
    <3> QED BY <3>7, <3>8, <3>9 DEF f
  <2> QED BY <2>1, <2>2
<1>e. Ended(l, h, R2)
  <2> SUFFICES ASSUME NEW i \in 1 .. n2, NEW b \in 1 .. n2, i < b, R2[b].byte = Flag(l),
                      \A j \in i .. b - 1 : R2[j].byte # Flag(l), R2[i].of \notin h
               PROVE  R2[b].of = R2[i].of
    BY DEF Ended, n2
  <2>1. CASE b \in 1 .. n
    <3>1. i \in 1 .. n /\ \A j \in i .. b - 1 : j \in 1 .. n
      BY <1>n, <2>1
    <3>2. R[b].byte = Flag(l) /\ R[i].of \notin h /\ \A j \in i .. b - 1 : R[j].byte # Flag(l)
      BY <2>1, <3>1, <1>3
    <3>3. R[b].of = R[i].of
      BY <2>1, <3>1, <3>2 DEF Stream, Ended, n
    <3> QED BY <2>1, <3>1, <3>3, <1>3
  <2>2. CASE b \notin 1 .. n
    <3>1. b \in n + 1 .. n2
      BY <1>n, <2>2
    <3>2. ASSUME i \in 1 .. n PROVE FALSE
      <4>1. n \in i .. b - 1 /\ n \in 1 .. n /\ n # 0
        BY <1>n, <3>1, <3>2
      <4>2. x = 0
        BY <4>1, <1>n, <1>3, <1>9
      <4>3. b = n + 1
        <5>1. ~(n + 1 \in i .. b - 1)
          BY <4>2, <1>7
        <5> QED BY <5>1, <1>n, <3>1, <3>2
      <4>4. \A j \in i .. n : j \in i .. b - 1 /\ j \in 1 .. n
        BY <4>3, <3>2, <1>n
      <4>5. \A j \in i .. n : R[j].byte # Flag(l)
        BY <4>4, <1>3
      <4>6. R[i].of \in h
        BY <3>2, <4>5 DEF Stream, Closed, n
      <4> QED BY <3>2, <4>6, <1>3
    <3>3. i \in n + 1 .. n2
      BY <3>2, <1>n
    <3> QED BY <3>1, <3>3, <1>2
  <2> QED BY <2>1, <2>2
<1>15. Stream(l, s2, h, m, R2)
  BY <1>e, <1>11, <1>12, <1>13, <1>14 DEF Stream, s2
<1>16. ASSUME NEW done, Pending(l, s, h, done, R), x = 1 /\ RoomyOn(l) => R # <<>>
       PROVE  Pending(l, s2, h, done, R2)
  <2> SUFFICES ASSUME NEW k \in Due(l, s2, h) \ done
               PROVE  \E a, b, i \in 1 .. n2 : Chunk(l, R2, a, b) /\ a < i /\ i < b /\ R2[i].of = k
    BY DEF Pending, n2
  <2>1. k \in 1 .. Len(s) + 1
    BY <1>4 DEF Due
  <2>2. CASE k \in 1 .. Len(s)
    <3>1. k \in Due(l, s, h) \ done
      BY <2>2, <1>4 DEF Due
    <3>2. PICK a \in 1 .. n, b \in 1 .. n, i \in 1 .. n :
            Chunk(l, R, a, b) /\ a < i /\ i < b /\ R[i].of = k
      BY <3>1, <1>16 DEF Pending, n
    <3>3. a \in 1 .. n2 /\ b \in 1 .. n2 /\ i \in 1 .. n2
      BY <1>n, <1>1
    <3> QED BY <3>2, <3>3, <1>3, <1>8
  <2>3. CASE k = Len(s) + 1
    <3>1. x = 0 \/ n # 0
      <4> SUFFICES ASSUME x = 1 PROVE n # 0
        OBVIOUS
      <4>1. RoomyOn(l)
        BY FramingAssumption DEF Due
      <4>2. R # <<>>
        BY <4>1, <1>16
      <4> QED BY <4>2, <1>0 DEF n
    <3>2. Chunk(l, R2, a0, n2) /\ a0 + 1 \in a0 + 1 .. n2 - 1 /\ a0 + 1 \in n + 1 .. n2
      BY <3>1, <1>10
    <3>3. R2[a0 + 1].of = k
      BY <3>2, <1>2, <2>3
    <3>4. a0 \in 1 .. n2 /\ n2 \in 1 .. n2 /\ a0 + 1 \in 1 .. n2 /\ a0 < a0 + 1 /\ a0 + 1 < n2
      BY <3>2, <1>n, <1>1, SMTT(30) DEF Chunk, n2
    <3> HIDE DEF a0
    <3> QED BY <3>2, <3>3, <3>4
  <2> QED BY <2>1, <2>2, <2>3, <1>4
<1> QED BY <1>15, <1>16 DEF s2

(* Losing the byte at x.                                                   *)
LEMMA LoseStream ==
  ASSUME NEW l, ~l.shared, NEW s, NEW h, NEW m, NEW R, Stream(l, s, h, m, R), NEW x \in 1 .. Len(R), NEW R2,
         R2 \in Seq(Tagged(l, s)), Len(R2) = Len(R) - 1,
         \A i \in 1 .. Len(R2) : R2[i] = R[IF i < x THEN i ELSE i + 1]
  PROVE  /\ Stream(l, s, h \cup {R[x].of}, m, R2)
         /\ \A done : Pending(l, s, h, done, R) => Pending(l, s, h \cup {R[x].of}, done, R2)
<1> DEFINE n == Len(R)
           n2 == Len(R2)
           t == R[x].of
           h2 == h \cup {t}
           up(i) == IF i < x THEN i ELSE i + 1
<1>n. n \in Nat /\ n2 \in Nat /\ n2 = n - 1 /\ x \in 1 .. n
  BY DEF Stream
<1>c. ASSUME NEW a \in 1 .. n, NEW b \in 1 .. n, NEW i \in 1 .. n,
             Chunk(l, R, a, b), a < i, i < b, R[i].of \notin h
      PROVE  /\ Spells(R, a, b, FrameOf(l, s[R[i].of]))
             /\ \A j \in a + 1 .. b : R[j].of = R[i].of
             /\ R[a].of = R[i].of
  BY <1>c DEF Stream, Clean
<1>d. ASSUME NEW i \in 1 .. n, NEW b \in 1 .. n, i < b, R[b].byte = Flag(l),
             \A j \in i .. b - 1 : R[j].byte # Flag(l), R[i].of \notin h
      PROVE  R[b].of = R[i].of
  <2>1. Ended(l, h, R)
    BY DEF Stream
  <2> QED BY <1>d, <2>1 DEF Ended
<1> HIDE DEF n, n2
<1>1. ASSUME NEW i \in 1 .. n2
      PROVE  up(i) \in 1 .. n /\ up(i) # x /\ R2[i] = R[up(i)] /\ (i < x => up(i) = i) /\ (~(i < x) => up(i) = i + 1)
  <2>1. R2[i] = R[up(i)]
    BY DEF n2
  <2> QED BY <2>1, <1>n
<1>2. ASSUME NEW i \in 1 .. n2, NEW j \in 1 .. n2 PROVE i < j <=> up(i) < up(j)
  BY <1>n
<1>3. ASSUME NEW j \in 1 .. n, j # x PROVE \E i \in 1 .. n2 : up(i) = j
  <2>1. CASE j < x
    <3>1. j \in 1 .. n2 /\ up(j) = j
      BY <2>1, <1>n
    <3> QED BY <3>1
  <2>2. CASE ~(j < x)
    <3>1. j - 1 \in 1 .. n2 /\ up(j - 1) = j
      BY <2>2, <1>3, <1>n
    <3> QED BY <3>1
  <2> QED BY <2>1, <2>2
<1> HIDE DEF up
<1>4. Later(l, m, R2)
  <2> SUFFICES ASSUME NEW i \in 1 .. n2, R2[i].byte # Flag(l) PROVE m < R2[i].of
    BY DEF Later, n2
  <2> QED BY <1>1 DEF Stream, Later, n
<1>5. Ordered(l, R2)
  <2> SUFFICES ASSUME NEW i \in 1 .. n2, NEW b \in 1 .. n2, NEW j \in 1 .. n2, i < b, b < j,
                      R2[i].byte # Flag(l), R2[b].byte = Flag(l), R2[j].byte # Flag(l)
               PROVE  R2[i].of < R2[j].of
    BY DEF Ordered, n2
  <2>1. up(i) < up(b) /\ up(b) < up(j)
    BY <1>2
  <2> QED BY <2>1, <1>1 DEF Stream, Ordered, n
(* Bytes without a flag among them, except perhaps the one lost.           *)
<1>6. ASSUME NEW i \in 1 .. n2, NEW b \in 1 .. n2, \A j \in i .. b - 1 : R2[j].byte # Flag(l)
      PROVE  \A j \in up(i) .. up(b) - 1 : j # x => R[j].byte # Flag(l)
  <2> SUFFICES ASSUME NEW j \in up(i) .. up(b) - 1, j # x PROVE R[j].byte # Flag(l)
    OBVIOUS
  <2>0. up(i) \in 1 .. n /\ up(b) \in 1 .. n
    BY <1>1
  <2>1. j \in 1 .. n /\ up(i) <= j /\ j < up(b)
    BY <2>0, <1>n
  <2>2. PICK k \in 1 .. n2 : up(k) = j
    BY <1>3, <2>1
  <2>3. ~(k < i) /\ k < b
    BY <2>0, <2>1, <2>2, <1>2
  <2>4. k \in i .. b - 1
    BY <2>3, <1>n
  <2> QED BY <2>2, <2>4, <1>1, <1>6
<1>7. Ended(l, h2, R2)
  <2> SUFFICES ASSUME NEW i \in 1 .. n2, NEW b \in 1 .. n2, i < b, R2[b].byte = Flag(l),
                      \A j \in i .. b - 1 : R2[j].byte # Flag(l), R2[i].of \notin h2
               PROVE  R2[b].of = R2[i].of
    BY DEF Ended, n2
  <2>1. /\ up(i) \in 1 .. n /\ up(b) \in 1 .. n /\ up(i) < up(b) /\ up(i) # x
        /\ R2[i] = R[up(i)] /\ R2[b] = R[up(b)]
    BY <1>1, <1>2
  <2>2. \A j \in up(i) .. up(b) - 1 : j # x => R[j].byte # Flag(l)
    BY <1>6
  <2>3. CASE x \in up(i) .. up(b) - 1 /\ R[x].byte = Flag(l)
    <3>1. up(i) < x /\ \A j \in up(i) .. x - 1 : j \in up(i) .. up(b) - 1 /\ j # x
      BY <2>1, <2>3, <1>n
    <3>2. \A j \in up(i) .. x - 1 : R[j].byte # Flag(l)
      BY <2>2, <3>1
    <3>3. R[x].of = R[up(i)].of
      BY <2>1, <2>3, <3>1, <3>2, <1>n, <1>d
    <3> QED BY <2>1, <3>3
  <2>4. CASE ~(x \in up(i) .. up(b) - 1 /\ R[x].byte = Flag(l))
    <3>1. \A j \in up(i) .. up(b) - 1 : R[j].byte # Flag(l)
      BY <2>2, <2>4
    <3>2. R[up(b)].byte = Flag(l) /\ R[up(i)].of \notin h
      BY <2>1
    <3>3. R[up(b)].of = R[up(i)].of
      BY <2>1, <3>1, <3>2, <1>d
    <3> QED BY <2>1, <3>3
  <2> QED BY <2>3, <2>4
<1>8. Closed(l, h2, R2)
  <2> SUFFICES ASSUME NEW i \in 1 .. n2, \A j \in i .. n2 : R2[j].byte # Flag(l), R2[i].of \notin h2
               PROVE  FALSE
    BY DEF Closed, n2
  <2>1. up(i) \in 1 .. n /\ up(i) # x /\ R2[i] = R[up(i)]
    BY <1>1
  <2>2. ASSUME NEW j \in up(i) .. n, j # x PROVE R[j].byte # Flag(l)
    <3>1. j \in 1 .. n /\ up(i) <= j
      BY <2>1, <1>n
    <3>2. PICK k \in 1 .. n2 : up(k) = j
      BY <1>3, <2>2, <3>1
    <3>3. ~(k < i)
      BY <2>1, <3>1, <3>2, <1>2
    <3>4. k \in i .. n2
      BY <3>3, <1>n
    <3> QED BY <3>2, <3>4, <1>1
  <2>3. CASE x \in up(i) .. n /\ R[x].byte = Flag(l)
    <3>1. up(i) < x /\ \A j \in up(i) .. x - 1 : j \in up(i) .. n /\ j # x
      BY <2>1, <2>3, <1>n
    <3>2. \A j \in up(i) .. x - 1 : R[j].byte # Flag(l)
      BY <2>2, <3>1
    <3>3. R[x].of = R[up(i)].of
      BY <2>1, <2>3, <3>1, <3>2, <1>n, <1>d
    <3> QED BY <2>1, <3>3
  <2>4. CASE ~(x \in up(i) .. n /\ R[x].byte = Flag(l))
    <3>1. \A j \in up(i) .. n : R[j].byte # Flag(l)
      BY <2>2, <2>4
    <3> QED BY <2>1, <3>1 DEF Stream, Closed, n
  <2> QED BY <2>3, <2>4
<1>9. Clean(l, s, h2, R2)
  <2> SUFFICES ASSUME NEW a \in 1 .. n2, NEW b \in 1 .. n2, NEW i \in 1 .. n2,
                      Chunk(l, R2, a, b), a < i, i < b, R2[i].of \notin h2
               PROVE  /\ Spells(R2, a, b, FrameOf(l, s[R2[i].of]))
                      /\ \A j \in a + 1 .. b : R2[j].of = R2[i].of
                      /\ ~l.shared => R2[a].of = R2[i].of
    BY DEF Clean, n2
  <2> DEFINE A == up(a)
             B == up(b)
             I == up(i)
  <2>1. /\ A \in 1 .. n /\ B \in 1 .. n /\ I \in 1 .. n /\ A # x /\ B # x /\ I # x
        /\ A < I /\ I < B /\ R2[a] = R[A] /\ R2[b] = R[B] /\ R2[i] = R[I]
    BY <1>1, <1>2
  <2>2. R[A].byte = Flag(l) /\ R[B].byte = Flag(l) /\ R[I].of \notin h /\ R[I].of # R[x].of
    BY <2>1 DEF Chunk
  <2>3. ASSUME NEW j \in A + 1 .. B - 1, j # x PROVE R[j].byte # Flag(l)
    <3>1. j \in 1 .. n /\ A < j /\ j < B
      BY <2>1, <1>n, SMTT(30)
    <3>2. PICK k \in 1 .. n2 : up(k) = j
      BY <1>3, <2>3, <3>1
    <3>3. a < k /\ k < b
      BY <3>1, <3>2, <1>2
    <3>4. k \in a + 1 .. b - 1
      BY <3>3, <1>n
    <3>5. R2[k].byte # Flag(l)
      BY <3>4 DEF Chunk
    <3> QED BY <3>2, <3>5, <1>1
  <2> HIDE DEF A, B, I
  <2>4. ~(R[x].byte = Flag(l) /\ A < x /\ x < B)
    <3> SUFFICES ASSUME R[x].byte = Flag(l), A < x, x < B PROVE FALSE
      OBVIOUS
    <3>1. CASE I < x
      <4>1. Chunk(l, R, A, x)
        <5>1. \A j \in A + 1 .. x - 1 : j \in A + 1 .. B - 1 /\ j # x
          BY <2>1, <1>n, SMTT(30)
        <5> QED BY <5>1, <2>1, <2>2, <2>3, <1>n DEF Chunk, n
      <4>2. x \in A + 1 .. x
        BY <2>1, <1>n
      <4>3. R[x].of = R[I].of
        BY <2>1, <2>2, <3>1, <4>1, <4>2, <1>n, <1>c
      <4> QED BY <4>3, <2>2
    <3>2. CASE x < I
      <4>1. Chunk(l, R, x, B)
        <5>1. \A j \in x + 1 .. B - 1 : j \in A + 1 .. B - 1 /\ j # x
          BY <2>1, <1>n, SMTT(30)
        <5> QED BY <5>1, <2>1, <2>2, <2>3, <1>n DEF Chunk, n
      <4>2. R[x].of = R[I].of
        BY <2>1, <2>2, <3>2, <4>1, <1>n, <1>c
      <4> QED BY <4>2, <2>2
    <3> QED BY <3>1, <3>2, <2>1, <1>n
  <2>5. Chunk(l, R, A, B)
    <3>1. ASSUME NEW j \in A + 1 .. B - 1 PROVE R[j].byte # Flag(l)
      <4>1. A < j /\ j < B
        BY <2>1, <1>n, SMTT(30)
      <4> QED BY <4>1, <2>3, <2>4
    <3>2. A < B
      BY <2>1, <1>n
    <3> QED BY <2>1, <2>2, <3>1, <3>2 DEF Chunk, n
  <2> DEFINE f == FrameOf(l, s[R[I].of])
  <2>6. /\ Spells(R, A, B, f)
        /\ \A j \in A + 1 .. B : R[j].of = R[I].of
        /\ R[A].of = R[I].of
    BY <2>1, <2>2, <2>5, <1>c
  <2> HIDE DEF f
  <2>7. ~(A < x /\ x < B)
    <3> SUFFICES ASSUME A < x, x < B PROVE FALSE
      OBVIOUS
    <3>1. x \in A + 1 .. B
      BY <2>1, <1>n
    <3> QED BY <3>1, <2>2, <2>6
  <2>8. \A j \in a .. b : j \in 1 .. n2 /\ up(j) - A = j - a /\ up(j) \in A .. B
    <3>1. CASE x < A
      <4>1. ~(a < x)
        BY <3>1, <1>1, <2>1, <1>n DEF A
      <4>2. A = a + 1 /\ B = b + 1 /\ \A j \in a .. b : j \in 1 .. n2 /\ up(j) = j + 1
        BY <4>1, <1>n DEF A, B, up
      <4> QED BY <4>2, <1>n, SMTT(30)
    <3>2. CASE B < x
      <4>1. b < x
        BY <3>2, <1>1, <2>1, <1>n DEF B
      <4>2. A = a /\ B = b /\ \A j \in a .. b : j \in 1 .. n2 /\ up(j) = j
        BY <4>1, <2>1, <1>n DEF A, B, up, Chunk
      <4> QED BY <4>2, <1>n
    <3> QED BY <3>1, <3>2, <2>1, <2>7, <1>n, SMTT(30)
  <2>9. ASSUME NEW j \in a .. b PROVE R2[j].byte = f[j - a + 1] /\ (j # a => R2[j].of = R[I].of)
    <3>1. R2[j] = R[up(j)] /\ up(j) \in A .. B /\ up(j) - A + 1 = j - a + 1 /\ (j # a => up(j) \in A + 1 .. B)
      <4>1. j \in 1 .. n2 /\ up(j) - A = j - a /\ up(j) \in A .. B
        BY <2>8
      <4>2. R2[j] = R[up(j)]
        BY <4>1, <1>1
      <4>3. up(j) \in 1 .. n
        BY <4>1, <1>1
      <4>4. a \in Int /\ j \in Int /\ A \in Int /\ B \in Int /\ up(j) \in Int
        BY <4>1, <4>3, <2>1
      <4> HIDE DEF up
      <4>5. up(j) - A + 1 = j - a + 1 /\ (j # a => up(j) \in A + 1 .. B)
        BY <4>1, <4>4
      <4> QED BY <4>1, <4>2, <4>5
    <3> QED BY <3>1, <2>6 DEF Spells
  <2>10. Len(f) = b - a + 1
    <3>1. b \in a .. b
      BY <1>n DEF Chunk
    <3>2. B - A = b - a
      BY <2>8, <3>1 DEF B
    <3> QED BY <3>2, <2>6, <2>1, <1>n DEF Spells
  <2>11. Spells(R2, a, b, f)
    BY <2>9, <2>10 DEF Spells
  <2>12. ASSUME NEW j \in a + 1 .. b PROVE R2[j].of = R[I].of
    <3>1. j \in a .. b /\ j # a
      BY <1>n
    <3> QED BY <3>1, <2>9
  <2> QED BY <2>1, <2>6, <2>11, <2>12 DEF f
<1>10. ASSUME NEW done, Pending(l, s, h, done, R) PROVE Pending(l, s, h2, done, R2)
  <2> SUFFICES ASSUME NEW k \in Due(l, s, h2) \ done
               PROVE  \E a, b, i \in 1 .. n2 : Chunk(l, R2, a, b) /\ a < i /\ i < b /\ R2[i].of = k
    BY DEF Pending, n2
  <2>1. k \in Due(l, s, h) \ done /\ k \notin h /\ k # t
    BY DEF Due
  <2>2. PICK A \in 1 .. n, B \in 1 .. n, I \in 1 .. n :
          Chunk(l, R, A, B) /\ A < I /\ I < B /\ R[I].of = k
    BY <2>1, <1>10 DEF Pending, n
  <2>3. R[A].of = k /\ \A j \in A + 1 .. B : R[j].of = k
    BY <2>1, <2>2, <1>c
  <2>4. A # x /\ B # x /\ I # x /\ ~(A < x /\ x < B)
    <3>1. B \in A + 1 .. B /\ I \in A + 1 .. B /\ (A < x /\ x < B => x \in A + 1 .. B)
      BY <2>2, <1>n
    <3> QED BY <3>1, <2>1, <2>3
  <2>5. PICK a \in 1 .. n2 : up(a) = A
    BY <2>4, <1>3
  <2>6. PICK b \in 1 .. n2 : up(b) = B
    BY <2>4, <1>3
  <2>7. PICK i \in 1 .. n2 : up(i) = I
    BY <2>4, <1>3
  <2>8. a < i /\ i < b /\ a < b
    BY <2>2, <2>5, <2>6, <2>7, <1>2, <1>n
  <2>9. R2[a] = R[A] /\ R2[b] = R[B] /\ R2[i] = R[I]
    BY <2>5, <2>6, <2>7, <1>1
  <2>10. ASSUME NEW j \in a + 1 .. b - 1 PROVE R2[j].byte # Flag(l)
    <3>1. j \in 1 .. n2 /\ a < j /\ j < b
      BY <1>n
    <3>2. up(j) \in 1 .. n /\ A < up(j) /\ up(j) < B /\ R2[j] = R[up(j)]
      BY <3>1, <2>5, <2>6, <1>1, <1>2
    <3> DEFINE J == up(j)
    <3>3. J \in 1 .. n /\ A < J /\ J < B /\ A \in Nat /\ B \in Nat
      BY <3>2, <1>n, SMTT(30)
    <3> HIDE DEF J
    <3>4. J \in A + 1 .. B - 1
      BY <3>3, <1>n
    <3>5. R[J].byte # Flag(l)
      BY <2>2, <3>4 DEF Chunk
    <3> QED BY <3>2, <3>5 DEF J
  <2>11. Chunk(l, R2, a, b)
    BY <2>2, <2>8, <2>9, <2>10 DEF Chunk, n2
  <2> QED BY <2>2, <2>8, <2>9, <2>11
<1> QED BY <1>4, <1>5, <1>7, <1>8, <1>9, <1>10 DEF Stream

---------------------------------------------------------------------------
(* Type correctness.                                                       *)

LEMMA SetToSeqEmpty == SetToSeq({}) = <<>>
<1>1. Cardinality({}) = 0
  BY FS_EmptySet
<1> DEFINE e == <<>>
<1>2. e \in [1 .. 0 -> {}] /\ IsInjective(e)
  BY DEF IsInjective
<1>3. \E f \in [1 .. Cardinality({}) -> {}] : IsInjective(f)
  BY <1>1, <1>2
<1>4. SetToSeq({}) \in [1 .. Cardinality({}) -> {}]
  BY <1>3, Zenon DEF SetToSeq
<1> QED BY <1>1, <1>4

LEMMA SetToSeqSingle == ASSUME NEW x PROVE SetToSeq({x}) = <<x>>
<1>1. Cardinality({x}) = 1
  BY FS_Singleton
<1> DEFINE e == [i \in 1 .. 1 |-> x]
<1>2. e \in [1 .. 1 -> {x}] /\ IsInjective(e)
  BY DEF IsInjective
<1>3. \E f \in [1 .. Cardinality({x}) -> {x}] : IsInjective(f)
  BY <1>1, <1>2
<1>4. SetToSeq({x}) \in [1 .. Cardinality({x}) -> {x}]
  BY <1>3, Zenon DEF SetToSeq
<1> QED BY <1>1, <1>4

LEMMA HdlcDeframeType ==
  ASSUME NEW s \in Seq(HdlcByte), s # <<>>
  PROVE  hdlc_deframe(s) = {} \/ \E y \in Seq(HdlcByte) : hdlc_deframe(s) = {y}
<1> DEFINE b == SubSeq(s, 2, Len(s) - 1)
<1>1. b \in Seq(HdlcByte) /\ "FLAG" \in HdlcByte
  BY DEF HdlcByte
<1> HIDE DEF b
<1>2. hdlc_run(b) \in Decoder(HdlcByte)
  BY <1>1, HdlcRunAppend
<1>3. hdlc_run(b).out \in Seq(HdlcByte)
  BY <1>2 DEF Decoder
<1>4. hdlc_deframe(s) = {} \/ hdlc_deframe(s) = {hdlc_run(b).out}
  BY DEF hdlc_deframe, Decoded, b
<1> QED BY <1>3, <1>4

LEMMA KissDeframeType ==
  ASSUME NEW s \in Seq(KissByte)
  PROVE  kiss_deframe(s) = {} \/ \E y \in Seq(KissByte) : kiss_deframe(s) = {y}
<1> SUFFICES ASSUME ~(Len(s) < 3)
             PROVE  kiss_deframe(s) = {} \/ \E y \in Seq(KissByte) : kiss_deframe(s) = {y}
  BY DEF kiss_deframe
<1> DEFINE b == SubSeq(s, 3, Len(s) - 1)
<1>1. b \in Seq(KissByte) /\ "FEND" \in KissByte
  BY DEF KissByte
<1> HIDE DEF b
<1>2. kiss_run(b) \in Decoder(KissByte)
  BY <1>1, KissRunAppend
<1>3. kiss_run(b).out \in Seq(KissByte)
  BY <1>2 DEF Decoder
<1>4. kiss_deframe(s) = {} \/ kiss_deframe(s) = {kiss_run(b).out}
  BY DEF kiss_deframe, Decoded, b
<1> QED BY <1>3, <1>4

LEMMA LineFacts ==
  ASSUME NEW l \in Lines
  PROVE  /\ l.reader \in {"tcp", "serial", "uart"} /\ l.capacity \in Nat \ {0} /\ l.maxLoss \in Nat
         /\ l.reader = "tcp" => l.maxLoss = 0
         /\ l.shared \in BOOLEAN /\ (l.shared => l.reader = "tcp")
         /\ l.packets \subseteq Seq(Bytes(l.reader)) \ {<<>>}
         /\ l.reader = "tcp" => Bytes(l.reader) = HdlcByte /\ Flag(l) = "FLAG"
         /\ l.reader # "tcp" => Bytes(l.reader) = KissByte /\ Flag(l) = "FEND"
  BY FramingAssumption DEF Bytes, Flag

LEMMA FunctionSeq ==
  ASSUME NEW n \in Nat, NEW S, NEW t \in [1 .. n -> S]
  PROVE  t \in Seq(S) /\ Len(t) = n
  OBVIOUS

LEMMA SeqElements ==
  ASSUME NEW S, NEW t \in Seq(S)
  PROVE  Len(t) \in Nat /\ \A i \in 1 .. Len(t) : t[i] \in S
  OBVIOUS

(* The bytes that send_packet writes, without the first if x is 1.         *)
Written(bytes, k) == [i \in 1 .. Len(bytes) |-> [byte |-> bytes[i], of |-> k]]

Wrote(t, l, p, x, k) ==
  /\ t \in Seq([byte : Bytes(l.reader), of : {k}])
  /\ Len(t) = Len(FrameOf(l, p)) - x
  /\ \A i \in 1 .. Len(t) : t[i].byte = FrameOf(l, p)[i + x] /\ t[i].of = k

LEMMA WrittenFacts ==
  ASSUME line \in Lines, NEW p \in line.packets, NEW x \in {0, 1}, NEW k,
         NEW bytes, bytes = IF x = 1 THEN Tail(frame(p)) ELSE frame(p)
  PROVE  Wrote(Written(bytes, k), line, p, x, k)
<1> DEFINE f == FrameOf(line, p)
           t == [i \in 1 .. Len(bytes) |-> [byte |-> bytes[i], of |-> k]]
<1>1. frame(p) = f
  BY DEF frame, FrameOf
<1>2. f \in Seq(Bytes(line.reader)) /\ Len(f) \in Nat /\ Len(f) >= 3
  BY FrameFacts
<1> HIDE DEF f
<1>3. bytes \in Seq(Bytes(line.reader)) /\ Len(bytes) = Len(f) - x /\ \A i \in 1 .. Len(bytes) : bytes[i] = f[i + x]
  <2>1. CASE x = 0
    BY <2>1, <1>1, <1>2
  <2>2. CASE x = 1
    BY <2>2, <1>1, <1>2
  <2> QED BY <2>1, <2>2
<1>4. t \in Seq([byte : Bytes(line.reader), of : {k}]) /\ Len(t) = Len(bytes)
  <2>1. Len(bytes) \in Nat /\ \A i \in 1 .. Len(bytes) : bytes[i] \in Bytes(line.reader)
    BY <1>3, SeqElements, Zenon
  <2> DEFINE S == [byte : Bytes(line.reader), of : {k}]
  <2>2. \A i \in 1 .. Len(bytes) : [byte |-> bytes[i], of |-> k] \in S
    BY <2>1
  <2> HIDE DEF S
  <2>3. t \in [1 .. Len(bytes) -> S]
    BY <2>2
  <2> HIDE DEF t
  <2>4. t \in Seq(S) /\ Len(t) = Len(bytes)
    BY <2>1, <2>3, FunctionSeq
  <2> QED BY <2>4 DEF S
<1>5. \A i \in 1 .. Len(t) : t[i].byte = f[i + x] /\ t[i].of = k
  BY <1>3, <1>4
<1> QED BY <1>3, <1>4, <1>5 DEF f, Written, Wrote

LEMMA DeliveredType ==
  ASSUME NEW S, NEW d \in Seq(S), NEW Y, Y = {} \/ \E y \in S : Y = {y}
  PROVE  d \o SetToSeq(Y) \in Seq(S)
<1>1. CASE Y = {}
  <2>1. SetToSeq(Y) = <<>>
    BY <1>1, SetToSeqEmpty
  <2>2. d \o <<>> = d
    OBVIOUS
  <2> QED BY <2>1, <2>2
<1>2. ASSUME NEW y \in S, Y = {y} PROVE d \o SetToSeq(Y) \in Seq(S)
  <2>1. SetToSeq(Y) = <<y>>
    BY <1>2, SetToSeqSingle
  <2> QED BY <2>1
<1> QED BY <1>1, <1>2

LEMMA SendType ==
  ASSUME TypeOK, NEW p \in line.packets, NEW shared \in BOOLEAN, send_packet(p, shared)
  PROVE  TypeOK'
<1> DEFINE W == [byte : Bytes(line.reader), of : 1 .. MaxPackets]
           x == IF shared THEN 1 ELSE 0
           bytes == IF shared THEN Tail(frame(p)) ELSE frame(p)
           k == Len(sent')
           t == Written(bytes, k)
<1>1. line \in Lines /\ sent \in Seq(line.packets) /\ wire \in Seq(W) /\ MaxPackets \in Nat
  BY FramingAssumption DEF TypeOK
<1>2. sent' \in Seq(line.packets) /\ k \in 1 .. MaxPackets
  BY <1>1 DEF send_packet
<1>3. wire' = wire \o t
  BY DEF send_packet, Written
<1>4. bytes = IF x = 1 THEN Tail(frame(p)) ELSE frame(p)
  OBVIOUS
<1>5. x \in {0, 1}
  OBVIOUS
<1> HIDE DEF x, bytes, k
<1>6. t \in Seq([byte : Bytes(line.reader), of : {k}])
  <2>1. Wrote(t, line, p, x, k)
    BY <1>1, <1>4, <1>5, WrittenFacts, Zenon
  <2> QED BY <2>1 DEF Wrote
<1> HIDE DEF t
<1>7. t \in Seq(W)
  <2> DEFINE V == [byte : Bytes(line.reader), of : {k}]
  <2>1. V \subseteq W
    BY <1>2
  <2>2. t \in Seq(V)
    BY <1>6
  <2> HIDE DEF V, W
  <2> QED BY <2>1, <2>2
<1>8. wire' \in Seq(W)
  <2> HIDE DEF W
  <2> QED BY <1>1, <1>3, <1>7
<1> QED BY <1>1, <1>2, <1>8 DEF TypeOK, send_packet

LEMMA ReadChunkType ==
  ASSUME TypeOK, NEW n \in 1 .. READ_CHUNK, read_chunk(n)
  PROVE  TypeOK'
<1> DEFINE W == [byte : Bytes(line.reader), of : 1 .. MaxPackets]
           B == Bytes(line.reader)
           t == [i \in 1 .. n |-> wire[i].byte]
           kept == IF Flags = {} THEN buffer ELSE SubSeq(buffer, CHOOSE i \in Flags : TRUE, Len(buffer))
<1>1. line \in Lines /\ wire \in Seq(W) /\ buffer \in Seq(B) /\ n \in Nat /\ n <= Len(wire)
      /\ line.capacity \in Nat
  BY FramingAssumption, LineFacts DEF TypeOK, read_chunk
<1>2. t \in Seq(B) /\ Len(t) = n
  <2>1. \A i \in 1 .. n : wire[i] \in W
    <3> HIDE DEF W
    <3> QED BY <1>1
  <2>2. \A i \in 1 .. n : wire[i].byte \in B
    BY <2>1
  <2> HIDE DEF B
  <2>3. t \in [1 .. n -> B]
    BY <2>2
  <2> HIDE DEF t
  <2> QED BY <1>1, <2>3, FunctionSeq
<1>3. kept \in Seq(B)
  <2>1. Flags # {} => (CHOOSE i \in Flags : TRUE) \in Flags
    BY Zenon
  <2>2. Flags \subseteq 1 .. Len(buffer)
    BY DEF Flags
  <2> HIDE DEF B
  <2> DEFINE j == CHOOSE i \in Flags : TRUE
  <2>3. Flags # {} => j \in 1 .. Len(buffer)
    BY <2>1, <2>2
  <2> HIDE DEF j
  <2>4. Flags # {} => SubSeq(buffer, j, Len(buffer)) \in Seq(B)
    BY <1>1, <2>3
  <2> QED BY <1>1, <2>4 DEF j
<1>4. buffer' = IF Len(kept \o t) > line.capacity THEN <<>> ELSE kept \o t
  BY DEF read_chunk, recv_packet
<1> HIDE DEF kept, t
<1>5. buffer' \in Seq(B) /\ Len(buffer') <= line.capacity
  <2> HIDE DEF B
  <2>1. kept \o t \in Seq(B) /\ Len(kept \o t) \in Nat
    BY <1>2, <1>3
  <2> QED BY <1>1, <1>4, <2>1
<1>6. wire' \in Seq(W)
  <2> HIDE DEF W
  <2>1. wire' = SubSeq(wire, n + 1, Len(wire))
    BY DEF read_chunk
  <2> QED BY <1>1, <2>1
<1> QED BY <1>5, <1>6 DEF TypeOK, read_chunk

LEMMA TakePacketType ==
  ASSUME TypeOK, take_packet
  PROVE  TypeOK'
<1> DEFINE B == Bytes(line.reader)
<1>1. line \in Lines /\ buffer \in Seq(B) /\ Len(buffer) <= line.capacity /\ line.reader = "tcp" /\ B = HdlcByte
      /\ delivered \in Seq(Seq(B)) /\ line.capacity \in Nat
  BY LineFacts DEF TypeOK, take_packet
<1>2. PICK start \in Flags, end \in Flags :
        /\ start < end
        /\ buffer' = Rest(end)
        /\ delivered' = delivered \o SetToSeq(IF end = start + 1 THEN {} ELSE hdlc_deframe(SubSeq(buffer, start, end)))
  BY DEF take_packet
<1>3. start \in 1 .. Len(buffer) /\ end \in 1 .. Len(buffer)
  BY DEF Flags
<1> HIDE DEF B
<1>4. buffer' \in Seq(B) /\ Len(buffer') <= line.capacity
  BY <1>1, <1>2, <1>3 DEF Rest
<1>5. delivered' \in Seq(Seq(B))
  <2> DEFINE f == SubSeq(buffer, start, end)
             Y == IF end = start + 1 THEN {} ELSE hdlc_deframe(f)
  <2>1. f \in Seq(HdlcByte) /\ f # <<>>
    <3>1. buffer \in Seq(HdlcByte) /\ start \in Nat /\ end \in Nat /\ start >= 1 /\ start < end /\ end <= Len(buffer)
      BY <1>1, <1>2, <1>3
    <3>2. f \in Seq(HdlcByte) /\ Len(f) = end - start + 1
      BY <3>1
    <3> QED BY <3>1, <3>2
  <2> HIDE DEF f
  <2>2. Y = {} \/ \E y \in Seq(B) : Y = {y}
    BY <1>1, <2>1, HdlcDeframeType
  <2>3. delivered' = delivered \o SetToSeq(Y)
    BY <1>2 DEF f
  <2> DEFINE SB == Seq(B)
  <2> HIDE DEF Y, SB
  <2>4. delivered \in Seq(SB) /\ (Y = {} \/ \E y \in SB : Y = {y})
    BY <1>1, <2>2 DEF SB
  <2>5. delivered \o SetToSeq(Y) \in Seq(SB)
    BY <2>4, DeliveredType, Zenon
  <2> QED BY <2>3, <2>5 DEF SB
<1> QED BY <1>1, <1>4, <1>5 DEF TypeOK, take_packet, B

LEMMA SerialByteType ==
  ASSUME TypeOK, line.reader = "serial", NEW b \in KissByte, serial_byte(b)
  PROVE  /\ buffer' \in Seq(KissByte) /\ Len(buffer') <= line.capacity
         /\ delivered' \in Seq(Seq(KissByte))
<1>1. /\ buffer \in Seq(KissByte) /\ Len(buffer) <= line.capacity /\ line.capacity \in Nat \ {0}
      /\ delivered \in Seq(Seq(KissByte))
  BY LineFacts DEF TypeOK
<1>2. "FEND" \in KissByte
  BY DEF KissByte
<1>3. CASE b = "FEND"
  <2>1. buffer' = <<"FEND">>
    BY <1>3 DEF serial_byte
  <2> DEFINE f == Append(buffer, "FEND")
             Y == kiss_deframe(f)
             SB == Seq(KissByte)
  <2>2. f \in Seq(KissByte)
    BY <1>1, <1>2
  <2> HIDE DEF f
  <2>3. Y = {} \/ \E y \in SB : Y = {y}
    BY <2>2, KissDeframeType
  <2>4. delivered' = delivered \/ delivered' = delivered \o SetToSeq(Y)
    BY <1>3 DEF serial_byte, f
  <2>5. delivered \in Seq(SB)
    BY <1>1
  <2> HIDE DEF Y, SB
  <2>6. delivered \o SetToSeq(Y) \in Seq(SB)
    BY <2>3, <2>5, DeliveredType, Zenon
  <2>7. delivered' \in Seq(SB)
    BY <2>4, <2>5, <2>6
  <2> QED BY <1>1, <1>2, <2>1, <2>7 DEF SB
<1>4. CASE b # "FEND"
  <2>1. /\ delivered' = delivered
        /\ buffer' = IF buffer = <<>> THEN <<>> ELSE IF Len(buffer) < line.capacity THEN Append(buffer, b) ELSE <<>>
    BY <1>4 DEF serial_byte
  <2>2. buffer' \in Seq(KissByte) /\ Len(buffer') <= line.capacity
    BY <1>1, <2>1
  <2> QED BY <1>1, <2>1, <2>2
<1> QED BY <1>3, <1>4

LEMMA StoreType ==
  ASSUME TypeOK, line.reader = "uart", NEW b \in KissByte, store(b)
  PROVE  /\ buffer' \in Seq(KissByte) /\ Len(buffer') <= line.capacity
         /\ flags' \subseteq {"in_frame", "has_command", "escaped", "invalid"}
<1>1. /\ buffer \in Seq(KissByte) /\ Len(buffer) <= line.capacity /\ line.capacity \in Nat \ {0}
      /\ flags \subseteq {"in_frame", "has_command", "escaped", "invalid"}
  BY LineFacts DEF TypeOK
<1>2. buffer' = IF Len(buffer) = line.capacity THEN <<>> ELSE Append(buffer, b)
  BY DEF store
<1>3. buffer' \in Seq(KissByte) /\ Len(buffer') <= line.capacity
  BY <1>1, <1>2
<1>4. flags' \subseteq {"in_frame", "has_command", "escaped", "invalid"}
  BY <1>1 DEF store
<1> QED BY <1>3, <1>4

LEMMA UartByteType ==
  ASSUME TypeOK, line.reader = "uart", NEW b \in KissByte, (b = "FEND" /\ uart_end) \/ uart_byte(b)
  PROVE  /\ buffer' \in Seq(KissByte) /\ Len(buffer') <= line.capacity
         /\ delivered' \in Seq(Seq(KissByte))
         /\ flags' \subseteq {"in_frame", "has_command", "escaped", "invalid"}
<1>1. /\ buffer \in Seq(KissByte) /\ Len(buffer) <= line.capacity /\ line.capacity \in Nat \ {0}
      /\ delivered \in Seq(Seq(KissByte))
      /\ flags \subseteq {"in_frame", "has_command", "escaped", "invalid"}
  BY LineFacts DEF TypeOK
<1>2. CASE uart_end
  <2>1. buffer' = <<>> /\ flags' = {"in_frame"} /\ (delivered' = delivered \/ delivered' = Append(delivered, buffer))
    BY <1>2 DEF uart_end
  <2> DEFINE SB == Seq(KissByte)
  <2>2. delivered \in Seq(SB) /\ buffer \in SB
    BY <1>1
  <2> HIDE DEF SB
  <2>3. delivered' \in Seq(SB)
    BY <2>1, <2>2
  <2> QED BY <1>1, <2>1, <2>3 DEF SB
<1>3. CASE uart_byte(b)
  <2>1. delivered' = delivered
    BY <1>3 DEF uart_byte
  <2>2. CASE buffer' = buffer /\ flags' \subseteq {"in_frame", "has_command", "escaped", "invalid"}
    BY <1>1, <2>1, <2>2
  <2>3. CASE store(b)
    BY <1>1, <2>1, <2>3, StoreType
  <2>4. CASE b \in DOMAIN Unescape /\ store(Unescape[b])
    BY <1>1, <2>1, <2>4, StoreType, EscapeFacts
  <2>5. \/ buffer' = buffer /\ flags' \subseteq {"in_frame", "has_command", "escaped", "invalid"}
        \/ store(b)
        \/ b \in DOMAIN Unescape /\ store(Unescape[b])
    BY <1>1, <1>3 DEF uart_byte
  <2> QED BY <2>2, <2>3, <2>4, <2>5
<1> QED BY <1>2, <1>3

LEMMA ReadByteType ==
  ASSUME TypeOK, read_byte
  PROVE  TypeOK'
<1> DEFINE W == [byte : Bytes(line.reader), of : 1 .. MaxPackets]
           b == wire[1].byte
<1>1. line \in Lines /\ wire \in Seq(W) /\ wire # <<>> /\ line.reader # "tcp" /\ Bytes(line.reader) = KissByte
      /\ flags \subseteq {"in_frame", "has_command", "escaped", "invalid"}
  BY LineFacts DEF TypeOK, read_byte
<1>2. wire[1] \in W /\ Tail(wire) \in Seq(W)
  <2> HIDE DEF W
  <2> QED BY <1>1
<1>3. b \in KissByte /\ wire' \in Seq(W)
  BY <1>1, <1>2 DEF read_byte
<1> HIDE DEF b
<1>4. /\ buffer' \in Seq(KissByte) /\ Len(buffer') <= line.capacity
      /\ delivered' \in Seq(Seq(KissByte))
      /\ flags' \subseteq {"in_frame", "has_command", "escaped", "invalid"}
  <2>1. CASE line.reader = "serial" /\ serial_byte(b) /\ UNCHANGED flags
    BY <1>1, <1>3, <2>1, SerialByteType
  <2>2. CASE line.reader = "uart" /\ ((b = "FEND" /\ uart_end) \/ uart_byte(b))
    BY <1>3, <2>2, UartByteType
  <2>3. \/ line.reader = "serial" /\ serial_byte(b) /\ UNCHANGED flags
        \/ line.reader = "uart" /\ ((b = "FEND" /\ uart_end) \/ uart_byte(b))
    BY DEF read_byte, b
  <2> QED BY <2>1, <2>2, <2>3
<1> QED BY <1>1, <1>3, <1>4 DEF TypeOK, read_byte

LEMMA Joined ==
  ASSUME NEW S, NEW u \in Seq(S), NEW v \in Seq(S)
  PROVE  /\ u \o v \in Seq(S) /\ Len(u \o v) = Len(u) + Len(v)
         /\ \A i \in 1 .. Len(u) : (u \o v)[i] = u[i]
         /\ \A i \in Len(u) + 1 .. Len(u) + Len(v) : (u \o v)[i] = v[i - Len(u)]
  OBVIOUS

(* The sequence without its i-th element.                                  *)
LEMMA RemoveAtFacts ==
  ASSUME NEW S, NEW w \in Seq(S), NEW i \in 1 .. Len(w)
  PROVE  /\ RemoveAt(w, i) \in Seq(S) /\ Len(RemoveAt(w, i)) = Len(w) - 1
         /\ \A j \in 1 .. Len(w) - 1 : RemoveAt(w, i)[j] = w[IF j < i THEN j ELSE j + 1]
<1> DEFINE u == SubSeq(w, 1, i - 1)
           v == SubSeq(w, i + 1, Len(w))
<1>1. /\ u \in Seq(S) /\ Len(u) = i - 1 /\ \A j \in 1 .. i - 1 : u[j] = w[j]
      /\ v \in Seq(S) /\ Len(v) = Len(w) - i /\ \A j \in 1 .. Len(w) - i : v[j] = w[j + i]
  OBVIOUS
<1>2. RemoveAt(w, i) = u \o v
  BY DEF RemoveAt
<1> HIDE DEF u, v
<1>3. u \o v \in Seq(S) /\ Len(u \o v) = Len(w) - 1
  <2>1. u \o v \in Seq(S) /\ Len(u \o v) = Len(u) + Len(v)
    BY <1>1, Joined, Zenon
  <2>2. (i - 1) + (Len(w) - i) = Len(w) - 1
    OBVIOUS
  <2> QED BY <1>1, <2>1, <2>2
<1>4. ASSUME NEW j \in 1 .. Len(w) - 1 PROVE (u \o v)[j] = w[IF j < i THEN j ELSE j + 1]
  <2>1. CASE j < i
    <3>1. j \in 1 .. i - 1 /\ j \in 1 .. Len(u)
      BY <1>1, <2>1
    <3>2. (u \o v)[j] = u[j]
      BY <1>1, <3>1
    <3> QED BY <1>1, <2>1, <3>1, <3>2
  <2>2. CASE ~(j < i)
    <3>1. j - Len(u) \in 1 .. Len(v) /\ (j - Len(u)) + i = j + 1 /\ j - Len(u) \in 1 .. Len(w) - i
      BY <1>1, <2>2
    <3>2. (u \o v)[j] = v[j - Len(u)]
      BY <1>1, <3>1
    <3>3. v[j - Len(u)] = w[j + 1]
      BY <1>1, <3>1
    <3> QED BY <2>2, <3>2, <3>3
  <2> QED BY <2>1, <2>2
<1> QED BY <1>2, <1>3, <1>4

LEMMA LoseType ==
  ASSUME TypeOK, NEW i \in 1 .. Len(wire), Lose(i)
  PROVE  TypeOK'
<1> DEFINE W == [byte : Bytes(line.reader), of : 1 .. MaxPackets]
<1>1. wire \in Seq(W) /\ hit \subseteq 1 .. MaxPackets
  BY DEF TypeOK
<1>2. wire[i] \in W /\ RemoveAt(wire, i) \in Seq(W)
  <2> HIDE DEF W
  <2> QED BY <1>1, RemoveAtFacts
<1>3. hit' \subseteq 1 .. MaxPackets /\ wire' \in Seq(W)
  BY <1>1, <1>2 DEF Lose
<1> QED BY <1>3 DEF TypeOK, Lose

LEMMA TypeNext == TypeOK /\ [Next]_vars => TypeOK'
<1> SUFFICES ASSUME TypeOK, [Next]_vars PROVE TypeOK'
  OBVIOUS
<1>1. ASSUME NEW p \in line.packets, NEW shared \in BOOLEAN, send_packet(p, shared) PROVE TypeOK'
  BY <1>1, SendType
<1>2. ASSUME NEW n \in 1 .. READ_CHUNK, read_chunk(n) PROVE TypeOK'
  BY <1>2, ReadChunkType
<1>3. CASE take_packet
  BY <1>3, TakePacketType
<1>4. CASE read_byte
  BY <1>4, ReadByteType
<1>5. ASSUME NEW i \in 1 .. Len(wire), Lose(i) PROVE TypeOK'
  BY <1>5, LoseType
<1>6. CASE UNCHANGED vars
  BY <1>6 DEF TypeOK, vars
<1> QED BY <1>1, <1>2, <1>3, <1>4, <1>5, <1>6 DEF Next

LEMMA TypeInit == Init => TypeOK
<1> SUFFICES ASSUME Init PROVE TypeOK
  OBVIOUS
<1>1. line \in Lines /\ line.capacity \in Nat
  BY LineFacts DEF Init
<1>2. \A S : <<>> \in Seq(S)
  OBVIOUS
<1>3. Len(<<>>) = 0
  OBVIOUS
<1> QED BY <1>1, <1>2, <1>3 DEF Init, TypeOK

(* Bytes stay bytes through framing, chunks and losses, and no reader's    *)
(* buffer outgrows MAX_BUFFER, READ_CAPACITY or max_packet_len.            *)
THEOREM TypeCorrect == Spec => []TypeOK
<1> QED BY TypeInit, TypeNext, PTL DEF Spec

---------------------------------------------------------------------------
(* The invariant.  head is what the reader holds: of the TCP reader and of *)
(* the serial one the contents of the buffer, of the UART decoder all the  *)
(* bytes since the last flag, which it has decoded as far as they go.      *)

Mirrors(bf, head) == Len(head) = Len(bf) /\ \A i \in 1 .. Len(bf) : head[i].byte = bf[i]
OneFlag(head) ==
  head # <<>> => head[1].byte = "FEND" /\ \A i \in 2 .. Len(head) : head[i].byte # "FEND"
Body(head) == [i \in 1 .. Len(head) - 2 |-> head[i + 2].byte]

(* What no later byte can mend: a wrong command, a wrong escape, too long. *)
Spoilt(l, head) ==
  head[2].byte # "00" \/ kiss_run(Body(head)).malformed \/ Len(kiss_run(Body(head)).out) > l.capacity

Decodes(l, bf, fl, head) ==
  /\ Len(head) = 0 => fl = {} /\ bf = <<>>
  /\ Len(head) = 1 => fl = {"in_frame"} /\ bf = <<>>
  /\ Len(head) >= 2 /\ Spoilt(l, head) => {"in_frame", "has_command", "invalid"} \subseteq fl
  /\ Len(head) >= 2 /\ ~Spoilt(l, head) =>
       /\ fl = {"in_frame", "has_command"} \cup (IF kiss_run(Body(head)).escaped THEN {"escaped"} ELSE {})
       /\ bf = kiss_run(Body(head)).out

Holds(l, bf, fl, head) ==
  /\ l.reader # "uart" => Mirrors(bf, head)
  /\ l.reader # "tcp" => OneFlag(head)
  /\ l.reader = "uart" => Decodes(l, bf, fl, head)

(* A TCP reader with enough room never loses its place.                    *)
InPlace(l, s, R) ==
  (l.reader = "tcp" /\ RoomyOn(l) /\ s # <<>>) => R # <<>> /\ R[1].byte = Flag(l)

Done(at) == {at[i] : i \in DOMAIN at}

Counted(l, s, h, dl, at, m) ==
  /\ at \in [1 .. Len(dl) -> 1 .. m]
  /\ \A i, j \in 1 .. Len(dl) : i < j => at[i] < at[j]
  /\ \A i \in 1 .. Len(dl) : at[i] \notin h => dl[i] = s[at[i]] /\ FitsOn(l, s[at[i]])

Good(l, s, w, h, dl, bf, fl, head, at, m) ==
  /\ head \in Seq(Tagged(l, s)) /\ w \in Seq(Tagged(l, s)) /\ m \in 0 .. Len(s)
  /\ Counted(l, s, h, dl, at, m)
  /\ Stream(l, s, h, m, head \o w)
  /\ Pending(l, s, h, Done(at), head \o w)
  /\ InPlace(l, s, head \o w)
  /\ Holds(l, bf, fl, head)
  /\ l.reader = "tcp" => h = {}

IInv ==
  /\ TypeOK
  /\ \E head, at, m : Good(line, sent, wire, hit, delivered, buffer, flags, head, at, m)

(* The reader takes n bytes from the wire w and forgets the first c bytes. *)
Regrouped(S, head, w, n, c, head2, w2) ==
  /\ head2 \in Seq(S) /\ w2 \in Seq(S)
  /\ c \in 0 .. Len(head \o w)
  /\ Len(head2) = Len(head) + n - c
  /\ \A i \in 1 .. Len(head2) : head2[i] = (head \o w)[i + c]
  /\ head2 \o w2 \in Seq(S)
  /\ Len(head2 \o w2) = Len(head \o w) - c
  /\ \A i \in 1 .. Len(head2 \o w2) : (head2 \o w2)[i] = (head \o w)[i + c]

LEMMA Slice ==
  ASSUME NEW S, NEW t \in Seq(S), NEW a \in Nat, NEW b \in Nat, a <= b, b <= Len(t)
  PROVE  /\ SubSeq(t, a + 1, b) \in Seq(S) /\ Len(SubSeq(t, a + 1, b)) = b - a
         /\ \A i \in 1 .. b - a : SubSeq(t, a + 1, b)[i] = t[i + a]
  OBVIOUS

LEMMA Regroup ==
  ASSUME NEW S, NEW head \in Seq(S), NEW w \in Seq(S), NEW n \in 0 .. Len(w), NEW c \in 0 .. Len(head) + n
  PROVE  \E head2 : Regrouped(S, head, w, n, c, head2, SubSeq(w, n + 1, Len(w)))
<1> DEFINE R == head \o w
           h2 == SubSeq(R, c + 1, Len(head) + n)
           w2 == SubSeq(w, n + 1, Len(w))
           k == Len(head) + n - c
<1>1. /\ R \in Seq(S) /\ Len(R) = Len(head) + Len(w) /\ \A i \in 1 .. Len(head) : R[i] = head[i]
      /\ \A i \in Len(head) + 1 .. Len(head) + Len(w) : R[i] = w[i - Len(head)]
  BY Joined, Zenon
<1>2. Len(head) \in Nat /\ Len(w) \in Nat
  OBVIOUS
<1> HIDE DEF R
<1>3. h2 \in Seq(S) /\ Len(h2) = k /\ k \in Nat /\ \A i \in 1 .. k : h2[i] = R[i + c]
  <2>1. c \in Nat /\ Len(head) + n \in Nat /\ c <= Len(head) + n /\ Len(head) + n <= Len(R) /\ k \in Nat
    BY <1>1, <1>2
  <2> DEFINE e == Len(head) + n
  <2>2. e \in Nat /\ c <= e /\ e <= Len(R)
    BY <2>1
  <2> HIDE DEF e
  <2>3. SubSeq(R, c + 1, e) \in Seq(S) /\ Len(SubSeq(R, c + 1, e)) = e - c
        /\ \A i \in 1 .. e - c : SubSeq(R, c + 1, e)[i] = R[i + c]
    BY <1>1, <2>1, <2>2, Slice
  <2> QED BY <2>1, <2>3 DEF e
<1>4. w2 \in Seq(S) /\ Len(w2) = Len(w) - n /\ \A i \in 1 .. Len(w) - n : w2[i] = w[i + n]
  OBVIOUS
<1> HIDE DEF h2, w2
<1>5. /\ h2 \o w2 \in Seq(S) /\ Len(h2 \o w2) = Len(h2) + Len(w2) /\ \A i \in 1 .. Len(h2) : (h2 \o w2)[i] = h2[i]
      /\ \A i \in Len(h2) + 1 .. Len(h2) + Len(w2) : (h2 \o w2)[i] = w2[i - Len(h2)]
  BY <1>3, <1>4, Joined, Zenon
<1> DEFINE R2 == h2 \o w2
<1> HIDE DEF R2
<1>6. R2 \in Seq(S) /\ Len(R2) = Len(R) - c
  BY <1>1, <1>2, <1>3, <1>4, <1>5 DEF R2
<1>7. ASSUME NEW i \in 1 .. Len(R2) PROVE R2[i] = R[i + c]
  <2>1. CASE i \in 1 .. k
    BY <2>1, <1>3, <1>5 DEF R2
  <2>2. CASE i \notin 1 .. k
    <3>1. i \in k + 1 .. k + Len(w2) /\ i - k \in 1 .. Len(w) - n /\ (i - k) + n = i + c - Len(head)
          /\ i + c \in Len(head) + 1 .. Len(head) + Len(w)
      BY <2>2, <1>1, <1>2, <1>3, <1>4, <1>6
    <3>2. R2[i] = w2[i - k]
      BY <3>1, <1>3, <1>5 DEF R2
    <3>3. w2[i - k] = w[i + c - Len(head)]
      BY <3>1, <1>4
    <3>4. R[i + c] = w[i + c - Len(head)]
      BY <3>1, <1>1
    <3> QED BY <3>2, <3>3, <3>4
  <2> QED BY <2>1, <2>2
<1>8. c \in 0 .. Len(R)
  BY <1>1, <1>2
<1> QED BY <1>3, <1>4, <1>6, <1>7, <1>8 DEF Regrouped, R, R2, w2

(* The packet numbered k is handed on as y.                                *)
Rightly(l, s, h, k, y) == k \notin h => y = s[k] /\ FitsOn(l, s[k])
Recounted(l, s, h, dl, at, k, at2) == Counted(l, s, h, dl, at2, k) /\ Done(at2) = Done(at) \cup {k}

LEMMA CountAppend ==
  ASSUME NEW l, NEW s, NEW h, NEW S, NEW dl \in Seq(S), NEW at, NEW m \in Nat, NEW k \in Nat, m < k, NEW y \in S,
         Counted(l, s, h, dl, at, m), Rightly(l, s, h, k, y)
  PROVE  \E at2 : Recounted(l, s, h, Append(dl, y), at, k, at2)
<1> DEFINE n == Len(dl)
           d2 == Append(dl, y)
           at2 == [i \in 1 .. n + 1 |-> IF i = n + 1 THEN k ELSE at[i]]
<1>1. n \in Nat /\ Len(d2) = n + 1 /\ d2[n + 1] = y /\ \A i \in 1 .. n : d2[i] = dl[i]
  OBVIOUS
<1>2. /\ at \in [1 .. n -> 1 .. m]
      /\ \A i, j \in 1 .. n : i < j => at[i] < at[j]
      /\ \A i \in 1 .. n : at[i] \notin h => dl[i] = s[at[i]] /\ FitsOn(l, s[at[i]])
  BY DEF Counted
<1> HIDE DEF n, d2
<1>3. at2[n + 1] = k /\ \A i \in 1 .. n : at2[i] = at[i] /\ at[i] \in 1 .. m
  BY <1>1, <1>2
<1>4. at2 \in [1 .. n + 1 -> 1 .. k]
  <2>1. \A i \in 1 .. n + 1 : (IF i = n + 1 THEN k ELSE at[i]) \in 1 .. k
    <3> SUFFICES ASSUME NEW i \in 1 .. n + 1 PROVE (IF i = n + 1 THEN k ELSE at[i]) \in 1 .. k
      OBVIOUS
    <3>1. CASE i = n + 1
      BY <3>1
    <3>2. CASE i # n + 1
      <4>1. i \in 1 .. n
        BY <3>2, <1>1
      <4>2. at[i] \in 1 .. m
        BY <4>1, <1>3
      <4> QED BY <3>2, <4>2
    <3> QED BY <3>1, <3>2
  <2> QED BY <2>1
<1> HIDE DEF at2
<1>5. ASSUME NEW i \in 1 .. n + 1, NEW j \in 1 .. n + 1, i < j PROVE at2[i] < at2[j]
  <2>1. i \in 1 .. n
    BY <1>1, <1>5
  <2>2. CASE j \in 1 .. n
    BY <2>1, <2>2, <1>2, <1>3, <1>5
  <2>3. CASE j = n + 1
    BY <2>1, <2>3, <1>3
  <2> QED BY <2>2, <2>3, <1>1
<1>6. ASSUME NEW i \in 1 .. n + 1, at2[i] \notin h PROVE d2[i] = s[at2[i]] /\ FitsOn(l, s[at2[i]])
  <2>1. CASE i \in 1 .. n
    BY <2>1, <1>1, <1>2, <1>3, <1>6
  <2>2. CASE i = n + 1
    BY <2>2, <1>1, <1>3, <1>6 DEF Rightly
  <2> QED BY <2>1, <2>2, <1>1
<1>7. Counted(l, s, h, d2, at2, k)
  BY <1>1, <1>4, <1>5, <1>6 DEF Counted
<1>8. Done(at2) = Done(at) \cup {k}
  <2>1. DOMAIN at2 = 1 .. n + 1 /\ DOMAIN at = 1 .. n /\ 1 .. n + 1 = (1 .. n) \cup {n + 1}
    BY <1>1, <1>2, <1>4
  <2> QED BY <2>1, <1>3 DEF Done
<1> QED BY <1>7, <1>8 DEF d2, Recounted

LEMMA Advance ==
  ASSUME NEW l, NEW s, NEW w, NEW h, NEW dl, NEW bf, NEW fl, NEW head, NEW at, NEW m,
         Good(l, s, w, h, dl, bf, fl, head, at, m),
         NEW n, NEW c, NEW head2, NEW w2, Regrouped(Tagged(l, s), head, w, n, c, head2, w2),
         NEW dl2, NEW bf2, NEW fl2, NEW at2, NEW m2 \in 0 .. Len(s),
         Counted(l, s, h, dl2, at2, m2), Done(at) \subseteq Done(at2), m2 = m \/ Later(l, m2, head2 \o w2),
         \A a, b, i \in 1 .. Len(head \o w) :
           (Chunk(l, head \o w, a, b) /\ a <= c /\ a < i /\ i < b /\ (head \o w)[i].of \in Due(l, s, h)) =>
             (head \o w)[i].of \in Done(at2),
         InPlace(l, s, head2 \o w2), Holds(l, bf2, fl2, head2)
  PROVE  Good(l, s, w2, h, dl2, bf2, fl2, head2, at2, m2)
<1> DEFINE R == head \o w
           R2 == head2 \o w2
<1>1. Stream(l, s, h, m, R) /\ Pending(l, s, h, Done(at), R)
  BY DEF Good
<1>2. c \in 0 .. Len(R) /\ R2 \in Seq(Tagged(l, s)) /\ Len(R2) = Len(R) - c /\ \A i \in 1 .. Len(R2) : R2[i] = R[i + c]
  BY DEF Regrouped
<1>3. \A a, b, i \in 1 .. Len(R) :
        (Chunk(l, R, a, b) /\ a <= c /\ a < i /\ i < b /\ R[i].of \in Due(l, s, h)) => R[i].of \in Done(at2)
  OBVIOUS
<1>4. m2 = m \/ Later(l, m2, R2)
  OBVIOUS
<1> HIDE DEF R, R2
<1>5. Stream(l, s, h, m, R2)
  BY <1>1, <1>2, CutStream
<1>6. Stream(l, s, h, m2, R2)
  BY <1>4, <1>5 DEF Stream
<1>7. Pending(l, s, h, Done(at2), R2)
  BY <1>1, <1>2, <1>3, CutPending
<1> QED BY <1>6, <1>7 DEF Good, Regrouped, R2

---------------------------------------------------------------------------
(* Every step preserves the invariant.                                     *)

LEMMA SendGood ==
  ASSUME TypeOK, NEW p \in line.packets, NEW shared \in BOOLEAN, send_packet(p, shared), NEW head, NEW at, NEW m,
         Good(line, sent, wire, hit, delivered, buffer, flags, head, at, m)
  PROVE  Good(line, sent', wire', hit, delivered, buffer, flags, head, at, m)
<1> DEFINE l == line
           s == sent
           s2 == Append(sent, p)
           x == IF shared THEN 1 ELSE 0
           bytes == IF shared THEN Tail(frame(p)) ELSE frame(p)
           k == Len(sent) + 1
           t == Written(bytes, k)
           f == FrameOf(line, p)
           R == head \o wire
           R2 == head \o wire'
<1>1. line \in Lines /\ s \in Seq(line.packets)
  BY DEF TypeOK
<1>2. /\ sent' = s2 /\ Len(s2) = k /\ s2 \in Seq(line.packets) /\ s2 # <<>>
      /\ Len(s) \in Nat /\ \A i \in 1 .. Len(s) : s2[i] = s[i]
  BY <1>1, SMTT(30) DEF send_packet
<1>3. wire' = wire \o t
  BY <1>2 DEF send_packet, Written
<1>4. shared => line.shared /\ sent # <<>> /\ line.reader = "tcp" /\ hit = {}
  BY <1>1, LineFacts DEF send_packet, Good
<1>5. /\ head \in Seq(Tagged(l, s)) /\ wire \in Seq(Tagged(l, s)) /\ m \in 0 .. Len(s)
      /\ Counted(l, s, hit, delivered, at, m)
      /\ Stream(l, s, hit, m, R) /\ Pending(l, s, hit, Done(at), R)
      /\ InPlace(l, s, R) /\ Holds(l, buffer, flags, head) /\ (l.reader = "tcp" => hit = {})
  BY DEF Good
<1>6. Tagged(l, s) \subseteq Tagged(l, s2) /\ [byte : Bytes(l.reader), of : {k}] \subseteq Tagged(l, s2)
  BY <1>2 DEF Tagged
<1>7. bytes = (IF x = 1 THEN Tail(frame(p)) ELSE frame(p)) /\ x \in {0, 1} /\ (x = 1 => shared)
  OBVIOUS
<1> HIDE DEF x, bytes, k
<1>8. /\ t \in Seq([byte : Bytes(line.reader), of : {k}]) /\ Len(t) = Len(f) - x
      /\ \A i \in 1 .. Len(t) : t[i].byte = f[i + x] /\ t[i].of = k
  <2>1. x \in {0, 1}
    BY <1>7
  <2>2. bytes = IF x = 1 THEN Tail(frame(p)) ELSE frame(p)
    BY <1>7
  <2>3. line \in Lines
    BY <1>1
  <2>4. Wrote(t, line, p, x, k)
    BY <2>1, <2>2, <2>3, WrittenFacts, Zenon
  <2> QED BY <2>4 DEF Wrote
<1>9. Len(f) \in Nat /\ Len(f) >= 3 /\ f[1] = Flag(l)
  BY <1>1, FrameFacts
<1> HIDE DEF t, f
<1> DEFINE T == Tagged(l, s2)
<1>10. head \in Seq(T) /\ wire \in Seq(T) /\ t \in Seq(T)
  <2> DEFINE V == [byte : Bytes(line.reader), of : {k}]
             U == Tagged(l, s)
  <2>1. U \subseteq T /\ V \subseteq T /\ head \in Seq(U) /\ wire \in Seq(U) /\ t \in Seq(V)
    BY <1>5, <1>6, <1>8
  <2> HIDE DEF T, U, V
  <2> QED BY <2>1
<1>11. R2 = R \o t
  <2> HIDE DEF T
  <2> QED BY <1>3, <1>10, SMTT(30)
<1>12. R \in Seq(T) /\ wire' \in Seq(T)
  <2> HIDE DEF T
  <2> QED BY <1>3, <1>10
<1> HIDE DEF R, R2
<1>13. /\ R2 \in Seq(T) /\ Len(R2) = Len(R) + Len(t) /\ \A i \in 1 .. Len(R) : R2[i] = R[i]
       /\ \A i \in Len(R) + 1 .. Len(R) + Len(t) : R2[i] = t[i - Len(R)]
  <2> HIDE DEF T
  <2>1. R \o t \in Seq(T) /\ Len(R \o t) = Len(R) + Len(t) /\ (\A i \in 1 .. Len(R) : (R \o t)[i] = R[i])
        /\ \A i \in Len(R) + 1 .. Len(R) + Len(t) : (R \o t)[i] = t[i - Len(R)]
    BY <1>10, <1>12, Joined, Zenon
  <2> QED BY <1>11, <2>1
<1>14. Len(R) \in Nat /\ Len(t) \in Nat /\ x \in Nat
  BY <1>10, <1>12, <1>7 DEF T
<1>15. ASSUME NEW i \in Len(R) + 1 .. Len(R2) PROVE R2[i].byte = f[i - Len(R) + x] /\ R2[i].of = Len(s) + 1
  <2>1. i - Len(R) \in 1 .. Len(t) /\ i \in Len(R) + 1 .. Len(R) + Len(t)
    BY <1>13, <1>14
  <2>2. R2[i] = t[i - Len(R)]
    BY <2>1, <1>13
  <2> QED BY <2>1, <2>2, <1>8 DEF k
<1>16. x = 1 => line.shared /\ hit = {}
  BY <1>4, <1>7
<1>17. x = 1 /\ RoomyOn(line) => R # <<>> /\ R[1].byte = Flag(l)
  BY <1>4, <1>5, <1>7 DEF InPlace
<1>18. /\ Stream(l, s2, hit, m, R2)
       /\ \A done : Pending(l, s, hit, done, R) /\ (x = 1 /\ RoomyOn(l) => R # <<>>) => Pending(l, s2, hit, done, R2)
  <2>1. R2 \in Seq(Tagged(l, Append(s, p))) /\ Len(R2) = Len(R) + (Len(FrameOf(l, p)) - x)
    BY <1>8, <1>13 DEF f
  <2>2. \A i \in Len(R) + 1 .. Len(R2) : R2[i].byte = FrameOf(l, p)[i - Len(R) + x] /\ R2[i].of = Len(s) + 1
    BY <1>15 DEF f
  <2>3. x \in {0, 1}
    BY <1>7
  <2> QED BY <1>1, <1>5, <1>13, <1>16, <2>1, <2>2, <2>3, SendStream
<1>19. Pending(l, s2, hit, Done(at), R2)
  BY <1>5, <1>17, <1>18
<1>20. InPlace(l, s2, R2)
  <2> SUFFICES ASSUME l.reader = "tcp", RoomyOn(l) PROVE R2 # <<>> /\ R2[1].byte = Flag(l)
    BY DEF InPlace
  <2>1. CASE R # <<>> /\ R[1].byte = Flag(l)
    <3>1. 1 \in 1 .. Len(R)
      BY <2>1, <1>12, <1>14 DEF T
    <3> QED BY <2>1, <3>1, <1>13, <1>14
  <2>2. CASE ~(R # <<>> /\ R[1].byte = Flag(l))
    <3>1. s = <<>> /\ x = 0
      BY <2>2, <1>5, <1>7, <1>17 DEF InPlace
    <3>2. Len(R) = 0
      <4> SUFFICES ASSUME Len(R) # 0 PROVE FALSE
        OBVIOUS
      <4>1. 1 \in 1 .. Len(R) /\ R \in Seq(Tagged(l, s))
        BY <1>5, <1>14 DEF Stream
      <4>2. R[1] \in Tagged(l, s)
        BY <4>1
      <4>3. R[1].of \in 1 .. 0
        BY <4>2, <3>1 DEF Tagged
      <4> QED BY <4>3
    <3>3. 1 \in Len(R) + 1 .. Len(R2) /\ 1 - Len(R) + x = 1 /\ Len(R2) # 0
      BY <3>1, <3>2, <1>8, <1>9, <1>13, <1>14
    <3> QED BY <3>3, <1>9, <1>15, <1>13
  <2> QED BY <2>1, <2>2
<1>21. Counted(l, s2, hit, delivered, at, m)
  <2>1. \A i \in 1 .. Len(delivered) : at[i] \in 1 .. Len(s)
    BY <1>2, <1>5 DEF Counted
  <2> QED BY <1>2, <1>5, <2>1 DEF Counted
<1>22. m \in 0 .. Len(s2)
  BY <1>2, <1>5 DEF k
<1> QED BY <1>2, <1>5, <1>10, <1>12, <1>18, <1>19, <1>20, <1>21, <1>22 DEF Good, R2

LEMMA LoseGood ==
  ASSUME TypeOK, NEW i \in 1 .. Len(wire), Lose(i), NEW head, NEW at, NEW m,
         Good(line, sent, wire, hit, delivered, buffer, flags, head, at, m)
  PROVE  Good(line, sent, wire', hit', delivered, buffer, flags, head, at, m)
<1> DEFINE l == line
           s == sent
           T == Tagged(line, sent)
           R == head \o wire
           R2 == head \o wire'
           x == Len(head) + i
<1>1. line \in Lines /\ line.reader # "tcp" /\ ~line.shared
  <2>1. line.reader = "tcp" => hit = {} /\ line.maxLoss = 0
    BY LineFacts DEF Good, TypeOK
  <2>2. SUFFICES ASSUME line.reader = "tcp"
                 PROVE  FALSE
    BY LineFacts DEF TypeOK
  <2>3. Cardinality(hit) = 0
    BY <2>1, <2>2, FS_EmptySet
  <2> QED BY <2>1, <2>2, <2>3 DEF Lose
<1>2. /\ head \in Seq(T) /\ wire \in Seq(T) /\ m \in 0 .. Len(s)
      /\ Counted(l, s, hit, delivered, at, m)
      /\ Stream(l, s, hit, m, R) /\ Pending(l, s, hit, Done(at), R)
      /\ Holds(l, buffer, flags, head)
  BY DEF Good
<1>3. wire' = RemoveAt(wire, i) /\ hit' = hit \cup {wire[i].of}
  BY DEF Lose
<1> HIDE DEF T
<1>4. /\ wire' \in Seq(T) /\ Len(wire') = Len(wire) - 1
      /\ \A j \in 1 .. Len(wire) - 1 : wire'[j] = wire[IF j < i THEN j ELSE j + 1]
  BY <1>2, <1>3, RemoveAtFacts
<1>5. Len(head) \in Nat /\ Len(wire) \in Nat /\ x \in Nat
  BY <1>2
<1>6. /\ R \in Seq(T) /\ Len(R) = Len(head) + Len(wire) /\ \A j \in 1 .. Len(head) : R[j] = head[j]
      /\ \A j \in Len(head) + 1 .. Len(head) + Len(wire) : R[j] = wire[j - Len(head)]
  BY <1>2, Joined, Zenon
<1>7. /\ R2 \in Seq(T) /\ Len(R2) = Len(head) + Len(wire') /\ \A j \in 1 .. Len(head) : R2[j] = head[j]
      /\ \A j \in Len(head) + 1 .. Len(head) + Len(wire') : R2[j] = wire'[j - Len(head)]
  BY <1>2, <1>4, Joined, Zenon
<1> HIDE DEF R, R2
<1>8. x \in 1 .. Len(R) /\ Len(R2) = Len(R) - 1 /\ R[x] = wire[i]
  <2>1. x \in Len(head) + 1 .. Len(head) + Len(wire) /\ x - Len(head) = i
    BY <1>5
  <2>2. R[x] = wire[i]
    BY <1>6, <2>1
  <2> QED BY <1>4, <1>5, <1>6, <1>7, <2>1, <2>2
<1>9. ASSUME NEW j \in 1 .. Len(R2) PROVE R2[j] = R[IF j < x THEN j ELSE j + 1]
  <2>1. CASE j \in 1 .. Len(head)
    <3>1. j < x
      BY <2>1, <1>5
    <3> QED BY <2>1, <3>1, <1>6, <1>7
  <2>2. CASE j \notin 1 .. Len(head)
    <3> DEFINE q == j - Len(head)
               q2 == IF q < i THEN q ELSE q + 1
               j2 == IF j < x THEN j ELSE j + 1
    <3>1. q \in 1 .. Len(wire) - 1 /\ j \in Len(head) + 1 .. Len(head) + Len(wire')
      BY <2>2, <1>4, <1>5, <1>7
    <3>2. R2[j] = wire[q2]
      BY <3>1, <1>4, <1>7
    <3>3. j2 \in Len(head) + 1 .. Len(head) + Len(wire) /\ j2 - Len(head) = q2
      <4>1. CASE q < i
        BY <3>1, <4>1, <1>4, <1>5
      <4>2. CASE ~(q < i)
        BY <3>1, <4>2, <1>4, <1>5
      <4> QED BY <4>1, <4>2
    <3> HIDE DEF q, q2, j2
    <3>4. R[j2] = wire[j2 - Len(head)]
      BY <3>3, <1>6
    <3> QED BY <3>2, <3>3, <3>4 DEF j2
  <2> QED BY <2>1, <2>2
<1>10. /\ Stream(l, s, hit', m, R2)
       /\ Pending(l, s, hit', Done(at), R2)
  <2>1. hit' = hit \cup {R[x].of}
    BY <1>3, <1>8
  <2>2. R2 \in Seq(Tagged(l, s))
    BY <1>7 DEF T
  <2> HIDE DEF x
  <2>3. /\ Stream(l, s, hit \cup {R[x].of}, m, R2)
        /\ \A done : Pending(l, s, hit, done, R) => Pending(l, s, hit \cup {R[x].of}, done, R2)
    BY <1>1, <1>2, <1>8, <1>9, <2>2, LoseStream
  <2> QED BY <1>2, <2>1, <2>3
<1>11. Counted(l, s, hit', delivered, at, m)
  BY <1>2, <1>3 DEF Counted
<1> QED BY <1>1, <1>2, <1>4, <1>10, <1>11 DEF Good, InPlace, R2, T

(* The first flag after a.                                                 *)
NextTo(l, R, a, b) == a < b /\ R[b].byte = Flag(l) /\ \A i \in a + 1 .. b - 1 : R[i].byte # Flag(l)

LEMMA NextFlag ==
  ASSUME NEW l, NEW R, NEW a \in Nat, NEW e \in Nat, a < e, R[e].byte = Flag(l)
  PROVE  \E b \in Nat : NextTo(l, R, a, b) /\ b <= e
<1> DEFINE First(b) == a < b /\ R[b].byte = Flag(l) /\ \A i \in a + 1 .. b - 1 : R[i].byte # Flag(l)
           S == {n \in Nat : (\A i \in a + 1 .. a + n : R[i].byte # Flag(l)) \/ \E b \in Nat : First(b) /\ b <= a + n}
<1>1. 0 \in S
  BY DEF S
<1>2. ASSUME NEW n \in Nat, n \in S PROVE n + 1 \in S
  <2>1. CASE \E b \in Nat : First(b) /\ b <= a + n
    <3>1. PICK b \in Nat : First(b) /\ b <= a + n
      BY <2>1
    <3> HIDE DEF First
    <3>2. b <= a + (n + 1)
      BY <3>1
    <3> QED BY <3>1, <3>2
  <2>2. CASE \A i \in a + 1 .. a + n : R[i].byte # Flag(l)
    <3>1. a + 1 .. (a + (n + 1)) - 1 = a + 1 .. a + n /\ a < a + (n + 1)
      OBVIOUS
    <3>2. CASE R[a + (n + 1)].byte = Flag(l)
      <4>1. First(a + (n + 1))
        BY <2>2, <3>1, <3>2
      <4> HIDE DEF First
      <4> QED BY <4>1
    <3>3. CASE R[a + (n + 1)].byte # Flag(l)
      <4>1. \A i \in a + 1 .. a + (n + 1) : i \in a + 1 .. a + n \/ i = a + (n + 1)
        OBVIOUS
      <4>2. \A i \in a + 1 .. a + (n + 1) : R[i].byte # Flag(l)
        BY <2>2, <3>3, <4>1
      <4> HIDE DEF First
      <4> QED BY <4>2
    <3> QED BY <3>2, <3>3
  <2> HIDE DEF First
  <2> QED BY <1>2, <2>1, <2>2
<1> HIDE DEF S
<1>3. e - a \in S
  BY <1>1, <1>2, NatInduct
<1>4. a + (e - a) = e /\ e \in a + 1 .. e
  OBVIOUS
<1>5. \E b \in Nat : First(b) /\ b <= e
  <2> HIDE DEF First
  <2> QED BY <1>3, <1>4 DEF S
<1> QED BY <1>5 DEF NextTo

LEMMA FewFlags ==
  ASSUME NEW n \in Nat, NEW S \in SUBSET (1 .. n), Cardinality(S) < 2
  PROVE  \A i, j \in S : i = j
<1> SUFFICES ASSUME NEW i \in S, NEW j \in S, i # j PROVE FALSE
  OBVIOUS
<1>1. IsFiniteSet(S)
  <2>1. IsFiniteSet(1 .. n)
    BY FS_Interval
  <2> QED BY <2>1, FS_Subset
<1>2. IsFiniteSet({i}) /\ Cardinality({i}) = 1
  BY FS_Singleton
<1>3. Cardinality({i} \cup {j}) = 2
  BY <1>2, FS_AddElement
<1>4. {i} \cup {j} \in SUBSET S
  OBVIOUS
<1>5. Cardinality({i} \cup {j}) <= Cardinality(S)
  BY <1>1, <1>4, FS_Subset
<1>6. Cardinality(S) \in Nat
  BY <1>1, FS_CardinalityType
<1> QED BY <1>3, <1>5, <1>6

(* What is buffered and what is on the wire, as one sequence.              *)
LEMMA Whole ==
  ASSUME NEW l, NEW s, NEW w, NEW h, NEW dl, NEW bf, NEW fl, NEW head, NEW at, NEW m,
         Good(l, s, w, h, dl, bf, fl, head, at, m)
  PROVE  /\ Len(head) \in Nat /\ Len(w) \in Nat /\ Len(head \o w) = Len(head) + Len(w)
         /\ head \o w \in Seq(Tagged(l, s))
         /\ \A i \in 1 .. Len(head) : (head \o w)[i] = head[i]
         /\ \A i \in 1 .. Len(w) : (head \o w)[i + Len(head)] = w[i]
         /\ \A i \in 1 .. Len(head \o w) : (head \o w)[i] \in Tagged(l, s)
<1> DEFINE T == Tagged(l, s)
           R == head \o w
<1>1. head \in Seq(T) /\ w \in Seq(T)
  BY DEF Good
<1> HIDE DEF T
<1>2. /\ R \in Seq(T) /\ Len(R) = Len(head) + Len(w) /\ \A i \in 1 .. Len(head) : R[i] = head[i]
      /\ \A i \in Len(head) + 1 .. Len(head) + Len(w) : R[i] = w[i - Len(head)]
  BY <1>1, Joined, Zenon
<1>3. Len(head) \in Nat /\ Len(w) \in Nat
  BY <1>1
<1> HIDE DEF R
<1>4. ASSUME NEW i \in 1 .. Len(w) PROVE R[i + Len(head)] = w[i]
  <2>1. i + Len(head) \in Len(head) + 1 .. Len(head) + Len(w) /\ (i + Len(head)) - Len(head) = i
    BY <1>3
  <2>2. R[i + Len(head)] = w[(i + Len(head)) - Len(head)]
    BY <2>1, <1>2
  <2> QED BY <2>1, <2>2
<1>5. \A i \in 1 .. Len(R) : R[i] \in T
  BY <1>2, SeqElements, Zenon
<1> QED BY <1>2, <1>3, <1>4, <1>5 DEF R, T

(* A TCP buffer with room for a frame and a chunk does not overflow.       *)
LEMMA NoOverflow ==
  ASSUME NEW l \in Lines, l.reader = "tcp", NEW s \in Seq(l.packets), s # <<>>, NEW w, NEW dl, NEW bf, NEW fl,
         NEW head, NEW at, NEW m, Good(l, s, w, {}, dl, bf, fl, head, at, m), RoomyOn(l),
         NEW n \in 1 .. READ_CHUNK, \A i \in 2 .. Len(head) : head[i].byte # Flag(l)
  PROVE  Len(head) + n <= l.capacity
<1> DEFINE R == head \o w
<1>1. /\ Len(head) \in Nat /\ Len(w) \in Nat /\ Len(R) = Len(head) + Len(w)
      /\ \A i \in 1 .. Len(head) : R[i] = head[i]
      /\ \A i \in 1 .. Len(R) : R[i] \in Tagged(l, s)
  BY Whole
<1>2. Stream(l, s, {}, m, R) /\ R # <<>> /\ R[1].byte = Flag(l)
  BY DEF Good, InPlace
<1>3. l.capacity \in Nat /\ READ_CHUNK \in Nat
  BY FramingAssumption
<1>4. ASSUME NEW k \in 1 .. Len(s)
      PROVE  Len(FrameOf(l, s[k])) \in Nat /\ Len(FrameOf(l, s[k])) >= 3
             /\ Len(FrameOf(l, s[k])) - 1 + READ_CHUNK <= l.capacity
  <2>1. s[k] \in l.packets
    OBVIOUS
  <2> QED BY <2>1, FrameFacts DEF RoomyOn
<1> HIDE DEF R
<1>5. CASE Len(head) <= 1
  <2>1. 1 \in 1 .. Len(s)
    OBVIOUS
  <2> DEFINE z == Len(FrameOf(l, s[1]))
  <2>2. z \in Nat /\ z >= 3 /\ z - 1 + READ_CHUNK <= l.capacity
    BY <1>4, <2>1
  <2> HIDE DEF z
  <2> QED BY <1>1, <1>3, <1>5, <2>2
<1>6. CASE ~(Len(head) <= 1)
  <2>1. 2 \in 1 .. Len(R) /\ 2 \in 2 .. Len(head) /\ 2 \in 1 .. Len(head) /\ 1 \in 1 .. Len(R)
    BY <1>1, <1>6
  <2>2. PICK e \in 2 .. Len(R) : R[e].byte = Flag(l)
    BY <1>2, <2>1 DEF Stream, Closed
  <2>3. PICK b \in Nat : 1 < b /\ b <= e /\ R[b].byte = Flag(l) /\ \A i \in 1 + 1 .. b - 1 : R[i].byte # Flag(l)
    <3>1. e \in Nat /\ 1 < e /\ 1 \in Nat
      BY <1>1
    <3>2. \E b \in Nat : NextTo(l, R, 1, b) /\ b <= e
      BY <2>2, <3>1, NextFlag, Zenon
    <3> QED BY <3>2 DEF NextTo
  <2>4. b > Len(head)
    <3>1. \A i \in 2 .. Len(head) : R[i].byte # Flag(l)
      BY <1>1
    <3> QED BY <1>1, <2>3, <3>1
  <2>5. Chunk(l, R, 1, b) /\ b \in 1 .. Len(R) /\ 2 < b
    BY <1>1, <1>2, <1>6, <2>1, <2>3, <2>4 DEF Chunk
  <2>6. R[2].of \in 1 .. Len(s)
    BY <1>1, <2>1 DEF Tagged
  <2>7. Spells(R, 1, b, FrameOf(l, s[R[2].of]))
    BY <1>2, <2>1, <2>5 DEF Stream, Clean
  <2>8. Len(FrameOf(l, s[R[2].of])) = b - 1 + 1
    BY <2>7 DEF Spells
  <2>9. Len(FrameOf(l, s[R[2].of])) - 1 + READ_CHUNK <= l.capacity
    BY <1>4, <2>6
  <2> DEFINE z == Len(FrameOf(l, s[R[2].of]))
  <2>10. z = b - 1 + 1 /\ z - 1 + READ_CHUNK <= l.capacity
    BY <2>8, <2>9
  <2> HIDE DEF z
  <2> QED BY <1>1, <1>3, <2>3, <2>4, <2>10
<1> QED BY <1>5, <1>6

(* What recv_packet keeps of the buffer: from the one flag on, or all.     *)
LEMMA Kept ==
  ASSUME NEW B, buffer \in Seq(B), Cardinality(Flags) < 2
  PROVE  \E j \in 1 .. Len(buffer) + 1 :
           /\ (IF Flags = {} THEN buffer ELSE SubSeq(buffer, CHOOSE i \in Flags : TRUE, Len(buffer)))
                = SubSeq(buffer, j, Len(buffer))
           /\ \A i \in 1 .. Len(buffer) : i # j => buffer[i] # "FLAG"
           /\ 1 \in Flags => j = 1
           /\ Len(buffer) = 0 => j = 1
<1>1. Len(buffer) \in Nat /\ Flags \subseteq 1 .. Len(buffer)
  BY DEF Flags
<1>2. \A i, j \in Flags : i = j
  BY <1>1, FewFlags
<1>3. CASE Flags = {}
  <2>1. buffer = SubSeq(buffer, 1, Len(buffer)) /\ 1 \in 1 .. Len(buffer) + 1
    BY <1>1
  <2> QED BY <1>3, <2>1 DEF Flags
<1>4. CASE Flags # {}
  <2> DEFINE j == CHOOSE i \in Flags : TRUE
  <2>1. j \in Flags
    BY <1>4, Zenon
  <2> HIDE DEF j
  <2>2. j \in 1 .. Len(buffer) + 1 /\ Len(buffer) # 0
    BY <1>1, <2>1
  <2>3. \A i \in 1 .. Len(buffer) : i # j => buffer[i] # "FLAG"
    BY <1>2, <2>1 DEF Flags
  <2>4. 1 \in Flags => j = 1
    BY <1>2, <2>1
  <2>5. (IF Flags = {} THEN buffer ELSE SubSeq(buffer, CHOOSE i \in Flags : TRUE, Len(buffer)))
          = SubSeq(buffer, j, Len(buffer))
    BY <1>4 DEF j
  <2> QED BY <2>2, <2>3, <2>4, <2>5
<1> QED BY <1>3, <1>4

LEMMA ReadChunkGood ==
  ASSUME TypeOK, NEW n \in 1 .. READ_CHUNK, read_chunk(n), NEW head, NEW at, NEW m,
         Good(line, sent, wire, hit, delivered, buffer, flags, head, at, m)
  PROVE  \E head2 : Good(line, sent, wire', hit, delivered, buffer', flags, head2, at, m)
<1> DEFINE l == line
           s == sent
           T == Tagged(line, sent)
           B == Bytes(line.reader)
           R == head \o wire
           w2 == SubSeq(wire, n + 1, Len(wire))
           t == [i \in 1 .. n |-> wire[i].byte]
           kept0 == IF Flags = {} THEN buffer ELSE SubSeq(buffer, CHOOSE i \in Flags : TRUE, Len(buffer))
<1>1. /\ line \in Lines /\ line.reader = "tcp" /\ s \in Seq(line.packets) /\ buffer \in Seq(B) /\ Len(buffer) \in Nat
      /\ n \in Nat /\ n \in 0 .. Len(wire) /\ Cardinality(Flags) < 2 /\ wire' = w2 /\ line.capacity \in Nat
      /\ Flag(l) = "FLAG"
  <2>1. line \in Lines /\ s \in Seq(line.packets) /\ buffer \in Seq(B) /\ Len(buffer) \in Nat
    BY DEF TypeOK
  <2>2. line.reader = "tcp" /\ n <= Len(wire) /\ Cardinality(Flags) < 2 /\ wire' = w2
    BY DEF read_chunk, recv_packet
  <2>3. wire \in Seq(T)
    BY DEF Good
  <2>4. n \in Nat /\ n \in 0 .. Len(wire)
    <3> HIDE DEF T
    <3> QED BY <2>2, <2>3, FramingAssumption
  <2> QED BY <2>1, <2>2, <2>4, LineFacts
<1>2. /\ Len(head) \in Nat /\ Len(wire) \in Nat /\ Len(R) = Len(head) + Len(wire)
      /\ \A i \in 1 .. Len(head) : R[i] = head[i]
      /\ \A i \in 1 .. Len(wire) : R[i + Len(head)] = wire[i]
  BY Whole
<1>3. /\ head \in Seq(T) /\ wire \in Seq(T) /\ m \in 0 .. Len(s)
      /\ Counted(l, s, hit, delivered, at, m) /\ InPlace(l, s, R) /\ Mirrors(buffer, head) /\ hit = {}
  BY <1>1 DEF Good, Holds
<1>4. Len(head) = Len(buffer) /\ \A i \in 1 .. Len(buffer) : head[i].byte = buffer[i]
  BY <1>3 DEF Mirrors
<1>5. PICK j \in 1 .. Len(buffer) + 1 :
        /\ kept0 = SubSeq(buffer, j, Len(buffer))
        /\ \A i \in 1 .. Len(buffer) : i # j => buffer[i] # "FLAG"
        /\ 1 \in Flags => j = 1
        /\ Len(buffer) = 0 => j = 1
  BY <1>1, Kept
<1> DEFINE kept == SubSeq(buffer, j, Len(buffer))
           grown == kept \o t
           c == j - 1
<1>6. buffer' = IF Len(kept0 \o t) > line.capacity THEN <<>> ELSE kept0 \o t
  BY DEF read_chunk, recv_packet
<1>7. buffer' = IF Len(grown) > line.capacity THEN <<>> ELSE grown
  BY <1>5, <1>6
<1> HIDE DEF kept0
<1>8. kept \in Seq(B) /\ Len(kept) = Len(buffer) - c /\ \A i \in 1 .. Len(kept) : kept[i] = buffer[i + c]
  <2> DEFINE e == Len(buffer)
  <2>1. c \in Nat /\ e \in Nat /\ c <= e /\ e <= Len(buffer) /\ c + 1 = j
    BY <1>1
  <2>2. buffer \in Seq(B)
    BY <1>1
  <2> HIDE DEF B, c, e
  <2>3. SubSeq(buffer, c + 1, e) \in Seq(B) /\ Len(SubSeq(buffer, c + 1, e)) = e - c
        /\ \A i \in 1 .. e - c : SubSeq(buffer, c + 1, e)[i] = buffer[i + c]
    BY <2>1, <2>2, Slice
  <2>4. kept = SubSeq(buffer, c + 1, e)
    BY <2>1 DEF e
  <2> HIDE DEF kept
  <2> QED BY <2>3, <2>4 DEF e
<1>9. t \in Seq(B) /\ Len(t) = n /\ \A i \in 1 .. n : t[i] = wire[i].byte
  <2>1. \A i \in 1 .. n : wire[i] \in T
    <3> HIDE DEF T
    <3>1. \A i \in 1 .. Len(wire) : wire[i] \in T
      BY <1>3, SeqElements, Zenon
    <3> QED BY <1>1, <3>1
  <2>2. \A i \in 1 .. n : wire[i].byte \in B
    BY <2>1 DEF Tagged
  <2> HIDE DEF B
  <2>3. t \in [1 .. n -> B] /\ \A i \in 1 .. n : t[i] = wire[i].byte
    BY <2>2
  <2> HIDE DEF t
  <2> QED BY <1>1, <2>3, FunctionSeq
<1> HIDE DEF kept, t
<1>10. /\ grown \in Seq(B) /\ Len(grown) = Len(kept) + n /\ \A i \in 1 .. Len(kept) : grown[i] = kept[i]
       /\ \A i \in Len(kept) + 1 .. Len(kept) + n : grown[i] = t[i - Len(kept)]
  <2> HIDE DEF B
  <2>1. /\ kept \o t \in Seq(B) /\ Len(kept \o t) = Len(kept) + Len(t)
        /\ \A i \in 1 .. Len(kept) : (kept \o t)[i] = kept[i]
        /\ \A i \in Len(kept) + 1 .. Len(kept) + Len(t) : (kept \o t)[i] = t[i - Len(kept)]
    BY <1>8, <1>9, Joined, Zenon
  <2> QED BY <1>9, <2>1
<1> HIDE DEF grown, R, w2
<1>11. Len(grown) = Len(head) + n - c /\ c \in 0 .. Len(head)
  BY <1>1, <1>2, <1>4, <1>8, <1>10
<1>12. l.reader = "tcp" /\ RoomyOn(l) /\ s # <<>> => j = 1
  <2> SUFFICES ASSUME l.reader = "tcp", RoomyOn(l), s # <<>>, Len(buffer) # 0 PROVE 1 \in Flags
    BY <1>5
  <2>1. R[1].byte = "FLAG"
    BY <1>1, <1>3 DEF InPlace
  <2>2. 1 \in 1 .. Len(buffer)
    BY <1>1
  <2> QED BY <1>2, <1>4, <2>1, <2>2 DEF Flags
<1>13. \A i \in 1 .. Len(head) : i # j => head[i].byte # Flag(l) /\ R[i].byte # Flag(l)
  BY <1>1, <1>2, <1>4, <1>5
<1>14. CASE Len(grown) <= l.capacity
  <2>1. c \in 0 .. Len(head) + n
    BY <1>1, <1>2, <1>11
  <2>2. PICK head2 : Regrouped(T, head, wire, n, c, head2, w2)
    BY <1>1, <1>3, <2>1, Regroup DEF w2
  <2>3. Len(head2) = Len(head) + n - c /\ \A i \in 1 .. Len(head2) : head2[i] = R[i + c]
    BY <2>2 DEF Regrouped, R
  <2>4. buffer' = grown
    BY <1>1, <1>2, <1>7, <1>11, <1>14, SMTT(30)
  <2>5. Mirrors(buffer', head2)
    <3>1. ASSUME NEW i \in 1 .. Len(grown) PROVE head2[i].byte = grown[i]
      <4>1. i \in 1 .. Len(head2) /\ head2[i] = R[i + c]
        BY <1>11, <2>3
      <4>2. CASE i \in 1 .. Len(kept)
        <5>1. i + c \in 1 .. Len(buffer) /\ i + c \in 1 .. Len(head)
          BY <4>2, <1>1, <1>4, <1>8, <1>11
        <5>2. grown[i] = buffer[i + c]
          BY <4>2, <1>8, <1>10
        <5>3. R[i + c].byte = buffer[i + c]
          <6> HIDE DEF c
          <6> QED BY <5>1, <1>2, <1>4
        <5> QED BY <4>1, <5>2, <5>3
      <4>3. CASE i \notin 1 .. Len(kept)
        <5> DEFINE q == i - Len(kept)
        <5>1. q \in 1 .. n /\ q \in 1 .. Len(wire) /\ i + c = q + Len(head) /\ i \in Len(kept) + 1 .. Len(kept) + n
          BY <4>3, <1>1, <1>2, <1>4, <1>8, <1>10, <1>11, SMTT(30)
        <5>2. grown[i] = t[q]
          BY <5>1, <1>10
        <5> HIDE DEF q
        <5>3. R[q + Len(head)] = wire[q] /\ t[q] = wire[q].byte
          BY <5>1, <1>2, <1>9
        <5> QED BY <4>1, <5>1, <5>2, <5>3
      <4> QED BY <4>2, <4>3
    <3> QED BY <1>11, <2>3, <2>4, <3>1 DEF Mirrors
  <2>6. Holds(l, buffer', flags, head2)
    BY <1>1, <2>5 DEF Holds
  <2>7. ASSUME NEW a \in 1 .. Len(R), Chunk(l, R, a, a) \/ R[a].byte = Flag(l), a <= c PROVE FALSE
    <3>1. a \in 1 .. Len(head) /\ a # j
      BY <1>1, <1>2, <1>11, <2>7, SMTT(30)
    <3> QED BY <3>1, <1>13, <2>7 DEF Chunk
  <2>8. \A a, b, i \in 1 .. Len(R) :
          (Chunk(l, R, a, b) /\ a <= c /\ a < i /\ i < b /\ R[i].of \in Due(l, s, hit)) => R[i].of \in Done(at)
    BY <2>7 DEF Chunk
  <2>9. InPlace(l, s, head2 \o w2)
    <3> SUFFICES ASSUME l.reader = "tcp", RoomyOn(l), s # <<>>
                 PROVE  head2 \o w2 # <<>> /\ (head2 \o w2)[1].byte = Flag(l)
      BY DEF InPlace
    <3>1. c = 0 /\ R # <<>> /\ R[1].byte = Flag(l) /\ R \in Seq(T)
      <4>1. R \in Seq(T)
        BY Whole DEF R
      <4> QED BY <1>3, <1>12, <4>1 DEF InPlace
    <3> DEFINE R2 == head2 \o w2
    <3>2. R2 \in Seq(T) /\ Len(R2) = Len(R) - c /\ \A i \in 1 .. Len(R2) : R2[i] = R[i + c]
      BY <2>2 DEF Regrouped, R
    <3> HIDE DEF R2, T, c
    <3>3. 1 \in 1 .. Len(R)
      BY <3>1, <1>2
    <3>4. 1 \in 1 .. Len(R2) /\ R2[1] = R[1]
      BY <3>1, <3>2, <3>3
    <3>5. R2 # <<>>
      BY <3>4
    <3> QED BY <3>1, <3>4, <3>5 DEF R2
  <2>10. Good(l, s, w2, hit, delivered, buffer', flags, head2, at, m)
    BY <1>3, <2>2, <2>6, <2>8, <2>9, Advance DEF R
  <2> QED BY <1>1, <2>10
<1>15. CASE ~(Len(grown) <= l.capacity)
  <2>1. ~(RoomyOn(l) /\ s # <<>>)
    <3> SUFFICES ASSUME RoomyOn(l), s # <<>> PROVE FALSE
      OBVIOUS
    <3>1. j = 1 /\ \A i \in 2 .. Len(head) : head[i].byte # Flag(l)
      BY <1>1, <1>2, <1>12, <1>13
    <3>2. Len(head) + n <= l.capacity
      BY <1>1, <1>3, <3>1, NoOverflow
    <3> QED BY <1>2, <1>11, <1>15, <3>1, <3>2
  <2>2. Due(l, s, hit) = {}
    BY <1>1, <2>1 DEF Due
  <2>3. Len(head) + n \in 0 .. Len(head) + n
    BY <1>1, <1>2
  <2> DEFINE d == Len(head) + n
  <2>4. PICK head2 : Regrouped(T, head, wire, n, d, head2, w2)
    BY <1>1, <1>3, <2>3, Regroup DEF w2
  <2>5. Len(head2) = Len(head) + n - d /\ head2 \in Seq(T)
    BY <2>4 DEF Regrouped
  <2>6. buffer' = <<>> /\ Len(head2) = 0
    BY <1>1, <1>2, <1>7, <1>11, <1>15, <2>5
  <2>7. Holds(l, buffer', flags, head2)
    BY <1>1, <2>6 DEF Holds, Mirrors
  <2>8. InPlace(l, s, head2 \o w2)
    BY <2>1 DEF InPlace
  <2> HIDE DEF d
  <2>9. \A a, b, i \in 1 .. Len(R) :
          (Chunk(l, R, a, b) /\ a <= d /\ a < i /\ i < b /\ R[i].of \in Due(l, s, hit)) => R[i].of \in Done(at)
    BY <2>2
  <2>10. Good(l, s, w2, hit, delivered, buffer', flags, head2, at, m)
    BY <1>3, <2>4, <2>7, <2>8, <2>9, Advance DEF R
  <2> QED BY <1>1, <2>10
<1> QED BY <1>14, <1>15

LEMMA SameSeq ==
  ASSUME NEW S, NEW u \in Seq(S), NEW v \in Seq(S), Len(u) = Len(v), \A i \in 1 .. Len(u) : u[i] = v[i]
  PROVE  u = v
  OBVIOUS

(* Handing on what was decoded: nothing or one packet.                     *)
LEMMA HandOn ==
  ASSUME NEW S, NEW d \in Seq(S)
  PROVE  d \o SetToSeq({}) = d /\ \A y \in S : d \o SetToSeq({y}) = Append(d, y)
<1>1. d \o <<>> = d /\ \A y \in S : d \o <<y>> = Append(d, y)
  OBVIOUS
<1> QED BY <1>1, SetToSeqEmpty, SetToSeqSingle

(* The bytes from one flag to the next spell a frame.                      *)
Reads(R, a, b, bf) == \A i \in a .. b : R[i].byte = bf[i]

LEMMA SpelledFrame ==
  ASSUME NEW B, NEW bf \in Seq(B), NEW R, NEW a \in Nat, NEW b \in Nat, 1 <= a, a <= b, b <= Len(bf),
         Reads(R, a, b, bf), NEW f \in Seq(B), Spells(R, a, b, f)
  PROVE  SubSeq(bf, a, b) = f
<1> DEFINE c == a - 1
           g == SubSeq(bf, a, b)
<1>1. c \in Nat /\ c <= b /\ c + 1 = a
  OBVIOUS
<1> HIDE DEF c
<1>2. SubSeq(bf, c + 1, b) \in Seq(B) /\ Len(SubSeq(bf, c + 1, b)) = b - c
      /\ \A i \in 1 .. b - c : SubSeq(bf, c + 1, b)[i] = bf[i + c]
  BY <1>1, Slice
<1>3. g \in Seq(B) /\ Len(g) = b - c /\ \A i \in 1 .. b - c : g[i] = bf[i + c]
  BY <1>1, <1>2
<1> HIDE DEF g
<1>4. Len(f) = b - a + 1 /\ \A i \in a .. b : R[i].byte = f[i - a + 1]
  BY DEF Spells
<1>5. Len(f) = b - c
  BY <1>1, <1>4
<1>6. ASSUME NEW i \in 1 .. b - c PROVE g[i] = f[i]
  <2> DEFINE q == i + c
  <2>1. q \in a .. b /\ q - a + 1 = i
    <3>1. i \in Nat /\ 1 <= i /\ i <= b - c /\ q \in Nat
      BY <1>1
    <3>2. q = i + c
      OBVIOUS
    <3> HIDE DEF q
    <3> QED BY <1>1, <3>1, <3>2
  <2>2. g[i] = bf[q]
    BY <1>3
  <2> HIDE DEF q
  <2>3. R[q].byte = bf[q] /\ R[q].byte = f[q - a + 1]
    BY <2>1, <1>4 DEF Reads
  <2> QED BY <2>1, <2>2, <2>3
<1>7. g = f
  <2>1. Len(g) = Len(f) /\ \A i \in 1 .. Len(g) : g[i] = f[i]
    BY <1>3, <1>5, <1>6
  <2> QED BY <1>3, <2>1, SameSeq, Zenon
<1> QED BY <1>7 DEF g

(* The packet the account has not reached yet, if a byte of it is held.    *)
Numbered(s, m, k) == k \in Nat /\ k \in 0 .. Len(s) /\ k \in 1 .. Len(s) /\ m < k /\ m \in Nat

LEMMA NextNumber ==
  ASSUME NEW l, NEW s, NEW h, NEW m, m \in 0 .. Len(s), NEW R, Stream(l, s, h, m, R), NEW i \in 1 .. Len(R),
         R[i].byte # Flag(l)
  PROVE  Numbered(s, m, R[i].of)
<1>1. R[i] \in Tagged(l, s)
  BY SeqElements, Zenon DEF Stream
<1>2. R[i].of \in 1 .. Len(s)
  BY <1>1 DEF Tagged
<1>3. m < R[i].of
  BY DEF Stream, Later
<1> QED BY <1>2, <1>3 DEF Numbered

LEMMA TakePacketGood ==
  ASSUME TypeOK, take_packet, NEW head, NEW at, NEW m,
         Good(line, sent, wire, hit, delivered, buffer, flags, head, at, m)
  PROVE  \E head2, at2, m2 : Good(line, sent, wire, hit, delivered', buffer', flags, head2, at2, m2)
<1> DEFINE l == line
           s == sent
           T == Tagged(line, sent)
           R == head \o wire
           SB == Seq(HdlcByte)
<1>1. /\ line \in Lines /\ line.reader = "tcp" /\ s \in Seq(line.packets) /\ Len(buffer) \in Nat
      /\ buffer \in Seq(HdlcByte) /\ delivered \in Seq(SB) /\ Flag(l) = "FLAG" /\ Bytes(line.reader) = HdlcByte
  BY LineFacts DEF TypeOK, take_packet
<1>2. PICK start \in Flags, end \in Flags :
        /\ start < end
        /\ \A i \in Flags : i = start \/ end <= i
        /\ buffer' = Rest(end)
        /\ delivered' = delivered \o SetToSeq(IF end = start + 1 THEN {} ELSE hdlc_deframe(SubSeq(buffer, start, end)))
  BY DEF take_packet
<1>3. /\ Len(head) \in Nat /\ Len(wire) \in Nat /\ Len(R) = Len(head) + Len(wire)
      /\ \A i \in 1 .. Len(head) : R[i] = head[i]
  BY Whole
<1>4. /\ head \in Seq(T) /\ wire \in Seq(T) /\ m \in 0 .. Len(s)
      /\ Counted(l, s, hit, delivered, at, m) /\ Mirrors(buffer, head) /\ hit = {} /\ Stream(l, s, hit, m, R)
  BY <1>1 DEF Good, Holds
<1> HIDE DEF R, SB, T
<1>5. Len(head) = Len(buffer) /\ \A i \in 1 .. Len(head) : R[i].byte = buffer[i]
  BY <1>3, <1>4 DEF Mirrors
<1>6. start \in 1 .. Len(head) /\ end \in 1 .. Len(head) /\ \A i \in 1 .. Len(head) : i \in Flags <=> R[i].byte = Flag(l)
  BY <1>1, <1>5 DEF Flags
<1>7. Chunk(l, R, start, end)
  <2>1. ASSUME NEW i \in start + 1 .. end - 1 PROVE R[i].byte # Flag(l)
    <3>1. i \in 1 .. Len(head) /\ ~(i = start \/ end <= i)
      BY <1>3, <1>6
    <3> QED BY <1>2, <1>6, <3>1
  <2>2. start \in 1 .. Len(R) /\ end \in 1 .. Len(R) /\ start < end
    BY <1>2, <1>3, <1>6
  <2> QED BY <1>6, <2>1, <2>2 DEF Chunk
<1>8. ASSUME NEW a \in 1 .. Len(R), NEW b \in 1 .. Len(R), Chunk(l, R, a, b), a <= end - 1 PROVE a = start /\ b = end
  <2>1. a < b /\ R[a].byte = Flag(l) /\ R[b].byte = Flag(l) /\ R[end].byte = Flag(l)
        /\ \A i \in a + 1 .. b - 1 : R[i].byte # Flag(l)
    BY <1>7, <1>8 DEF Chunk
  <2>2. a = start
    <3>1. a \in 1 .. Len(head) /\ ~(end <= a)
      BY <1>3, <1>6, <1>8
    <3> QED BY <1>2, <1>6, <2>1, <3>1
  <2>3. b <= end
    <3> SUFFICES ASSUME ~(b <= end) PROVE FALSE
      OBVIOUS
    <3>1. end \in a + 1 .. b - 1
      BY <1>2, <1>3, <1>6, <2>2
    <3> QED BY <2>1, <3>1
  <2>4. end <= b
    <3>1. b \in 1 .. Len(head) /\ b # start
      BY <1>3, <1>6, <2>1, <2>2, <2>3
    <3> QED BY <1>2, <1>6, <2>1, <3>1
  <2> QED BY <1>3, <1>6, <2>2, <2>3, <2>4
<1> DEFINE c == end - 1
<1>9. PICK head2 : Regrouped(T, head, wire, 0, c, head2, wire)
  <2>1. SubSeq(wire, 0 + 1, Len(wire)) = wire /\ 0 \in 0 .. Len(wire) /\ c \in 0 .. Len(head) + 0
    BY <1>3, <1>4, <1>6
  <2>2. \E head2 : Regrouped(T, head, wire, 0, c, head2, SubSeq(wire, 0 + 1, Len(wire)))
    BY <1>4, <2>1, Regroup, Zenon
  <2> QED BY <2>1, <2>2
<1> DEFINE R2 == head2 \o wire
<1>10. /\ Len(head2) = Len(head) - c /\ \A i \in 1 .. Len(head2) : head2[i] = R[i + c]
       /\ R2 \in Seq(T) /\ Len(R2) = Len(R) - c /\ \A i \in 1 .. Len(R2) : R2[i] = R[i + c]
  <2>1. /\ Len(head2) = Len(head) + 0 - c /\ \A i \in 1 .. Len(head2) : head2[i] = R[i + c]
        /\ R2 \in Seq(T) /\ Len(R2) = Len(R) - c /\ \A i \in 1 .. Len(R2) : R2[i] = R[i + c]
    BY <1>9 DEF Regrouped, R
  <2>2. Len(head) + 0 - c = Len(head) - c
    BY <1>3, <1>6
  <2> HIDE DEF R2, c
  <2> QED BY <2>1, <2>2
<1> HIDE DEF R2
<1>11. Holds(l, buffer', flags, head2)
  <2>1. c \in Nat /\ c <= Len(buffer) /\ c + 1 = end /\ Len(buffer) \in Nat
    BY <1>1, <1>5, <1>6
  <2> DEFINE e == Len(buffer)
  <2> HIDE DEF c, e
  <2>2. SubSeq(buffer, c + 1, e) \in Seq(HdlcByte) /\ Len(SubSeq(buffer, c + 1, e)) = e - c
        /\ \A i \in 1 .. e - c : SubSeq(buffer, c + 1, e)[i] = buffer[i + c]
    BY <1>1, <2>1, Slice DEF e
  <2>3. buffer' = SubSeq(buffer, c + 1, e)
    BY <1>2, <2>1 DEF Rest, e
  <2>4. Len(buffer') = Len(head2) /\ \A i \in 1 .. Len(buffer') : buffer'[i] = buffer[i + c]
    BY <1>5, <1>10, <2>2, <2>3 DEF e
  <2>5. ASSUME NEW i \in 1 .. Len(buffer') PROVE head2[i].byte = buffer'[i]
    <3>1. i + c \in 1 .. Len(head)
      <4>1. Len(buffer') = Len(head) - c
        BY <1>10, <2>4
      <4> QED BY <1>3, <2>1, <4>1
    <3>2. head2[i] = R[i + c]
      BY <1>10, <2>4
    <3> QED BY <1>5, <2>4, <3>1, <3>2
  <2> QED BY <1>1, <2>4, <2>5 DEF Holds, Mirrors
<1>12. InPlace(l, s, R2)
  <2>1. 1 \in 1 .. Len(R2) /\ 1 + c = end
    BY <1>3, <1>6, <1>10
  <2>2. R2[1] = R[1 + c]
    BY <1>10, <2>1
  <2>3. R2[1].byte = Flag(l)
    BY <1>7, <2>1, <2>2 DEF Chunk
  <2>4. R2 # <<>>
    BY <2>1
  <2> QED BY <2>3, <2>4 DEF InPlace
<1>13. CASE end = start + 1
  <2>1. delivered' = delivered
    BY <1>1, <1>2, <1>13, HandOn
  <2>2. \A a, b, i \in 1 .. Len(R) :
          (Chunk(l, R, a, b) /\ a <= c /\ a < i /\ i < b /\ R[i].of \in Due(l, s, hit)) => R[i].of \in Done(at)
    <3>1. \A i \in 1 .. Len(R) : ~(start < i /\ i < end)
      BY <1>3, <1>6, <1>13
    <3> QED BY <1>8, <3>1
  <2> HIDE DEF c
  <2>3. Good(l, s, wire, hit, delivered', buffer', flags, head2, at, m)
    BY <1>4, <1>9, <1>11, <1>12, <2>1, <2>2, Advance DEF R, R2, T
  <2> QED BY <2>3
<1>14. CASE end # start + 1
  <2> DEFINE k == R[start + 1].of
             p == s[k]
             f == FrameOf(l, p)
  <2>1. start + 1 \in 1 .. Len(R) /\ start + 1 \in start + 1 .. end - 1 /\ start + 1 < end /\ start < start + 1
        /\ start \in 1 .. Len(R) /\ end \in 1 .. Len(R)
    BY <1>2, <1>3, <1>6, <1>14
  <2>2. R[start + 1].byte # Flag(l)
    BY <1>7, <2>1 DEF Chunk
  <2>3. k \in Nat /\ k \in 0 .. Len(s) /\ k \in 1 .. Len(s) /\ m < k /\ m \in Nat
    <3>1. Numbered(s, m, R[start + 1].of)
      BY <1>4, <2>1, <2>2, NextNumber, Zenon
    <3> QED BY <3>1 DEF Numbered
  <2>4. Spells(R, start, end, f) /\ \A j \in start + 1 .. end : R[j].of = k
    BY <1>4, <1>7, <2>1 DEF Stream, Clean
  <2>5. p \in line.packets /\ p \in Seq(HdlcByte) /\ f \in Seq(HdlcByte) /\ f = hdlc_frame(p)
    <3>1. p \in line.packets
      BY <1>1, <2>3
    <3> QED BY <1>1, <3>1, FrameFacts DEF FrameOf
  <2>6. hdlc_deframe(f) = {p}
    BY <2>5, RoundTrip
  <2> HIDE DEF k, p, f
  <2>7. SubSeq(buffer, start, end) = f
    <3>1. start \in Nat /\ end \in Nat /\ 1 <= start /\ start <= end /\ end <= Len(buffer)
      BY <1>2, <1>5, <1>6
    <3>2. Reads(R, start, end, buffer)
      BY <1>5, <1>6, <3>1 DEF Reads
    <3>3. buffer \in Seq(HdlcByte) /\ f \in Seq(HdlcByte) /\ Spells(R, start, end, f)
      BY <1>1, <2>4, <2>5
    <3> QED BY <3>1, <3>2, <3>3, SpelledFrame, ZenonT(60)
  <2>8. delivered' = Append(delivered, p)
    <3>1. delivered' = delivered \o SetToSeq({p})
      BY <1>2, <1>14, <2>6, <2>7
    <3>2. p \in SB
      BY <2>5 DEF SB
    <3> QED BY <1>1, <3>1, <3>2, HandOn
  <2>9. PICK at2 : Counted(l, s, hit, Append(delivered, p), at2, k) /\ Done(at2) = Done(at) \cup {k}
    <3>1. p = s[k] /\ FitsOn(l, s[k]) /\ p \in SB
      BY <1>1, <2>5 DEF p, FitsOn, SB
    <3>2. Rightly(l, s, hit, k, p)
      BY <3>1 DEF Rightly
    <3>3. \E at2 : Recounted(l, s, hit, Append(delivered, p), at, k, at2)
      BY <1>1, <1>4, <2>3, <3>1, <3>2, CountAppend, Zenon
    <3> QED BY <3>3 DEF Recounted
  <2>10. Later(l, k, R2)
    <3>1. Later(l, R[start + 1].of, R2)
      <4>1. R2 \in Seq(Tagged(l, s)) /\ Len(R2) = Len(R) - (end - 1) /\ \A i \in 1 .. Len(R2) : R2[i] = R[i + (end - 1)]
        BY <1>10 DEF T
      <4> QED BY <1>4, <1>7, <2>1, <4>1, LaterAfter
    <3> QED BY <3>1 DEF k
  <2>11. \A a, b, i \in 1 .. Len(R) :
           (Chunk(l, R, a, b) /\ a <= c /\ a < i /\ i < b /\ R[i].of \in Due(l, s, hit)) => R[i].of \in Done(at2)
    <3> SUFFICES ASSUME NEW a \in 1 .. Len(R), NEW b \in 1 .. Len(R), NEW i \in 1 .. Len(R),
                        Chunk(l, R, a, b), a <= c, a < i, i < b
                 PROVE  R[i].of = k
      BY <2>9
    <3>1. a = start /\ b = end
      BY <1>8
    <3>2. i \in start + 1 .. end
      BY <1>3, <1>6, <3>1
    <3> QED BY <2>4, <3>2
  <2> HIDE DEF c
  <2>12. Counted(l, s, hit, delivered', at2, k) /\ Done(at) \subseteq Done(at2)
    BY <2>8, <2>9
  <2>13. Good(l, s, wire, hit, delivered', buffer', flags, head2, at2, k)
    BY <1>4, <1>9, <1>11, <1>12, <2>3, <2>10, <2>11, <2>12, Advance DEF R, R2, T
  <2> QED BY <2>13
<1> QED BY <1>13, <1>14

---------------------------------------------------------------------------
(* The readers of a serial line.                                           *)

(* What a reader does at a flag: it hands nothing on, and then nothing     *)
(* that is due was held, or it hands on y.                                 *)
Passes(l, s, h, head, dl, dl2) == dl2 = dl /\ \A i \in 2 .. Len(head) : head[i].of \notin Due(l, s, h)
Hands(l, s, h, S, head, dl, dl2) ==
  Len(head) >= 2 /\ \E y \in S : dl2 = Append(dl, y) /\ Rightly(l, s, h, head[2].of, y)

(* The one frame that is complete when a flag arrives.                     *)
LEMMA EndChunk ==
  ASSUME NEW l, NEW R, Len(R) \in Nat, NEW n \in Nat, n + 1 <= Len(R), R[n + 1].byte = Flag(l),
         \A i \in 2 .. n : R[i].byte # Flag(l)
  PROVE  /\ \A a, b \in 1 .. Len(R) : Chunk(l, R, a, b) /\ a <= n => a = 1 /\ b = n + 1
         /\ n >= 1 /\ R[1].byte = Flag(l) => Chunk(l, R, 1, n + 1)
<1>1. ASSUME NEW a \in 1 .. Len(R), NEW b \in 1 .. Len(R), Chunk(l, R, a, b), a <= n PROVE a = 1 /\ b = n + 1
  <2>1. a < b /\ R[a].byte = Flag(l) /\ R[b].byte = Flag(l) /\ \A i \in a + 1 .. b - 1 : R[i].byte # Flag(l)
    BY <1>1 DEF Chunk
  <2>2. a = 1
    <3>1. a \notin 2 .. n
      BY <2>1
    <3> QED BY <1>1, <3>1
  <2>3. ~(b < n + 1)
    <3>1. b \notin 2 .. n
      BY <2>1
    <3> QED BY <2>1, <3>1
  <2>4. ~(n + 1 < b)
    <3>1. n + 1 \notin a + 1 .. b - 1
      BY <2>1
    <3> QED BY <1>1, <3>1
  <2> QED BY <2>2, <2>3, <2>4
<1>2. ASSUME n >= 1, R[1].byte = Flag(l) PROVE Chunk(l, R, 1, n + 1)
  <2>1. 1 \in 1 .. Len(R) /\ n + 1 \in 1 .. Len(R) /\ 1 < n + 1 /\ 1 + 1 .. (n + 1) - 1 = 2 .. n
    BY <1>2
  <2> QED BY <1>2, <2>1 DEF Chunk
<1> QED BY <1>1, <1>2

LEMMA EndGood ==
  ASSUME NEW l, NEW s, NEW w, NEW h, NEW S, NEW dl \in Seq(S), NEW bf, NEW fl, NEW head, NEW at, NEW m,
         Good(l, s, w, h, dl, bf, fl, head, at, m), l.reader # "tcp", w # <<>>, w[1].byte = "FEND",
         NEW dl2, NEW bf2, NEW fl2, Holds(l, bf2, fl2, <<w[1]>>),
         Passes(l, s, h, head, dl, dl2) \/ Hands(l, s, h, S, head, dl, dl2)
  PROVE  \E head2, at2, m2 : Good(l, s, Tail(w), h, dl2, bf2, fl2, head2, at2, m2)
<1> DEFINE T == Tagged(l, s)
           R == head \o w
           n == Len(head)
           w2 == SubSeq(w, 1 + 1, Len(w))
<1>1. /\ n \in Nat /\ Len(w) \in Nat /\ Len(R) = n + Len(w)
      /\ \A i \in 1 .. n : R[i] = head[i]
      /\ \A i \in 1 .. Len(w) : R[i + n] = w[i]
  BY Whole
<1>2. /\ head \in Seq(T) /\ w \in Seq(T) /\ m \in 0 .. Len(s) /\ Flag(l) = "FEND"
      /\ Counted(l, s, h, dl, at, m) /\ OneFlag(head) /\ Stream(l, s, h, m, R)
  BY DEF Good, Holds, Flag
<1> HIDE DEF R, T, n
<1>3. Len(w) >= 1 /\ 1 \in 1 .. Len(w) /\ Tail(w) = w2
  BY <1>1, <1>2
<1>4. R[n + 1] = w[1] /\ n + 1 <= Len(R) /\ Len(R) \in Nat
  <2>1. R[1 + n] = w[1]
    BY <1>1, <1>3
  <2> QED BY <1>1, <1>3, <2>1
<1>5. \A i \in 2 .. n : R[i].byte # Flag(l) /\ R[i] = head[i]
  <2>1. \A i \in 2 .. n : i \in 1 .. n
    BY <1>1
  <2>2. ASSUME NEW i \in 2 .. n PROVE head[i].byte # "FEND"
    <3>1. head # <<>>
      BY <2>2, <1>1 DEF n
    <3> QED BY <1>2, <3>1 DEF OneFlag, n
  <2> QED BY <1>1, <1>2, <2>1, <2>2
<1>6. n >= 1 => R[1].byte = Flag(l) /\ Chunk(l, R, 1, n + 1)
  <2> SUFFICES ASSUME n >= 1 PROVE R[1].byte = Flag(l) /\ Chunk(l, R, 1, n + 1)
    OBVIOUS
  <2>1. 1 \in 1 .. n /\ head # <<>>
    BY <1>1 DEF n
  <2>2. R[1].byte = Flag(l)
    BY <1>1, <1>2, <2>1 DEF OneFlag
  <2> QED BY <1>1, <1>2, <1>4, <1>5, <2>2, EndChunk
<1>7. \A a, b \in 1 .. Len(R) : Chunk(l, R, a, b) /\ a <= n => a = 1 /\ b = n + 1
  BY <1>1, <1>2, <1>4, <1>5, EndChunk
<1>8. PICK head2 : Regrouped(T, head, w, 1, n, head2, w2)
  <2>1. 1 \in 0 .. Len(w) /\ n \in 0 .. Len(head) + 1
    BY <1>1, <1>3 DEF n
  <2> QED BY <1>2, <2>1, Regroup, Zenon
<1> HIDE DEF w2
<1> DEFINE R2 == head2 \o w2
<1>9. /\ head2 \in Seq(T) /\ Len(head2) = n + 1 - n /\ \A i \in 1 .. Len(head2) : head2[i] = R[i + n]
      /\ R2 \in Seq(T) /\ Len(R2) = Len(R) - n /\ \A i \in 1 .. Len(R2) : R2[i] = R[i + n]
  BY <1>8 DEF Regrouped, R, n
<1> HIDE DEF R2
<1>10. head2 = <<w[1]>>
  <2>1. Len(head2) = 1 /\ head2[1] = w[1]
    BY <1>1, <1>3, <1>9
  <2> DEFINE u == <<w[1]>>
  <2>2. u \in Seq(T) /\ Len(u) = 1 /\ u[1] = w[1]
    BY <1>2, <1>3
  <2> HIDE DEF u
  <2>3. Len(head2) = Len(u) /\ \A i \in 1 .. Len(head2) : head2[i] = u[i]
    BY <2>1, <2>2
  <2>4. head2 = u
    BY <1>9, <2>2, <2>3, SameSeq, Zenon
  <2> QED BY <2>4 DEF u
<1>11. Holds(l, bf2, fl2, head2)
  BY <1>10
<1>12. InPlace(l, s, R2)
  BY DEF InPlace
<1>13. CASE Passes(l, s, h, head, dl, dl2)
  <2>1. \A a, b, i \in 1 .. Len(R) :
          (Chunk(l, R, a, b) /\ a <= n /\ a < i /\ i < b /\ R[i].of \in Due(l, s, h)) => R[i].of \in Done(at)
    <3> SUFFICES ASSUME NEW a \in 1 .. Len(R), NEW b \in 1 .. Len(R), NEW i \in 1 .. Len(R),
                        Chunk(l, R, a, b), a <= n, a < i, i < b
                 PROVE  R[i].of \notin Due(l, s, h)
      OBVIOUS
    <3>1. a = 1 /\ b = n + 1
      BY <1>7
    <3>2. i \in 2 .. n
      BY <1>1, <3>1
    <3> QED BY <1>5, <1>13, <3>2 DEF Passes, n
  <2>2. Good(l, s, w2, h, dl2, bf2, fl2, head2, at, m)
    BY <1>2, <1>8, <1>11, <1>12, <1>13, <2>1, Advance DEF R, R2, T, Passes
  <2> QED BY <1>3, <2>2
<1>14. CASE Hands(l, s, h, S, head, dl, dl2)
  <2> DEFINE k == R[2].of
  <2>1. PICK y \in S : dl2 = Append(dl, y) /\ Rightly(l, s, h, head[2].of, y)
    BY <1>14 DEF Hands
  <2>2. n >= 2 /\ 2 \in 2 .. n /\ 2 \in 1 .. Len(R) /\ 1 \in 1 .. Len(R) /\ n + 1 \in 1 .. Len(R)
    BY <1>1, <1>4, <1>14 DEF Hands, n
  <2>3. R[2].byte # Flag(l) /\ R[2] = head[2]
    BY <1>5, <2>2
  <2>4. Numbered(s, m, R[2].of)
    BY <1>2, <2>2, <2>3, NextNumber, Zenon
  <2>5. k \in Nat /\ k \in 0 .. Len(s) /\ m < k /\ m \in Nat
    BY <2>4 DEF Numbered
  <2>6. Rightly(l, s, h, k, y)
    BY <2>1, <2>3
  <2> HIDE DEF k
  <2>7. PICK at2 : Recounted(l, s, h, Append(dl, y), at, k, at2)
    BY <1>2, <2>5, <2>6, CountAppend, Zenon
  <2>8. Counted(l, s, h, dl2, at2, k) /\ Done(at2) = Done(at) \cup {k}
    BY <2>1, <2>7 DEF Recounted
  <2>9. Chunk(l, R, 1, n + 1) /\ 1 + 1 < n + 1 /\ 1 + 1 = 2
    BY <1>1, <1>6, <2>2
  <2>10. Later(l, k, R2)
    <3>1. Len(R2) = Len(R) - ((n + 1) - 1) /\ \A i \in 1 .. Len(R2) : R2[i] = R[i + ((n + 1) - 1)]
      BY <1>1, <1>9
    <3>2. R2 \in Seq(Tagged(l, s))
      BY <1>9 DEF T
    <3>3. Later(l, R[1 + 1].of, R2)
      BY <1>2, <2>9, <3>1, <3>2, LaterAfter
    <3> QED BY <2>9, <3>3 DEF k
  <2>11. \A a, b, i \in 1 .. Len(R) :
           (Chunk(l, R, a, b) /\ a <= n /\ a < i /\ i < b /\ R[i].of \in Due(l, s, h)) => R[i].of \in Done(at2)
    <3> SUFFICES ASSUME NEW a \in 1 .. Len(R), NEW b \in 1 .. Len(R), NEW i \in 1 .. Len(R),
                        Chunk(l, R, a, b), a <= n, a < i, i < b, R[i].of \in Due(l, s, h)
                 PROVE  R[i].of = k
      BY <2>8
    <3>1. a = 1 /\ b = n + 1
      BY <1>7
    <3>2. R[i].of \notin h
      BY DEF Due
    <3>3. \A j \in a + 1 .. b : R[j].of = R[i].of
      BY <1>2, <3>2 DEF Stream, Clean
    <3>4. 2 \in a + 1 .. b
      BY <1>1, <2>2, <3>1
    <3> QED BY <3>3, <3>4 DEF k
  <2>12. Counted(l, s, h, dl2, at2, k) /\ Done(at) \subseteq Done(at2) /\ k \in 0 .. Len(s)
    BY <2>5, <2>8
  <2>13. Good(l, s, w2, h, dl2, bf2, fl2, head2, at2, k)
    BY <1>8, <1>11, <1>12, <2>10, <2>11, <2>12, Advance DEF R, R2, T
  <2> QED BY <1>3, <2>13
<1> QED BY <1>13, <1>14

(* A byte is kept.                                                         *)
LEMMA StayGood ==
  ASSUME NEW l, NEW s, NEW w, NEW h, NEW dl, NEW bf, NEW fl, NEW head, NEW at, NEW m,
         Good(l, s, w, h, dl, bf, fl, head, at, m), l.reader # "tcp", w # <<>>,
         NEW bf2, NEW fl2, Holds(l, bf2, fl2, Append(head, w[1]))
  PROVE  \E head2, at2, m2 : Good(l, s, Tail(w), h, dl, bf2, fl2, head2, at2, m2)
<1> DEFINE T == Tagged(l, s)
           R == head \o w
           n == Len(head)
           w2 == SubSeq(w, 1 + 1, Len(w))
<1>1. /\ n \in Nat /\ Len(w) \in Nat /\ Len(R) = n + Len(w)
      /\ \A i \in 1 .. n : R[i] = head[i]
      /\ \A i \in 1 .. Len(w) : R[i + n] = w[i]
  BY Whole
<1>2. /\ head \in Seq(T) /\ w \in Seq(T) /\ m \in 0 .. Len(s) /\ Counted(l, s, h, dl, at, m)
  BY DEF Good
<1> HIDE DEF R, T, n
<1>3. Len(w) >= 1 /\ 1 \in 1 .. Len(w) /\ Tail(w) = w2
  BY <1>1, <1>2
<1>4. PICK head2 : Regrouped(T, head, w, 1, 0, head2, w2)
  <2>1. 1 \in 0 .. Len(w) /\ 0 \in 0 .. Len(head) + 1
    BY <1>1, <1>3 DEF n
  <2> QED BY <1>2, <2>1, Regroup, Zenon
<1> HIDE DEF w2
<1>5. head2 \in Seq(T) /\ Len(head2) = n + 1 - 0 /\ \A i \in 1 .. Len(head2) : head2[i] = R[i + 0]
  BY <1>4 DEF Regrouped, R, n
<1>6. head2 = Append(head, w[1])
  <2> DEFINE u == Append(head, w[1])
  <2>1. u \in Seq(T) /\ Len(u) = n + 1 /\ u[n + 1] = w[1] /\ \A i \in 1 .. n : u[i] = head[i]
    BY <1>1, <1>2, <1>3 DEF n
  <2> HIDE DEF u
  <2>2. R[1 + n] = w[1] /\ 1 + n = n + 1
    BY <1>1, <1>3
  <2>3. ASSUME NEW i \in 1 .. Len(head2) PROVE head2[i] = u[i]
    <3>1. head2[i] = R[i]
      BY <1>1, <1>5
    <3>2. CASE i \in 1 .. n
      BY <1>1, <2>1, <3>1, <3>2
    <3>3. CASE i \notin 1 .. n
      <4>1. i = n + 1
        BY <1>1, <1>5, <3>3
      <4> QED BY <2>1, <2>2, <3>1, <4>1
    <3> QED BY <3>2, <3>3
  <2>4. Len(head2) = Len(u)
    BY <1>1, <1>5, <2>1
  <2>5. head2 = u
    BY <1>5, <2>1, <2>3, <2>4, SameSeq, Zenon
  <2> QED BY <2>5 DEF u
<1>7. Holds(l, bf2, fl2, head2) /\ InPlace(l, s, head2 \o w2)
  BY <1>6 DEF InPlace
<1>8. \A a, b, i \in 1 .. Len(R) :
        (Chunk(l, R, a, b) /\ a <= 0 /\ a < i /\ i < b /\ R[i].of \in Due(l, s, h)) => R[i].of \in Done(at)
  <2>1. \A a \in 1 .. Len(R) : ~(a <= 0)
    BY <1>1
  <2> QED BY <2>1
<1>9. Good(l, s, w2, h, dl, bf2, fl2, head2, at, m)
  BY <1>2, <1>4, <1>7, <1>8, Advance DEF R, T
<1> QED BY <1>3, <1>9

(* A byte is dropped, and with it all that was held: at the start of the   *)
(* stream, or because the buffer of a serial reader is full.               *)
LEMMA ForgetGood ==
  ASSUME NEW l \in Lines, NEW s, NEW w, NEW h, NEW dl, NEW bf, NEW fl, NEW head, NEW at, NEW m,
         Good(l, s, w, h, dl, bf, fl, head, at, m), l.reader # "tcp", w # <<>>, w[1].byte # "FEND",
         NEW bf2, NEW fl2, Holds(l, bf2, fl2, <<>>),
         head = <<>> \/ (l.reader = "serial" /\ Len(head) >= l.capacity)
  PROVE  \E head2, at2, m2 : Good(l, s, Tail(w), h, dl, bf2, fl2, head2, at2, m2)
<1> DEFINE T == Tagged(l, s)
           R == head \o w
           n == Len(head)
           c == Len(head) + 1
           w2 == SubSeq(w, 1 + 1, Len(w))
<1>1. /\ n \in Nat /\ Len(w) \in Nat /\ Len(R) = n + Len(w)
      /\ \A i \in 1 .. n : R[i] = head[i]
      /\ \A i \in 1 .. Len(w) : R[i + n] = w[i]
  BY Whole
<1>2. /\ head \in Seq(T) /\ w \in Seq(T) /\ m \in 0 .. Len(s) /\ Counted(l, s, h, dl, at, m) /\ Flag(l) = "FEND"
      /\ OneFlag(head) /\ Stream(l, s, h, m, R)
  BY DEF Good, Holds, Flag
<1> HIDE DEF R, T
<1>3. Len(w) >= 1 /\ 1 \in 1 .. Len(w) /\ Tail(w) = w2
  BY <1>1, <1>2
<1>4. PICK head2 : Regrouped(T, head, w, 1, c, head2, w2)
  <2>1. 1 \in 0 .. Len(w) /\ c \in 0 .. Len(head) + 1
    BY <1>1, <1>3
  <2> QED BY <1>2, <2>1, Regroup, Zenon
<1> HIDE DEF w2
<1>5. head2 = <<>>
  <2>1. head2 \in Seq(T) /\ Len(head2) = Len(head) + 1 - c
    BY <1>4 DEF Regrouped
  <2>2. Len(head2) = 0
    BY <1>1, <2>1
  <2> QED BY <2>1, <2>2
<1>6. Holds(l, bf2, fl2, head2) /\ InPlace(l, s, head2 \o w2)
  BY <1>5 DEF InPlace
<1>7. \A i \in 2 .. c : R[i].byte # Flag(l)
  <2> SUFFICES ASSUME NEW i \in 2 .. c PROVE R[i].byte # Flag(l)
    OBVIOUS
  <2>1. CASE i <= n
    <3>1. i \in 1 .. n /\ i \in 2 .. Len(head) /\ head # <<>>
      BY <1>1, <2>1
    <3> QED BY <1>1, <1>2, <3>1 DEF OneFlag
  <2>2. CASE ~(i <= n)
    <3>1. i = 1 + n
      BY <1>1, <2>2
    <3> QED BY <1>1, <1>2, <1>3, <3>1
  <2> QED BY <2>1, <2>2
<1>8. \A a, b, i \in 1 .. Len(R) :
        (Chunk(l, R, a, b) /\ a <= c /\ a < i /\ i < b /\ R[i].of \in Due(l, s, h)) => R[i].of \in Done(at)
  <2> SUFFICES ASSUME NEW a \in 1 .. Len(R), NEW b \in 1 .. Len(R), NEW i \in 1 .. Len(R),
                      Chunk(l, R, a, b), a <= c, a < i, i < b, R[i].of \in Due(l, s, h)
               PROVE  FALSE
    OBVIOUS
  <2>1. a < b /\ R[a].byte = Flag(l) /\ R[b].byte = Flag(l)
    BY DEF Chunk
  <2>2. a = 1
    <3>1. a \notin 2 .. c
      BY <1>7, <2>1
    <3> QED BY <1>1, <3>1
  <2>3. b > c
    <3>1. b \notin 2 .. c
      BY <1>7, <2>1
    <3> QED BY <1>1, <2>1, <2>2, <3>1
  <2>4. CASE head = <<>>
    <3>1. n = 0
      BY <2>4
    <3>2. R[1 + n] = w[1]
      BY <1>1, <1>3
    <3> QED BY <1>2, <2>1, <2>2, <3>1, <3>2
  <2>5. CASE l.reader = "serial" /\ n >= l.capacity
    <3> DEFINE f == FrameOf(l, s[R[i].of])
    <3>1. R[i].of \notin h /\ Len(f) - 1 <= l.capacity
      BY <2>5 DEF Due, FitsOn
    <3>2. Spells(R, a, b, f)
      BY <1>2, <3>1 DEF Stream, Clean
    <3>3. Len(f) = b - a + 1
      BY <3>2 DEF Spells
    <3>4. l.capacity \in Nat
      BY LineFacts
    <3> HIDE DEF f
    <3> QED BY <1>1, <2>2, <2>3, <2>5, <3>1, <3>3, <3>4
  <2> QED BY <2>4, <2>5
<1> HIDE DEF c
<1>9. Good(l, s, w2, h, dl, bf2, fl2, head2, at, m)
  BY <1>2, <1>4, <1>6, <1>8, Advance DEF R, T
<1> QED BY <1>3, <1>9

(* A frame that lost no byte, but for its closing flag.                    *)
HeldAs(head, f) == Len(f) = Len(head) + 1 /\ \A j \in 1 .. Len(head) : head[j].byte = f[j]
Held(l, s, head, k) == k \in 1 .. Len(s) /\ s[k] \in l.packets /\ head[2].of = k /\ HeldAs(head, kiss_frame(s[k]))

LEMMA HeldFrame ==
  ASSUME NEW l, l.reader # "tcp", NEW s \in Seq(l.packets), NEW w, NEW h, NEW dl, NEW bf, NEW fl, NEW head,
         NEW at, NEW m, Good(l, s, w, h, dl, bf, fl, head, at, m), w # <<>>, w[1].byte = "FEND",
         NEW i \in 2 .. Len(head), head[i].of \notin h
  PROVE  Held(l, s, head, head[i].of)
<1> DEFINE R == head \o w
           n == Len(head)
           k == head[i].of
           f == FrameOf(l, s[k])
<1>1. /\ n \in Nat /\ Len(w) \in Nat /\ Len(R) = n + Len(w)
      /\ \A j \in 1 .. n : R[j] = head[j]
      /\ \A j \in 1 .. Len(w) : R[j + n] = w[j]
      /\ \A j \in 1 .. Len(R) : R[j] \in Tagged(l, s)
  BY Whole
<1>2. OneFlag(head) /\ Stream(l, s, h, m, R) /\ Flag(l) = "FEND" /\ head # <<>> /\ w \in Seq(Tagged(l, s))
  BY DEF Good, Holds, Flag
<1>3. Len(w) >= 1 /\ 1 \in 1 .. Len(w)
  <2> DEFINE T == Tagged(l, s)
  <2>1. w \in Seq(T)
    BY <1>2
  <2> HIDE DEF T
  <2> QED BY <2>1
<1> HIDE DEF R, n
<1>4. i \in 1 .. n /\ i \in 1 .. Len(R) /\ 2 \in 1 .. n /\ n >= 2 /\ 1 \in 1 .. n
  BY <1>1, <1>3 DEF n
<1>5. \A j \in 2 .. n : R[j].byte # Flag(l)
  <2>1. \A j \in 2 .. n : j \in 1 .. n
    BY <1>1
  <2> QED BY <1>1, <1>2, <2>1 DEF OneFlag, n
<1>6. R[1].byte = Flag(l) /\ R[n + 1].byte = Flag(l) /\ n + 1 <= Len(R) /\ Len(R) \in Nat /\ n >= 1
  <2>1. R[1 + n] = w[1] /\ 1 + n = n + 1
    BY <1>1, <1>3
  <2>2. R[1] = head[1]
    BY <1>1, <1>4
  <2> QED BY <1>1, <1>2, <1>3, <1>4, <2>1, <2>2 DEF OneFlag
<1>7. Chunk(l, R, 1, n + 1)
  BY <1>1, <1>5, <1>6, EndChunk
<1>8. R[i].of = k /\ R[i] \in Tagged(l, s)
  BY <1>1, <1>4
<1>9. k \in 1 .. Len(s) /\ s[k] \in l.packets
  <2>1. k \in 1 .. Len(s)
    BY <1>8 DEF Tagged
  <2> QED BY <2>1
<1>10. Spells(R, 1, n + 1, f) /\ \A j \in 1 + 1 .. n + 1 : R[j].of = k
  <2>1. 1 \in 1 .. Len(R) /\ n + 1 \in 1 .. Len(R) /\ 1 < i /\ i < n + 1
    BY <1>1, <1>4, <1>6
  <2>2. R[i].of \notin h
    BY <1>8
  <2> QED BY <1>2, <1>4, <1>7, <1>8, <2>1, <2>2 DEF Stream, Clean
<1>11. head[2].of = k
  <2>1. 2 \in 1 + 1 .. n + 1
    BY <1>1, <1>4
  <2> HIDE DEF k
  <2> QED BY <1>1, <1>4, <1>10, <2>1
<1> HIDE DEF k, f
<1>12. HeldAs(head, f)
  <2>1. Len(f) = (n + 1) - 1 + 1 /\ \A j \in 1 .. n + 1 : R[j].byte = f[j - 1 + 1]
    BY <1>10 DEF Spells
  <2>2. ASSUME NEW j \in 1 .. n PROVE head[j].byte = f[j]
    <3>1. j \in 1 .. n + 1 /\ j - 1 + 1 = j
      BY <1>1
    <3>2. R[j].byte = f[j - 1 + 1]
      BY <2>1, <3>1
    <3> QED BY <1>1, <3>1, <3>2
  <2>3. Len(f) = n + 1
    BY <1>1, <2>1
  <2> QED BY <2>2, <2>3 DEF HeldAs, n
<1>13. f = kiss_frame(s[k])
  BY DEF f, FrameOf
<1> QED BY <1>9, <1>11, <1>12, <1>13 DEF Held, k

LEMMA SerialGood ==
  ASSUME TypeOK, line.reader = "serial", wire # <<>>, serial_byte(wire[1].byte), NEW head, NEW at, NEW m,
         Good(line, sent, wire, hit, delivered, buffer, flags, head, at, m)
  PROVE  \E head2, at2, m2 : Good(line, sent, Tail(wire), hit, delivered', buffer', flags, head2, at2, m2)
<1> DEFINE l == line
           s == sent
           b == wire[1].byte
           SB == Seq(KissByte)
<1>1. /\ line \in Lines /\ s \in Seq(line.packets) /\ buffer \in Seq(KissByte) /\ delivered \in Seq(SB)
      /\ Len(buffer) <= line.capacity /\ line.capacity \in Nat /\ Len(buffer) \in Nat /\ line.reader # "tcp"
  <2>1. line \in Lines
    BY DEF TypeOK
  <2>2. Bytes(line.reader) = KissByte /\ line.capacity \in Nat /\ line.reader # "tcp"
    BY <2>1, LineFacts
  <2>3. sent \in Seq(line.packets) /\ buffer \in Seq(Bytes(line.reader)) /\ delivered \in Seq(Seq(Bytes(line.reader)))
        /\ Len(buffer) <= line.capacity
    BY DEF TypeOK
  <2>4. Len(buffer) \in Nat
    BY <2>3
  <2> QED BY <2>1, <2>2, <2>3, <2>4
<1>2. /\ Len(head) = Len(buffer) /\ (\A i \in 1 .. Len(buffer) : head[i].byte = buffer[i]) /\ OneFlag(head)
  BY DEF Good, Holds, Mirrors
<1>3. head \in Seq(Tagged(l, s)) /\ wire \in Seq(Tagged(l, s))
  BY DEF Good
<1>4. CASE b = "FEND"
  <2> DEFINE g == Append(buffer, "FEND")
  <2>1. buffer' = <<"FEND">> /\ delivered' = IF Len(buffer) < 2 THEN delivered ELSE delivered \o SetToSeq(kiss_deframe(g))
    BY <1>4 DEF serial_byte
  <2>2. Holds(l, buffer', flags, <<wire[1]>>)
    BY <1>4, <2>1 DEF Holds, Mirrors, OneFlag
  <2>3. g \in Seq(KissByte) /\ Len(g) = Len(buffer) + 1 /\ g[Len(buffer) + 1] = "FEND" /\ \A i \in 1 .. Len(buffer) : g[i] = buffer[i]
    <3>1. "FEND" \in KissByte
      BY DEF KissByte
    <3> QED BY <1>1, <3>1
  <2>4. ASSUME NEW i \in 2 .. Len(head), head[i].of \notin hit
        PROVE  /\ Held(l, s, head, head[i].of) /\ kiss_deframe(g) = {s[head[i].of]}
               /\ FitsOn(l, s[head[i].of])
    <3> DEFINE k == head[i].of
               f == kiss_frame(s[k])
    <3>1. Held(l, s, head, head[i].of)
      BY <1>1, <1>4, <2>4, HeldFrame
    <3>2. s[k] \in l.packets /\ Len(f) = Len(head) + 1 /\ \A j \in 1 .. Len(head) : head[j].byte = f[j]
      BY <3>1 DEF Held, HeldAs
    <3>3. s[k] \in Seq(KissByte)
      BY <1>1, <3>2, LineFacts
    <3>4. f \in Seq(KissByte) /\ f[Len(f)] = "FEND"
      BY <3>3, KissFrameFacts
    <3>5. kiss_deframe(f) = {s[k]}
      BY <3>3, RoundTrip
    <3>6. FrameOf(l, s[k]) = f
      BY <1>1 DEF FrameOf
    <3> HIDE DEF f, g, k
    <3>7. ASSUME NEW j \in 1 .. Len(g) PROVE g[j] = f[j]
      <4>1. CASE j \in 1 .. Len(buffer)
        BY <1>2, <2>3, <3>2, <4>1
      <4>2. CASE j \notin 1 .. Len(buffer)
        <5>1. j = Len(buffer) + 1
          BY <1>1, <2>3, <4>2
        <5> QED BY <1>2, <2>3, <3>2, <3>4, <5>1
      <4> QED BY <4>1, <4>2
    <3>8. g = f
      <4>1. Len(g) = Len(f)
        BY <1>2, <2>3, <3>2
      <4> QED BY <2>3, <3>4, <3>7, <4>1, SameSeq, Zenon
    <3>9. FitsOn(l, s[k])
      <4>1. Len(f) - 1 <= l.capacity
        BY <1>1, <1>2, <3>2
      <4> QED BY <3>6, <4>1 DEF FitsOn
    <3> QED BY <3>1, <3>5, <3>8, <3>9 DEF k
  <2> HIDE DEF g
  <2>5. Passes(l, s, hit, head, delivered, delivered') \/ Hands(l, s, hit, SB, head, delivered, delivered')
    <3>1. CASE Len(buffer) < 2
      <4>1. delivered' = delivered /\ \A i \in 2 .. Len(head) : FALSE
        BY <1>1, <1>2, <2>1, <3>1
      <4> QED BY <4>1 DEF Passes
    <3>2. CASE ~(Len(buffer) < 2)
      <4>1. delivered' = delivered \o SetToSeq(kiss_deframe(g))
        BY <2>1, <3>2
      <4>2. CASE kiss_deframe(g) = {}
        <5>1. delivered' = delivered
          BY <1>1, <4>1, <4>2, HandOn
        <5>2. \A i \in 2 .. Len(head) : head[i].of \in hit
          BY <2>4, <4>2
        <5> QED BY <5>1, <5>2 DEF Passes, Due
      <4>3. ASSUME NEW y \in SB, kiss_deframe(g) = {y} PROVE Hands(l, s, hit, SB, head, delivered, delivered')
        <5>1. delivered' = Append(delivered, y)
          BY <1>1, <4>1, <4>3, HandOn
        <5>2. 2 \in 2 .. Len(head) /\ Len(head) >= 2
          BY <1>1, <1>2, <3>2
        <5>3. Rightly(l, s, hit, head[2].of, y)
          BY <2>4, <4>3, <5>2 DEF Rightly
        <5> QED BY <5>1, <5>2, <5>3 DEF Hands
      <4> QED BY <2>3, <4>2, <4>3, KissDeframeType
    <3> QED BY <3>1, <3>2
  <2> HIDE DEF SB
  <2> QED BY <1>1, <1>4, <2>2, <2>5, EndGood
<1>5. CASE b # "FEND"
  <2>1. /\ buffer' = IF buffer = <<>> THEN <<>> ELSE IF Len(buffer) < line.capacity THEN Append(buffer, b) ELSE <<>>
        /\ delivered' = delivered
    BY <1>5 DEF serial_byte
  <2>2. CASE buffer # <<>> /\ Len(buffer) < line.capacity
    <3> DEFINE u == Append(head, wire[1])
               n == Len(buffer)
               T == Tagged(l, s)
    <3>1. buffer' = Append(buffer, b)
      BY <2>1, <2>2
    <3>2. Len(buffer') = n + 1 /\ buffer'[n + 1] = b /\ \A i \in 1 .. n : buffer'[i] = buffer[i]
      BY <1>1, <3>1
    <3>3. Len(u) = n + 1 /\ u[n + 1] = wire[1] /\ \A i \in 1 .. n : u[i] = head[i]
      <4>1. head \in Seq(T)
        BY <1>3
      <4> HIDE DEF T
      <4> QED BY <1>2, <4>1
    <3>4. n \in Nat /\ n >= 1 /\ head # <<>>
      BY <1>1, <1>2, <2>2
    <3> HIDE DEF u, n
    <3>5. Mirrors(buffer', u)
      <4>1. ASSUME NEW i \in 1 .. n + 1 PROVE u[i].byte = buffer'[i]
        <5>1. CASE i \in 1 .. n
          BY <1>2, <3>2, <3>3, <5>1 DEF n
        <5>2. CASE i \notin 1 .. n
          <6>1. i = n + 1
            BY <3>4, <5>2
          <6> QED BY <3>2, <3>3, <6>1
        <5> QED BY <5>1, <5>2
      <4> QED BY <3>2, <3>3, <4>1 DEF Mirrors
    <3>6. OneFlag(u)
      <4>1. head[1].byte = "FEND" /\ \A i \in 2 .. n : head[i].byte # "FEND"
        BY <1>2, <3>4 DEF OneFlag, n
      <4>2. u[1].byte = "FEND"
        BY <3>3, <3>4, <4>1
      <4>3. ASSUME NEW i \in 2 .. n + 1 PROVE u[i].byte # "FEND"
        <5>1. CASE i \in 2 .. n
          <6>1. i \in 1 .. n
            BY <3>4, <5>1
          <6> QED BY <3>3, <4>1, <5>1, <6>1
        <5>2. CASE i \notin 2 .. n
          <6>1. i = n + 1
            BY <3>4, <5>2
          <6> QED BY <1>5, <3>3, <6>1
        <5> QED BY <5>1, <5>2
      <4> QED BY <3>3, <4>2, <4>3 DEF OneFlag
    <3>7. Holds(l, buffer', flags, Append(head, wire[1]))
      BY <1>1, <3>5, <3>6 DEF Holds, u
    <3> QED BY <1>1, <2>1, <3>7, StayGood
  <2>3. CASE ~(buffer # <<>> /\ Len(buffer) < line.capacity)
    <3>1. buffer' = <<>>
      BY <2>1, <2>3
    <3>2. Holds(l, buffer', flags, <<>>)
      BY <1>1, <3>1 DEF Holds, Mirrors, OneFlag
    <3>3. head = <<>> \/ (l.reader = "serial" /\ Len(head) >= l.capacity)
      <4> DEFINE T == Tagged(l, s)
      <4>1. head \in Seq(T)
        BY <1>3
      <4> HIDE DEF T
      <4> QED BY <1>1, <1>2, <2>3, <4>1
    <3> QED BY <1>1, <1>5, <2>1, <3>2, <3>3, ForgetGood
  <2> QED BY <2>2, <2>3
<1> QED BY <1>4, <1>5

LEMMA HeldRun ==
  ASSUME NEW p \in Seq(KissByte), NEW head, Len(head) \in Nat, Len(head) >= 2, HeldAs(head, kiss_frame(p))
  PROVE  head[2].byte = "00" /\ kiss_run(Body(head)) = [out |-> p, escaped |-> FALSE, malformed |-> FALSE]
<1> DEFINE f == kiss_frame(p)
           n == Len(head)
           g == SubSeq(f, 3, Len(f) - 1)
<1>1. f \in Seq(KissByte) /\ f[2] = "00" /\ kiss_run(g) = [out |-> p, escaped |-> FALSE, malformed |-> FALSE]
  BY KissFrameFacts
<1>2. Len(f) = n + 1 /\ \A j \in 1 .. n : head[j].byte = f[j]
  BY DEF HeldAs
<1> HIDE DEF f, n
<1>3. n \in Nat /\ n >= 2
  BY DEF n
<1>4. head[2].byte = "00"
  BY <1>1, <1>2, <1>3
<1>5. g \in Seq(KissByte) /\ Len(g) = n - 2 /\ \A i \in 1 .. n - 2 : g[i] = f[i + 2]
  <2>1. 2 \in Nat /\ n \in Nat /\ 2 <= n /\ n <= Len(f) /\ 2 + 1 = 3 /\ Len(f) - 1 = n
    BY <1>2, <1>3
  <2>2. SubSeq(f, 2 + 1, n) \in Seq(KissByte) /\ Len(SubSeq(f, 2 + 1, n)) = n - 2
        /\ \A i \in 1 .. n - 2 : SubSeq(f, 2 + 1, n)[i] = f[i + 2]
    BY <1>1, <2>1, Slice
  <2> QED BY <2>1, <2>2
<1> HIDE DEF g
<1>6. \A i \in 1 .. n - 2 : g[i] = head[i + 2].byte
  <2> SUFFICES ASSUME NEW i \in 1 .. n - 2 PROVE g[i] = head[i + 2].byte
    OBVIOUS
  <2>1. i + 2 \in 1 .. n
    BY <1>3
  <2> QED BY <1>2, <1>5, <2>1
<1>7. Body(head) = g
  <2>1. g = [i \in 1 .. n - 2 |-> g[i]]
    BY <1>3, <1>5
  <2> QED BY <1>6, <2>1 DEF Body, n
<1> QED BY <1>1, <1>4, <1>7

LEMMA BodyFacts ==
  ASSUME NEW head, NEW T, head \in Seq(T), \A i \in 1 .. Len(head) : head[i].byte \in KissByte, Len(head) >= 2
  PROVE  /\ Body(head) \in Seq(KissByte)
         /\ \A x : x.byte \in KissByte => Body(Append(head, x)) = Append(Body(head), x.byte)
<1> DEFINE n == Len(head)
           b == Body(head)
<1>1. n \in Nat /\ n >= 2
  OBVIOUS
<1>2. b \in Seq(KissByte) /\ Len(b) = n - 2 /\ \A i \in 1 .. n - 2 : b[i] = head[i + 2].byte
  <2>1. n - 2 \in Nat
    BY <1>1
  <2>2. \A i \in 1 .. n - 2 : i + 2 \in 1 .. Len(head)
    BY <1>1
  <2>3. \A i \in 1 .. n - 2 : head[i + 2].byte \in KissByte
    BY <2>2
  <2>4. b \in [1 .. n - 2 -> KissByte] /\ \A i \in 1 .. n - 2 : b[i] = head[i + 2].byte
    BY <2>3 DEF Body
  <2> HIDE DEF b
  <2> QED BY <2>1, <2>4, FunctionSeq
<1>3. ASSUME NEW x, x.byte \in KissByte PROVE Body(Append(head, x)) = Append(b, x.byte)
  <2> DEFINE u == Append(head, x)
             v == Append(b, x.byte)
  <2>1. Len(u) = n + 1 /\ u[n + 1] = x /\ \A i \in 1 .. n : u[i] = head[i]
    OBVIOUS
  <2> HIDE DEF b, n, u
  <2>2. v \in Seq(KissByte) /\ Len(v) = n - 1 /\ v[n - 1] = x.byte /\ \A i \in 1 .. n - 2 : v[i] = b[i]
    BY <1>1, <1>2, <1>3
  <2> HIDE DEF v
  <2>3. ASSUME NEW i \in 1 .. n - 1 PROVE v[i] = u[i + 2].byte
    <3>1. CASE i \in 1 .. n - 2
      <4>1. i + 2 \in 1 .. n
        BY <1>1, <3>1
      <4> QED BY <1>2, <2>1, <2>2, <3>1, <4>1
    <3>2. CASE i \notin 1 .. n - 2
      <4>1. i = n - 1 /\ i + 2 = n + 1
        BY <1>1, <3>2
      <4> QED BY <2>1, <2>2, <4>1
    <3> QED BY <3>1, <3>2
  <2>4. v = [i \in 1 .. n - 1 |-> v[i]] /\ n - 1 = Len(u) - 2
    BY <1>1, <2>1, <2>2
  <2>5. v = [i \in 1 .. n - 1 |-> u[i + 2].byte]
    BY <2>3, <2>4
  <2>6. Body(u) = v
    BY <2>4, <2>5 DEF Body
  <2> QED BY <2>6 DEF u, v
<1> QED BY <1>2, <1>3

LEMMA UartFacts ==
  ASSUME TypeOK, line.reader = "uart", wire # <<>>, NEW head, NEW at, NEW m,
         Good(line, sent, wire, hit, delivered, buffer, flags, head, at, m)
  PROVE  /\ line \in Lines /\ sent \in Seq(line.packets) /\ buffer \in Seq(KissByte) /\ delivered \in Seq(Seq(KissByte))
         /\ line.capacity \in Nat /\ line.reader # "tcp" /\ OneFlag(head) /\ Decodes(line, buffer, flags, head)
         /\ Len(head) \in Nat /\ head \in Seq(Tagged(line, sent)) /\ wire[1].byte \in KissByte
         /\ \A i \in 1 .. Len(head) : head[i].byte \in KissByte
<1>1. line \in Lines
  BY DEF TypeOK
<1>2. Bytes(line.reader) = KissByte /\ line.capacity \in Nat /\ line.reader # "tcp"
  BY <1>1, LineFacts
<1>3. sent \in Seq(line.packets) /\ buffer \in Seq(Bytes(line.reader)) /\ delivered \in Seq(Seq(Bytes(line.reader)))
  BY DEF TypeOK
<1>4. OneFlag(head) /\ Decodes(line, buffer, flags, head)
  BY DEF Good, Holds
<1> DEFINE T == Tagged(line, sent)
<1>5. head \in Seq(T) /\ wire \in Seq(T)
  BY DEF Good
<1>6. \A x \in T : x.byte \in KissByte
  BY <1>2 DEF Tagged
<1> HIDE DEF T
<1>7. Len(head) \in Nat /\ wire[1] \in T /\ \A i \in 1 .. Len(head) : head[i] \in T
  BY <1>5
<1> QED BY <1>1, <1>2, <1>3, <1>4, <1>5, <1>6, <1>7 DEF T

LEMMA UartEndGood ==
  ASSUME TypeOK, line.reader = "uart", wire # <<>>, wire[1].byte = "FEND", uart_end, NEW head, NEW at, NEW m,
         Good(line, sent, wire, hit, delivered, buffer, flags, head, at, m)
  PROVE  \E head2, at2, m2 : Good(line, sent, Tail(wire), hit, delivered', buffer', flags', head2, at2, m2)
<1> DEFINE l == line
           s == sent
           SB == Seq(KissByte)
           d == kiss_run(Body(head))
           ready == {"in_frame", "has_command"} \subseteq flags /\ buffer # <<>> /\ flags \cap {"escaped", "invalid"} = {}
<1>1. /\ line \in Lines /\ s \in Seq(line.packets) /\ buffer \in SB /\ delivered \in Seq(SB)
      /\ line.capacity \in Nat /\ line.reader # "tcp" /\ OneFlag(head) /\ Decodes(l, buffer, flags, head)
      /\ Len(head) \in Nat
  BY UartFacts
<1>2. buffer' = <<>> /\ flags' = {"in_frame"} /\ delivered' = IF ready THEN Append(delivered, buffer) ELSE delivered
  BY DEF uart_end
<1>3. Holds(l, buffer', flags', <<wire[1]>>)
  <2> DEFINE u == <<wire[1]>>
  <2>1. Len(u) = 1 /\ u[1] = wire[1]
    OBVIOUS
  <2> HIDE DEF u
  <2>2. OneFlag(u)
    BY <2>1 DEF OneFlag
  <2>3. Decodes(l, buffer', flags', u)
    BY <1>2, <2>1 DEF Decodes
  <2> QED BY <2>2, <2>3 DEF Holds, u
<1>4. ASSUME NEW i \in 2 .. Len(head), head[i].of \notin hit
      PROVE  /\ head[2].of = head[i].of /\ head[2].byte = "00" /\ s[head[i].of] \in SB /\ s[head[i].of] # <<>>
             /\ d = [out |-> s[head[i].of], escaped |-> FALSE, malformed |-> FALSE]
  <2> DEFINE k == head[i].of
  <2>1. Held(l, s, head, head[i].of)
    BY <1>1, <1>4, HeldFrame
  <2>2. s[k] \in l.packets /\ head[2].of = k /\ HeldAs(head, kiss_frame(s[k]))
    BY <2>1 DEF Held
  <2>3. s[k] \in Seq(KissByte) /\ s[k] # <<>>
    BY <1>1, <2>2, LineFacts
  <2>4. Len(head) >= 2
    BY <1>1
  <2> HIDE DEF k
  <2>5. head[2].byte = "00" /\ d = [out |-> s[k], escaped |-> FALSE, malformed |-> FALSE]
    BY <1>1, <2>2, <2>3, <2>4, HeldRun
  <2> QED BY <2>2, <2>3, <2>5 DEF k
<1> HIDE DEF d
<1>5. CASE ready
  <2>1. Len(head) >= 2
    <3>1. Len(head) # 0 /\ Len(head) # 1
      BY <1>1, <1>5 DEF Decodes
    <3>2. Len(head) \in Nat
      BY <1>1
    <3> QED BY <3>1, <3>2
  <2>2. ~Spoilt(l, head)
    BY <1>1, <1>5, <2>1 DEF Decodes
  <2>3. buffer = d.out
    BY <1>1, <2>1, <2>2 DEF Decodes, d
  <2>4. ~(Len(d.out) > l.capacity)
    BY <2>2 DEF Spoilt, d
  <2>5. Rightly(l, s, hit, head[2].of, buffer)
    <3> SUFFICES ASSUME head[2].of \notin hit PROVE buffer = s[head[2].of] /\ FitsOn(l, s[head[2].of])
      BY DEF Rightly
    <3>1. 2 \in 2 .. Len(head)
      BY <1>1, <2>1
    <3>2. d = [out |-> s[head[2].of], escaped |-> FALSE, malformed |-> FALSE]
      BY <1>4, <3>1
    <3>3. d.out = s[head[2].of]
      BY <3>2
    <3>4. Len(buffer) <= l.capacity
      BY <1>1, <2>3, <2>4
    <3> QED BY <2>3, <3>3, <3>4 DEF FitsOn
  <2>6. Hands(l, s, hit, SB, head, delivered, delivered')
    BY <1>1, <1>2, <1>5, <2>1, <2>5 DEF Hands
  <2> HIDE DEF SB, ready
  <2> QED BY <1>1, <1>3, <2>6, EndGood
<1>6. CASE ~ready
  <2>1. ASSUME NEW i \in 2 .. Len(head), head[i].of \in Due(l, s, hit) PROVE FALSE
    <3> DEFINE p == s[head[i].of]
    <3>1. head[i].of \notin hit /\ Len(p) <= l.capacity
      BY <2>1 DEF Due, FitsOn
    <3>2. head[2].byte = "00" /\ p \in SB /\ p # <<>> /\ d = [out |-> p, escaped |-> FALSE, malformed |-> FALSE]
      BY <1>4, <3>1
    <3> HIDE DEF p
    <3>3. d.out = p /\ d.escaped = FALSE /\ d.malformed = FALSE
      BY <3>2
    <3>4. Len(p) \in Nat
      BY <3>2
    <3>5. ~Spoilt(l, head)
      BY <1>1, <3>1, <3>2, <3>3, <3>4 DEF Spoilt, d
    <3>6. Len(head) >= 2
      BY <1>1
    <3>7. flags = {"in_frame", "has_command"} \cup (IF d.escaped THEN {"escaped"} ELSE {}) /\ buffer = d.out
      BY <1>1, <3>5, <3>6 DEF Decodes, d
    <3>8. flags = {"in_frame", "has_command"} /\ buffer # <<>>
      BY <3>2, <3>3, <3>7
    <3> QED BY <1>6, <3>8
  <2>2. Passes(l, s, hit, head, delivered, delivered')
    BY <1>2, <1>6, <2>1 DEF Passes
  <2> HIDE DEF SB, ready
  <2> QED BY <1>1, <1>3, <2>2, EndGood
<1> QED BY <1>5, <1>6

(* The flags that a decoder whose state is d has set.                      *)
FlagsOf(d) == {"in_frame", "has_command"} \cup (IF d.escaped THEN {"escaped"} ELSE {})

LEMMA DecodesLong ==
  ASSUME NEW l, NEW bf, NEW fl, NEW head, ~(Len(head) = 0), ~(Len(head) = 1), NEW d, d = kiss_run(Body(head)),
         Spoilt(l, head) => {"in_frame", "has_command", "invalid"} \subseteq fl,
         ~Spoilt(l, head) => fl = FlagsOf(d) /\ bf = d.out
  PROVE  Decodes(l, bf, fl, head)
  BY Zenon DEF Decodes, FlagsOf

(* One more byte at the decoder: what it holds is still what a decoder of  *)
(* the whole frame would have made of the bytes so far.                    *)
LEMMA DecodesMore ==
  ASSUME TypeOK, line.reader = "uart", wire # <<>>, wire[1].byte # "FEND", uart_byte(wire[1].byte),
         NEW head, NEW at, NEW m, Good(line, sent, wire, hit, delivered, buffer, flags, head, at, m),
         "in_frame" \in flags
  PROVE  Decodes(line, buffer', flags', Append(head, wire[1]))
<1> DEFINE l == line
           b == wire[1].byte
           n == Len(head)
           u == Append(head, wire[1])
           d == kiss_run(Body(head))
           d2 == kiss_run(Body(u))
           esc == IF d.escaped THEN {"escaped"} ELSE {}
<1>1. /\ buffer \in Seq(KissByte) /\ line.capacity \in Nat /\ Decodes(line, buffer, flags, head)
      /\ n \in Nat /\ head \in Seq(Tagged(line, sent)) /\ b \in KissByte
      /\ \A i \in 1 .. n : head[i].byte \in KissByte
  BY UartFacts
<1>2. Len(u) = n + 1 /\ u[n + 1] = wire[1] /\ \A i \in 1 .. n : u[i] = head[i]
  <2> DEFINE T == Tagged(line, sent)
  <2>1. head \in Seq(T)
    BY <1>1
  <2> HIDE DEF T
  <2> QED BY <2>1
<1>3. n # 0
  BY <1>1 DEF Decodes
<1>4. CASE n = 1
  <2>1. flags = {"in_frame"} /\ buffer = <<>>
    BY <1>1, <1>4 DEF Decodes
  <2>2. buffer' = <<>> /\ flags' = {"in_frame", "has_command"} \cup IF b = "00" THEN {} ELSE {"invalid"}
    BY <2>1 DEF uart_byte
  <2>3. Len(u) = 2 /\ u[2].byte = b
    BY <1>2, <1>4
  <2> HIDE DEF u, b
  <2>4. Body(u) = <<>>
    <3>1. 1 .. Len(u) - 2 = {}
      BY <2>3
    <3> DEFINE v == Body(u)
    <3>2. v \in [1 .. 0 -> KissByte]
      BY <2>3, <3>1 DEF Body
    <3> HIDE DEF v
    <3>3. v \in Seq(KissByte) /\ Len(v) = 0
      BY <3>2, FunctionSeq
    <3>4. v = <<>>
      BY <3>3
    <3> QED BY <3>4 DEF v
  <2>5. kiss_run(Body(u)) = Start
    BY <2>4, KissRunEmpty
  <2>6. kiss_run(Body(u)).out = <<>> /\ kiss_run(Body(u)).escaped = FALSE /\ kiss_run(Body(u)).malformed = FALSE
    BY <2>5 DEF Start
  <2>7. Len(kiss_run(Body(u)).out) = 0
    BY <2>6
  <2>8. Spoilt(l, u) <=> b # "00"
    BY <1>1, <2>3, <2>6, <2>7 DEF Spoilt
  <2> HIDE DEF d2
  <2>9. ~(Len(u) = 0) /\ ~(Len(u) = 1) /\ d2 = kiss_run(Body(u))
    BY <2>3 DEF d2
  <2>10. Spoilt(l, u) => {"in_frame", "has_command", "invalid"} \subseteq flags'
    BY <2>2, <2>8
  <2>11. d2.escaped = FALSE /\ d2.out = <<>>
    BY <2>6 DEF d2
  <2>12. ~Spoilt(l, u) => flags' = FlagsOf(d2) /\ buffer' = d2.out
    BY <2>2, <2>8, <2>11 DEF FlagsOf
  <2>13. Decodes(l, buffer', flags', u)
    BY <2>9, <2>10, <2>12, DecodesLong
  <2> QED BY <2>13 DEF u
<1>5. CASE n # 1
  <2>1. n >= 2
    <3>1. n \in Nat
      BY <1>1
    <3> HIDE DEF n
    <3> QED BY <1>3, <1>5, <3>1
  <2>2. Body(head) \in Seq(KissByte) /\ Body(u) = Append(Body(head), b)
    BY <1>1, <2>1, BodyFacts
  <2>3. d \in Decoder(KissByte) /\ d2 = kiss_step(d, b)
    BY <1>1, <2>2, KissRunAppend
  <2>4. d2 \in Decoder(KissByte)
    BY <1>1, <2>3, KissStepType
  <2>5. Len(u) >= 2 /\ ~(Len(u) = 0) /\ ~(Len(u) = 1) /\ u[2] = head[2]
    <3>1. 2 \in 1 .. n
      BY <1>1, <2>1
    <3> QED BY <1>1, <1>2, <2>1, <3>1
  <2> HIDE DEF u, b, n, d, d2
  <2>6. d.out \in Seq(KissByte) /\ d.escaped \in BOOLEAN /\ d.malformed \in BOOLEAN
        /\ d2.out \in Seq(KissByte) /\ d2.escaped \in BOOLEAN /\ d2.malformed \in BOOLEAN
    BY <2>3, <2>4 DEF Decoder
  <2>7. Len(d.out) \in Nat /\ Len(d2.out) \in Nat
    BY <2>6
  <2>8. Spoilt(l, head) <=> (head[2].byte # "00" \/ d.malformed \/ Len(d.out) > l.capacity)
    BY DEF Spoilt, d
  <2>9. Spoilt(l, u) <=> (head[2].byte # "00" \/ d2.malformed \/ Len(d2.out) > l.capacity)
    BY <2>5 DEF Spoilt, d2
  <2>10. SUFFICES /\ Spoilt(l, u) => {"in_frame", "has_command", "invalid"} \subseteq flags'
                  /\ ~Spoilt(l, u) => flags' = FlagsOf(d2) /\ buffer' = d2.out
    <3> SUFFICES Decodes(l, buffer', flags', u)
      BY DEF u
    <3>1. d2 = kiss_run(Body(u))
      BY DEF d2
    <3> QED BY <2>5, <3>1, DecodesLong, Zenon
  <2>11. CASE Spoilt(l, head)
    <3>1. {"in_frame", "has_command", "invalid"} \subseteq flags
      BY <1>1, <2>1, <2>11 DEF Decodes, n
    <3>2. flags' = flags
      BY <3>1 DEF uart_byte
    <3>3. Len(d.out) <= Len(d2.out) /\ (d.malformed => d2.malformed)
      BY <1>1, <2>3, KissStepGrows
    <3>4. Spoilt(l, u)
      BY <1>1, <2>7, <2>8, <2>9, <2>11, <3>3
    <3> QED BY <3>1, <3>2, <3>4
  <2>12. CASE ~Spoilt(l, head)
    <3>1. flags = {"in_frame", "has_command"} \cup esc /\ buffer = d.out
      BY <1>1, <2>1, <2>12 DEF Decodes, n, d
    <3>2. head[2].byte = "00" /\ d.malformed = FALSE /\ Len(d.out) <= l.capacity
      BY <1>1, <2>6, <2>7, <2>8, <2>12
    <3>3. "has_command" \in flags /\ "invalid" \notin flags /\ ("escaped" \in flags <=> d.escaped)
      BY <3>1
    <3>4. CASE d.escaped /\ b \notin DOMAIN Unescape
      <4>1. flags' = (flags \ {"escaped"}) \cup {"invalid"}
        BY <3>3, <3>4 DEF uart_byte, b
      <4>2. d2 = [d EXCEPT !.malformed = TRUE]
        BY <2>3, <3>4 DEF kiss_step
      <4>3. d2.malformed
        BY <2>3, <4>2 DEF Decoder
      <4> QED BY <2>9, <3>1, <4>1, <4>3
    <3>5. CASE ~d.escaped /\ b = "FESC"
      <4>1. flags' = flags \cup {"escaped"} /\ buffer' = buffer
        BY <3>3, <3>5 DEF uart_byte, b
      <4>2. d2 = [d EXCEPT !.escaped = TRUE]
        BY <2>3, <3>5 DEF kiss_step
      <4>3. d2.escaped /\ d2.malformed = d.malformed /\ d2.out = d.out
        BY <2>3, <4>2 DEF Decoder
      <4>4. ~Spoilt(l, u)
        BY <1>1, <2>7, <2>9, <3>2, <4>3
      <4>5. flags' = {"in_frame", "has_command"} \cup {"escaped"}
        BY <3>1, <4>1
      <4> QED BY <3>1, <4>1, <4>3, <4>4, <4>5 DEF FlagsOf
    <3>6. ASSUME NEW x, store(x), d2 = [d EXCEPT !.out = Append(@, x), !.escaped = FALSE]
          PROVE  /\ Spoilt(l, u) => {"in_frame", "has_command", "invalid"} \subseteq flags'
                 /\ ~Spoilt(l, u) => flags' = FlagsOf(d2) /\ buffer' = d2.out
      <4>1. d2.escaped = FALSE /\ d2.malformed = d.malformed /\ d2.out = Append(d.out, x)
        BY <2>3, <3>6 DEF Decoder
      <4>2. Len(d2.out) = Len(d.out) + 1
        BY <2>6, <4>1
      <4>3. CASE Len(buffer) = l.capacity
        <5>1. flags' = (flags \ {"escaped"}) \cup {"invalid"}
          BY <3>6, <4>3 DEF store
        <5>2. Spoilt(l, u)
          BY <1>1, <2>7, <2>9, <3>1, <4>2, <4>3
        <5> QED BY <3>1, <5>1, <5>2
      <4>4. CASE Len(buffer) # l.capacity
        <5>1. flags' = flags \ {"escaped"} /\ buffer' = Append(buffer, x)
          BY <3>6, <4>4 DEF store
        <5>2. ~Spoilt(l, u)
          <6>1. Len(d2.out) <= l.capacity
            BY <1>1, <2>7, <3>1, <3>2, <4>2, <4>4
          <6> QED BY <1>1, <2>7, <2>9, <3>2, <4>1, <6>1
        <5>3. flags' = {"in_frame", "has_command"}
          BY <3>1, <5>1
        <5> QED BY <3>1, <4>1, <5>1, <5>2, <5>3 DEF FlagsOf
      <4> QED BY <4>3, <4>4
    <3>7. CASE d.escaped /\ b \in DOMAIN Unescape
      <4>1. store(Unescape[b])
        BY <3>3, <3>7 DEF uart_byte, b
      <4>2. d2 = [d EXCEPT !.out = Append(@, Unescape[b]), !.escaped = FALSE]
        BY <2>3, <3>7 DEF kiss_step
      <4> QED BY <3>6, <4>1, <4>2
    <3>8. CASE ~d.escaped /\ b # "FESC"
      <4>1. store(b)
        BY <3>3, <3>8 DEF uart_byte, b
      <4>2. d2 = [d EXCEPT !.out = Append(@, b)]
        BY <2>3, <3>8 DEF kiss_step, b
      <4>3. d2 = [d EXCEPT !.out = Append(@, b), !.escaped = FALSE]
        BY <2>3, <2>6, <3>8, <4>2 DEF Decoder
      <4> QED BY <3>6, <4>1, <4>3
    <3> QED BY <3>4, <3>5, <3>7, <3>8
  <2> QED BY <2>11, <2>12
<1> QED BY <1>4, <1>5

LEMMA UartByteGood ==
  ASSUME TypeOK, line.reader = "uart", wire # <<>>, wire[1].byte # "FEND", uart_byte(wire[1].byte),
         NEW head, NEW at, NEW m, Good(line, sent, wire, hit, delivered, buffer, flags, head, at, m)
  PROVE  \E head2, at2, m2 : Good(line, sent, Tail(wire), hit, delivered', buffer', flags', head2, at2, m2)
<1> DEFINE l == line
           s == sent
           n == Len(head)
           T == Tagged(l, s)
<1>1. /\ line \in Lines /\ line.reader # "tcp" /\ OneFlag(head) /\ Decodes(line, buffer, flags, head)
      /\ n \in Nat /\ head \in Seq(T)
  BY UartFacts
<1>2. delivered' = delivered
  BY DEF uart_byte
<1>3. CASE "in_frame" \notin flags
  <2>1. ~(n >= 2) /\ n # 1
    BY <1>1, <1>3 DEF Decodes
  <2>2. n = 0
    <3>1. n \in Nat
      BY <1>1
    <3> HIDE DEF n
    <3> QED BY <2>1, <3>1
  <2>3. head = <<>>
    <3>1. head \in Seq(T)
      BY <1>1
    <3> HIDE DEF T
    <3> QED BY <2>2, <3>1
  <2>4. flags' = {} /\ buffer' = <<>>
    <3>1. flags = {} /\ buffer = <<>>
      BY <1>1, <2>2 DEF Decodes
    <3> QED BY <1>3, <3>1 DEF uart_byte
  <2>5. Holds(l, buffer', flags', <<>>)
    BY <2>4 DEF Holds, OneFlag, Decodes
  <2> QED BY <1>1, <1>2, <2>3, <2>5, ForgetGood
<1>4. CASE "in_frame" \in flags
  <2> DEFINE u == Append(head, wire[1])
  <2>1. Decodes(l, buffer', flags', u)
    BY <1>4, DecodesMore
  <2>2. head # <<>>
    BY <1>1, <1>4 DEF Decodes
  <2>3. Len(u) = n + 1 /\ u[n + 1] = wire[1] /\ \A i \in 1 .. n : u[i] = head[i]
    <3>1. head \in Seq(T)
      BY <1>1
    <3> HIDE DEF T
    <3> QED BY <3>1
  <2>4. head[1].byte = "FEND" /\ \A i \in 2 .. n : head[i].byte # "FEND"
    BY <1>1, <2>2 DEF OneFlag
  <2>5. n \in Nat /\ n >= 1
    <3>1. head \in Seq(T)
      BY <1>1
    <3> HIDE DEF T
    <3> QED BY <2>2, <3>1
  <2> HIDE DEF u, n
  <2>6. OneFlag(u)
    <3>1. u[1].byte = "FEND"
      BY <2>3, <2>4, <2>5
    <3>2. ASSUME NEW i \in 2 .. n + 1 PROVE u[i].byte # "FEND"
      <4>1. CASE i \in 2 .. n
        <5>1. i \in 1 .. n
          BY <2>5, <4>1
        <5> QED BY <2>3, <2>4, <4>1, <5>1
      <4>2. CASE i \notin 2 .. n
        <5>1. i = n + 1
          BY <2>5, <4>2
        <5> QED BY <2>3, <5>1
      <4> QED BY <4>1, <4>2
    <3> QED BY <2>3, <3>1, <3>2 DEF OneFlag
  <2>7. Holds(l, buffer', flags', Append(head, wire[1]))
    BY <1>1, <2>1, <2>6 DEF Holds, u
  <2> QED BY <1>1, <1>2, <2>7, StayGood
<1> QED BY <1>3, <1>4

(* The invariant holds at first, and every step preserves it.              *)
LEMMA IInvInit == Init => IInv
<1> SUFFICES ASSUME Init PROVE IInv
  OBVIOUS
<1>1. TypeOK
  BY TypeInit
<1> DEFINE e == <<>>
<1>2. line \in Lines /\ sent = <<>> /\ wire = <<>> /\ buffer = <<>> /\ flags = {} /\ hit = {} /\ delivered = <<>>
  BY DEF Init
<1>3. e \o e = e /\ Len(e) = 0 /\ e \in Seq(Tagged(line, <<>>)) /\ 1 .. 0 = {} /\ 0 \in 0 .. Len(e)
  OBVIOUS
<1>4. Counted(line, e, {}, e, e, 0)
  BY <1>3 DEF Counted
<1>5. Stream(line, e, {}, 0, e)
  BY <1>3 DEF Stream, Later, Ordered, Clean, Ended, Closed
<1>6. Pending(line, e, {}, Done(e), e)
  BY <1>3 DEF Pending, Due
<1>7. InPlace(line, e, e) /\ Holds(line, e, {}, e)
  BY <1>3 DEF InPlace, Holds, Mirrors, OneFlag, Decodes
<1>8. Good(line, e, e, {}, e, e, {}, e, e, 0)
  BY <1>3, <1>4, <1>5, <1>6, <1>7 DEF Good
<1> QED BY <1>1, <1>2, <1>8 DEF IInv

LEMMA IInvNext == IInv /\ [Next]_vars => IInv'
<1> SUFFICES ASSUME IInv, [Next]_vars PROVE IInv'
  OBVIOUS
<1>1. TypeOK /\ TypeOK'
  BY TypeNext DEF IInv
<1>2. PICK head, at, m : Good(line, sent, wire, hit, delivered, buffer, flags, head, at, m)
  BY DEF IInv
<1>3. SUFFICES \E head2, at2, m2 : Good(line', sent', wire', hit', delivered', buffer', flags', head2, at2, m2)
  BY <1>1 DEF IInv
<1>4. ASSUME NEW p \in line.packets, NEW shared \in BOOLEAN, send_packet(p, shared)
      PROVE  \E head2, at2, m2 : Good(line', sent', wire', hit', delivered', buffer', flags', head2, at2, m2)
  <2>1. Good(line, sent', wire', hit, delivered, buffer, flags, head, at, m)
    BY <1>1, <1>2, <1>4, SendGood
  <2>2. line' = line /\ hit' = hit /\ delivered' = delivered /\ buffer' = buffer /\ flags' = flags
    BY <1>4 DEF send_packet
  <2> QED BY <2>1, <2>2
<1>5. ASSUME NEW n \in 1 .. READ_CHUNK, read_chunk(n)
      PROVE  \E head2, at2, m2 : Good(line', sent', wire', hit', delivered', buffer', flags', head2, at2, m2)
  <2>1. PICK head2 : Good(line, sent, wire', hit, delivered, buffer', flags, head2, at, m)
    BY <1>1, <1>2, <1>5, ReadChunkGood
  <2>2. line' = line /\ sent' = sent /\ hit' = hit /\ delivered' = delivered /\ flags' = flags
    BY <1>5 DEF read_chunk
  <2> QED BY <2>1, <2>2
<1>6. ASSUME take_packet
      PROVE  \E head2, at2, m2 : Good(line', sent', wire', hit', delivered', buffer', flags', head2, at2, m2)
  <2>1. PICK head2, at2, m2 : Good(line, sent, wire, hit, delivered', buffer', flags, head2, at2, m2)
    BY <1>1, <1>2, <1>6, TakePacketGood
  <2>2. line' = line /\ sent' = sent /\ wire' = wire /\ hit' = hit /\ flags' = flags
    BY <1>6 DEF take_packet
  <2> QED BY <2>1, <2>2
<1>7. ASSUME read_byte
      PROVE  \E head2, at2, m2 : Good(line', sent', wire', hit', delivered', buffer', flags', head2, at2, m2)
  <2>1. wire # <<>> /\ wire' = Tail(wire) /\ line' = line /\ sent' = sent /\ hit' = hit
    BY <1>7 DEF read_byte
  <2>2. CASE line.reader = "serial" /\ serial_byte(wire[1].byte) /\ UNCHANGED flags
    <3>1. PICK head2, at2, m2 : Good(line, sent, Tail(wire), hit, delivered', buffer', flags, head2, at2, m2)
      BY <1>1, <1>2, <2>1, <2>2, SerialGood
    <3> QED BY <2>1, <2>2, <3>1
  <2>3. CASE line.reader = "uart" /\ wire[1].byte = "FEND" /\ uart_end
    <3>1. PICK head2, at2, m2 : Good(line, sent, Tail(wire), hit, delivered', buffer', flags', head2, at2, m2)
      BY <1>1, <1>2, <2>1, <2>3, UartEndGood
    <3> QED BY <2>1, <3>1
  <2>4. CASE line.reader = "uart" /\ wire[1].byte # "FEND" /\ uart_byte(wire[1].byte)
    <3>1. PICK head2, at2, m2 : Good(line, sent, Tail(wire), hit, delivered', buffer', flags', head2, at2, m2)
      BY <1>1, <1>2, <2>1, <2>4, UartByteGood
    <3> QED BY <2>1, <3>1
  <2> QED BY <1>7, <2>2, <2>3, <2>4 DEF read_byte
<1>8. ASSUME NEW i \in 1 .. Len(wire), Lose(i)
      PROVE  \E head2, at2, m2 : Good(line', sent', wire', hit', delivered', buffer', flags', head2, at2, m2)
  <2>1. Good(line, sent, wire', hit', delivered, buffer, flags, head, at, m)
    BY <1>1, <1>2, <1>8, LoseGood
  <2>2. line' = line /\ sent' = sent /\ delivered' = delivered /\ buffer' = buffer /\ flags' = flags
    BY <1>8 DEF Lose
  <2> QED BY <2>1, <2>2
<1>9. CASE UNCHANGED vars
  <2>1. line' = line /\ sent' = sent /\ wire' = wire /\ hit' = hit /\ delivered' = delivered /\ buffer' = buffer
        /\ flags' = flags
    BY <1>9 DEF vars
  <2> QED BY <1>2, <2>1
<1> QED BY <1>4, <1>5, <1>6, <1>7, <1>8, <1>9 DEF Next

(* The invariant implies the two properties.                               *)
LEMMA CountedAccount ==
  ASSUME NEW at, NEW m \in 0 .. Len(sent), Len(sent) \in Nat, Counted(line, sent, hit, delivered, at, m)
  PROVE  Account(at) /\ at \in [1 .. Len(delivered) -> 1 .. Len(sent)]
<1>1. /\ at \in [1 .. Len(delivered) -> 1 .. m]
      /\ \A i, j \in 1 .. Len(delivered) : i < j => at[i] < at[j]
      /\ \A i \in 1 .. Len(delivered) : at[i] \notin hit => delivered[i] = sent[at[i]]
  BY DEF Counted
<1>2. 1 .. m \subseteq 1 .. Len(sent)
  OBVIOUS
<1>3. at \in [1 .. Len(delivered) -> 1 .. Len(sent)]
  BY <1>1, <1>2
<1> QED BY <1>1, <1>3 DEF Account

LEMMA FitsEither ==
  ASSUME line \in Lines, NEW p
  PROVE  Fits(p) <=> FitsOn(line, p)
<1>1. line.reader \in {"tcp", "serial", "uart"}
  BY LineFacts
<1>2. FrameOf(line, p) = frame(p)
  BY DEF FrameOf, frame
<1>3. CASE line.reader = "tcp"
  BY <1>3 DEF Fits, FitsOn
<1>4. CASE line.reader = "serial"
  BY <1>2, <1>4 DEF Fits, FitsOn
<1>5. CASE line.reader = "uart"
  BY <1>5 DEF Fits, FitsOn
<1> QED BY <1>1, <1>3, <1>4, <1>5

LEMMA IInvIntact == IInv => Intact
<1> SUFFICES ASSUME IInv PROVE Intact
  OBVIOUS
<1>1. PICK head, at, m : Good(line, sent, wire, hit, delivered, buffer, flags, head, at, m)
  BY DEF IInv
<1>2. m \in 0 .. Len(sent) /\ Counted(line, sent, hit, delivered, at, m)
  BY <1>1 DEF Good
<1>3. Len(sent) \in Nat
  BY DEF IInv, TypeOK
<1>4. Account(at) /\ at \in [1 .. Len(delivered) -> 1 .. Len(sent)]
  BY <1>2, <1>3, CountedAccount
<1> QED BY <1>4 DEF Intact

LEMMA IInvRecovers == IInv => Recovers
<1> SUFFICES ASSUME IInv, wire = <<>>, line.reader = "tcp" => Roomy /\ Cardinality(Flags) < 2
             PROVE  \E at \in [1 .. Len(delivered) -> 1 .. Len(sent)] :
                      Account(at) /\ Undamaged \subseteq Range(at) /\ Range(at) \subseteq Undamaged \cup hit
  BY DEF Recovers
<1> DEFINE l == line
           s == sent
<1>1. PICK head, at, m : Good(line, sent, wire, hit, delivered, buffer, flags, head, at, m)
  BY DEF IInv
<1>2. /\ m \in 0 .. Len(s) /\ Counted(l, s, hit, delivered, at, m) /\ Pending(l, s, hit, Done(at), head \o wire)
      /\ Holds(l, buffer, flags, head) /\ head \in Seq(Tagged(l, s))
  BY <1>1 DEF Good
<1>3. line \in Lines /\ Len(s) \in Nat /\ Len(buffer) \in Nat
  BY DEF IInv, TypeOK
<1>4. Account(at) /\ at \in [1 .. Len(delivered) -> 1 .. Len(sent)]
  BY <1>2, <1>3, CountedAccount
<1>5. Range(at) = Done(at)
  BY DEF Range, Done
<1>6. head \o wire = head /\ Len(head) \in Nat
  <2> DEFINE T == Tagged(l, s)
  <2>1. head \in Seq(T)
    BY <1>2
  <2> HIDE DEF T
  <2> QED BY <2>1
<1>7. ASSUME NEW a, NEW b, NEW i \in 1 .. Len(head), Chunk(l, head, a, b), a < i, i < b PROVE FALSE
  <2>1. a \in 1 .. Len(head) /\ b \in 1 .. Len(head) /\ a < b /\ head[a].byte = Flag(l) /\ head[b].byte = Flag(l)
    BY <1>7 DEF Chunk
  <2>2. CASE l.reader = "tcp"
    <3>1. Len(head) = Len(buffer) /\ \A j \in 1 .. Len(buffer) : head[j].byte = buffer[j]
      BY <1>2, <2>2 DEF Holds, Mirrors
    <3>2. Flag(l) = "FLAG"
      BY <2>2 DEF Flag
    <3>3. a \in Flags /\ b \in Flags
      BY <2>1, <3>1, <3>2 DEF Flags
    <3>4. Flags \subseteq 1 .. Len(buffer) /\ Cardinality(Flags) < 2
      BY <2>2 DEF Flags
    <3>5. a = b
      BY <1>3, <3>3, <3>4, FewFlags
    <3> QED BY <1>6, <2>1, <3>5
  <2>3. CASE l.reader # "tcp"
    <3>1. OneFlag(head) /\ Flag(l) = "FEND"
      BY <1>2, <2>3 DEF Holds, Flag
    <3>2. b \in 2 .. Len(head) /\ head # <<>>
      BY <1>6, <2>1
    <3> QED BY <2>1, <3>1, <3>2 DEF OneFlag
  <2> QED BY <2>2, <2>3
<1>8. Undamaged \subseteq Range(at)
  <2> SUFFICES ASSUME NEW k \in Undamaged, k \notin Done(at) PROVE FALSE
    BY <1>5
  <2>1. k \in 1 .. Len(s) /\ k \notin hit /\ FitsOn(l, s[k])
    BY <1>3, FitsEither DEF Undamaged
  <2>2. l.reader = "tcp" => RoomyOn(l)
    BY DEF Roomy, RoomyOn, frame, FrameOf
  <2>3. k \in Due(l, s, hit)
    BY <2>1, <2>2 DEF Due
  <2>4. \E a, b, i \in 1 .. Len(head) : Chunk(l, head, a, b) /\ a < i /\ i < b /\ head[i].of = k
    BY <1>2, <1>6, <2>3 DEF Pending
  <2> QED BY <1>7, <2>4
<1>9. Range(at) \subseteq Undamaged \cup hit
  <2> SUFFICES ASSUME NEW i \in 1 .. Len(delivered), at[i] \notin hit PROVE at[i] \in Undamaged
    BY <1>4, <1>5 DEF Done
  <2>1. at[i] \in 1 .. Len(s)
    BY <1>4
  <2>2. FitsOn(l, s[at[i]])
    BY <1>2 DEF Counted
  <2> QED BY <1>3, <2>1, <2>2, FitsEither DEF Undamaged
<1> QED BY <1>4, <1>8, <1>9

(* The invariant, for every line, every set of packets and every bound.    *)
THEOREM IInvCorrect == Spec => []IInv
<1> QED BY IInvInit, IInvNext, PTL DEF Spec

(* What take_packet, the serial reader and KissStreamDecoder hand on are   *)
(* packets that were sent, whole and in the order of sending, each at most *)
(* once, whatever the chunks, the sizes of the buffers and the packets     *)
(* discarded; a lost byte spoils no packet but its own.                    *)
THEOREM IntactCorrect == Spec => []Intact
<1> QED BY IInvCorrect, IInvIntact, PTL

(* The readers resynchronise: once the stream is read, every packet that   *)
(* lost no byte and fits the reader's buffer has been handed on.           *)
THEOREM RecoversCorrect == Spec => []Recovers
<1> QED BY IInvCorrect, IInvRecovers, PTL
===========================================================================
