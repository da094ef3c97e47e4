---------------------------- MODULE BlasterProofs ----------------------------
(***************************************************************************)
(* Lemmas about Blaster: what the wires, the engine of blaster.c and the   *)
(* TAP are, that jtag.c reads the IDCODE, and what the byte strings of     *)
(* fpga_config.c make of the TAP: the moves to an instruction or to the    *)
(* data, the bits of an image through shift commands, and the start.       *)
(*                                                                         *)
(* Blaster computes with loops: the bits of a byte, the bytes of a packet, *)
(* the pulses of a walk.  They are recursive functions on 0..n, which the  *)
(* lemmas of Loops reason about.                                           *)
(***************************************************************************)
EXTENDS Blaster, Loops, SequenceTheorems, TLAPS

(***************************************************************************)
(* The wires and the TAP                                                   *)
(***************************************************************************)
B01  == {0, 1}
Byte == 0 .. 255
Taps == {"TLR", "RTI", "SelDR", "CapDR", "ShDR", "Ex1DR", "PauDR", "Ex2DR", "UpdDR",
         "SelIR", "CapIR", "ShIR", "Ex1IR", "PauIR", "Ex2IR", "UpdIR"}
Cores == {Blank, Factory} \cup Images
Full == {s \in Seq(B01) : s # <<>>}

\* What a record of the wires, the engine and the TAP can be.
Wires == [fam : {Cyclone, Artix}, tap : Taps, instr : Seq(B01), reg : Full, cfg : Seq(B01),
          ticks : Nat, core : Cores, pio : BOOLEAN, dirT : BOOLEAN, dirM : BOOLEAN, tck : B01,
          tms : B01, tdi : B01, oe : BOOLEAN, left : 0 .. 63, rd : BOOLEAN, init : BOOLEAN,
          jinit : BOOLEAN, pioOk : BOOLEAN]

LEMMA TapNextType == \A s \in Taps, t \in B01 : TapNext[s][t + 1] \in Taps
BY DEF Taps, B01, TapNext

LEMMA BitsType == ASSUME NEW n \in Nat, NEW w \in Nat PROVE Bits(n, w) \in Seq(B01) /\ Len(Bits(n, w)) = w
<1>1. \A i \in 1 .. w : (n \div 2^(i - 1)) % 2 \in B01
  BY DEF B01
<1> QED
  BY <1>1 DEF Bits

LEMMA EnterType == ASSUME NEW w \in Wires, NEW s \in Taps PROVE Enter(w, s) \in Wires
<1>1. w.reg \in Full /\ w.instr \in Seq(B01) /\ w.ticks \in Nat /\ w.core \in Cores /\ w.fam \in {Cyclone, Artix}
  BY DEF Wires
<1>2. CASE s = "TLR"
  <2>1. IdcodeIr \in Seq(B01)
    BY DEF IdcodeIr
  <2> QED
    BY <1>2, <2>1 DEF Enter, Wires
<1>3. CASE s = "UpdIR"
  <2>1. w.reg \in Seq(B01) /\ <<>> \in Seq(B01) /\ Blank \in Cores
    BY <1>1 DEF Full, Cores
  <2> QED
    BY <1>3, <2>1 DEF Enter, Wires
<1>4. CASE s = "CapIR"
  <2> DEFINE r == [i \in 1 .. w.fam.ir |-> IF i = 1 THEN 1 ELSE 0]
  <2>1. w.fam.ir \in {6, 10}
    BY <1>1 DEF Cyclone, Artix
  <2>2. r \in Full
    <3>1. ASSUME NEW n \in Nat \ {0} PROVE [i \in 1 .. n |-> IF i = 1 THEN 1 ELSE 0] \in Full
      <4> DEFINE q == [i \in 1 .. n |-> IF i = 1 THEN 1 ELSE 0]
      <4>1. q \in Seq(B01) /\ Len(q) = n
        BY DEF B01
      <4> HIDE DEF q
      <4>2. q # <<>>
        BY <4>1
      <4>3. q \in Full
        BY <4>1, <4>2 DEF Full
      <4> QED
        BY <4>3 DEF q
    <3> QED
      BY <2>1, <3>1
  <2> HIDE DEF r
  <2>3. [w EXCEPT !.tap = s, !.reg = r] \in Wires
    BY <2>2 DEF Wires
  <2> QED
    BY <1>4, <2>3 DEF Enter, r
<1>5. CASE s = "CapDR"
  <2>1. IdCode \in Full /\ <<0>> \in Full
    BY BlasterAssumption DEF Full, B01
  <2> QED
    BY <1>5, <2>1 DEF Enter, Wires
<1>6. CASE s = "RTI" /\ w.instr = Bits(w.fam.startup, w.fam.ir) /\ w.ticks < StartTicks
  <2>1. Started(w.fam, w.cfg) \in Cores
    BY DEF Started, Cores
  <2>2. w.ticks + 1 \in Nat
    BY <1>1
  <2> QED
    BY <1>6, <2>1, <2>2 DEF Enter, Wires
<1>7. CASE /\ s # "TLR" /\ s # "UpdIR" /\ s # "CapIR" /\ s # "CapDR"
           /\ ~(s = "RTI" /\ w.instr = Bits(w.fam.startup, w.fam.ir) /\ w.ticks < StartTicks)
  BY <1>7 DEF Enter, Wires
<1> QED
  BY <1>2, <1>3, <1>4, <1>5, <1>6, <1>7

\* What a register holds after a bit was shifted in, and a clock.
LEMMA ShiftedIn ==
  ASSUME NEW r \in Full, NEW b \in B01
  PROVE  Append(Tail(r), b) \in Full /\ Len(Append(Tail(r), b)) = Len(r)
<1>1. r \in Seq(B01) /\ r # <<>>
  BY DEF Full
<1>2. Tail(r) \in Seq(B01) /\ Len(Tail(r)) = Len(r) - 1 /\ Len(r) \in Nat
  BY <1>1
<1>3. Append(Tail(r), b) \in Seq(B01) /\ Len(Append(Tail(r), b)) = Len(r) - 1 + 1
  BY <1>2
<1>4. Append(Tail(r), b) # <<>>
  BY <1>2, AppendProperties
<1> QED
  BY <1>2, <1>3, <1>4 DEF Full

LEMMA ClockType == ASSUME NEW w \in Wires, NEW tms \in B01, NEW tdi \in B01 PROVE Clock(w, tms, tdi) \in Wires
<1> DEFINE shifted ==
        IF w.tap = "ShDR" /\ w.instr = Bits(w.fam.config, w.fam.ir) THEN [w EXCEPT !.cfg = Append(@, tdi)]
        ELSE IF w.tap \in {"ShDR", "ShIR"} THEN [w EXCEPT !.reg = Append(Tail(@), tdi)]
        ELSE w
<1>1. w.reg \in Full /\ w.cfg \in Seq(B01) /\ w.tap \in Taps
  BY DEF Wires
<1>2. Append(Tail(w.reg), tdi) \in Full
  BY <1>1, ShiftedIn
<1>3. Append(w.cfg, tdi) \in Seq(B01)
  BY <1>1
<1>4. shifted \in Wires
  BY <1>2, <1>3 DEF Wires
<1>5. TapNext[w.tap][tms + 1] \in Taps
  BY <1>1, TapNextType
<1> HIDE DEF shifted
<1>6. Enter(shifted, TapNext[w.tap][tms + 1]) \in Wires
  BY <1>4, <1>5, EnterType
<1> QED
  BY <1>6 DEF Clock, shifted

\* What a clock leaves alone: everything but the TAP.
Beside(w, k) ==
  /\ k.fam = w.fam /\ k.pio = w.pio /\ k.dirT = w.dirT /\ k.dirM = w.dirM
  /\ k.tck = w.tck /\ k.tms = w.tms /\ k.tdi = w.tdi /\ k.oe = w.oe /\ k.left = w.left
  /\ k.rd = w.rd /\ k.init = w.init /\ k.jinit = w.jinit /\ k.pioOk = w.pioOk

LEMMA EnterBeside == ASSUME NEW w \in Wires, NEW s \in Taps PROVE Beside(w, Enter(w, s))
<1>1. CASE s = "TLR"
  BY <1>1 DEF Enter, Wires, Beside
<1>2. CASE s = "UpdIR"
  BY <1>2 DEF Enter, Wires, Beside
<1>3. CASE s = "CapIR"
  BY <1>3 DEF Enter, Wires, Beside
<1>4. CASE s = "CapDR"
  BY <1>4 DEF Enter, Wires, Beside
<1>5. CASE s = "RTI" /\ w.instr = Bits(w.fam.startup, w.fam.ir) /\ w.ticks < StartTicks
  BY <1>5 DEF Enter, Wires, Beside
<1>6. CASE /\ s # "TLR" /\ s # "UpdIR" /\ s # "CapIR" /\ s # "CapDR"
           /\ ~(s = "RTI" /\ w.instr = Bits(w.fam.startup, w.fam.ir) /\ w.ticks < StartTicks)
  BY <1>6 DEF Enter, Wires, Beside
<1> QED
  BY <1>1, <1>2, <1>3, <1>4, <1>5, <1>6

LEMMA ClockBeside ==
  ASSUME NEW w \in Wires, NEW tms \in B01, NEW tdi \in B01 PROVE Beside(w, Clock(w, tms, tdi))
<1> DEFINE shifted ==
        IF w.tap = "ShDR" /\ w.instr = Bits(w.fam.config, w.fam.ir) THEN [w EXCEPT !.cfg = Append(@, tdi)]
        ELSE IF w.tap \in {"ShDR", "ShIR"} THEN [w EXCEPT !.reg = Append(Tail(@), tdi)]
        ELSE w
<1>1. w.reg \in Full /\ w.cfg \in Seq(B01) /\ w.tap \in Taps
  BY DEF Wires
<1>2. Append(Tail(w.reg), tdi) \in Full
  BY <1>1, ShiftedIn
<1>3. Append(w.cfg, tdi) \in Seq(B01)
  BY <1>1
<1>4. shifted \in Wires /\ Beside(w, shifted)
  <2> DEFINE c == [w EXCEPT !.cfg = Append(w.cfg, tdi)]
             g == [w EXCEPT !.reg = Append(Tail(w.reg), tdi)]
  <2>1. c \in Wires
    BY <1>3 DEF Wires
  <2>2. Beside(w, c)
    BY DEF Wires, Beside
  <2>3. g \in Wires
    BY <1>2 DEF Wires
  <2>4. Beside(w, g)
    BY DEF Wires, Beside
  <2>5. Beside(w, w)
    BY DEF Beside
  <2>6. shifted = c \/ shifted = g \/ shifted = w
    BY DEF c, g
  <2> HIDE DEF c, g, shifted
  <2> QED
    BY <2>1, <2>2, <2>3, <2>4, <2>5, <2>6
<1>5. TapNext[w.tap][tms + 1] \in Taps
  BY <1>1, TapNextType
<1> HIDE DEF shifted
<1>6. Beside(shifted, Enter(shifted, TapNext[w.tap][tms + 1]))
  BY <1>4, <1>5, EnterBeside
<1>7. Clock(w, tms, tdi) = Enter(shifted, TapNext[w.tap][tms + 1])
  BY DEF Clock, shifted
<1> QED
  BY <1>4, <1>6, <1>7 DEF Beside

LEMMA LineTypes == ASSUME NEW w \in Wires PROVE TmsLine(w) \in B01 /\ TdiLine(w) \in B01 /\ TckLine(w) \in B01
BY DEF Wires, TmsLine, TdiLine, TckLine, B01

LEMMA TdoType == ASSUME NEW w \in Wires PROVE TDO(w) \in B01
<1>1. w.reg \in Seq(B01) /\ w.reg # <<>>
  BY DEF Wires, Full
<1>2. Head(w.reg) \in B01
  BY <1>1
<1> QED
  BY <1>2 DEF TDO, B01

LEMMA SettleType ==
  ASSUME NEW i, NEW w \in Wires
  PROVE  Settle(i, w) \in Wires /\ Beside(w, Settle(i, w))
<1>1. Beside(w, w)
  BY DEF Beside
<1> QED
  BY <1>1, LineTypes, ClockType, ClockBeside DEF Settle

LEMMA LevelsType ==
  ASSUME NEW w \in Wires, NEW tck \in B01, NEW tms \in B01, NEW tdi \in B01
  PROVE  /\ Levels(w, tck, tms, tdi) \in Wires
         /\ Beside([w EXCEPT !.tck = tck, !.tms = tms, !.tdi = tdi], Levels(w, tck, tms, tdi))
         /\ Levels(w, tck, tms, tdi).left = w.left /\ Levels(w, tck, tms, tdi).fam = w.fam
<1> DEFINE k == [w EXCEPT !.tck = tck, !.tms = tms, !.tdi = tdi]
<1>1. k \in Wires /\ k.left = w.left /\ k.fam = w.fam
  BY DEF Wires
<1>2. Levels(w, tck, tms, tdi) = Settle(w, k)
  BY DEF Levels
<1> HIDE DEF k
<1>3. Settle(w, k) \in Wires /\ Beside(k, Settle(w, k))
  BY <1>1, SettleType
<1>4. Settle(w, k).left = w.left /\ Settle(w, k).fam = w.fam
  BY <1>1, <1>3 DEF Beside
<1>5. /\ Levels(w, tck, tms, tdi) \in Wires /\ Beside(k, Levels(w, tck, tms, tdi))
      /\ Levels(w, tck, tms, tdi).left = w.left /\ Levels(w, tck, tms, tdi).fam = w.fam
  BY <1>2, <1>3, <1>4
<1> QED
  BY <1>5 DEF k

LEMMA DirectionsType ==
  ASSUME NEW w \in Wires, NEW on \in BOOLEAN
  PROVE  /\ Directions(w, on) \in Wires
         /\ Beside([w EXCEPT !.dirT = on, !.dirM = on], Directions(w, on))
<1>1. [w EXCEPT !.dirT = on, !.dirM = on] \in Wires
  BY DEF Wires
<1> QED
  BY <1>1, SettleType DEF Directions

(***************************************************************************)
(* The engine                                                              *)
(***************************************************************************)
LEMMA InitType ==
  ASSUME NEW w \in Wires
  PROVE  /\ blaster_init(w) \in Wires /\ blaster_init(w).fam = w.fam /\ blaster_init(w).pio = FALSE
         /\ blaster_init(w).tck = 0
<1> DEFINE m == [w EXCEPT !.pio = FALSE, !.tck = 0, !.tms = 0, !.tdi = 0]
           d == Directions(m, TRUE)
<1>1. m \in Wires /\ m.fam = w.fam /\ m.pio = FALSE /\ m.tck = 0
  BY DEF Wires, B01
<1> HIDE DEF m
<1>2. d \in Wires /\ d.fam = w.fam /\ d.pio = FALSE /\ d.tck = 0
  <2>1. d \in Wires /\ Beside([m EXCEPT !.dirT = TRUE, !.dirM = TRUE], d)
    BY <1>1, DirectionsType
  <2> HIDE DEF d
  <2> QED
    BY <1>1, <2>1 DEF Beside, Wires
<1>3. blaster_init(w) = [d EXCEPT !.init = TRUE]
  BY DEF blaster_init, m
<1> HIDE DEF d
<1> QED
  BY <1>2, <1>3 DEF Wires

LEMMA OutputType ==
  ASSUME NEW w \in Wires, NEW on \in BOOLEAN
  PROVE  LET o == output_enable(w, on)
         IN  /\ o \in Wires /\ o.fam = w.fam /\ o.pio = w.pio /\ o.tck = w.tck /\ o.left = w.left /\ o.oe = on
<1> DEFINE m == [w EXCEPT !.oe = on]
           d == Directions(m, on)
<1>1. m \in Wires /\ m.fam = w.fam /\ m.pio = w.pio /\ m.tck = w.tck /\ m.left = w.left /\ m.oe = on
  BY DEF Wires
<1> HIDE DEF m
<1>2. d \in Wires /\ d.fam = w.fam /\ d.pio = w.pio /\ d.tck = w.tck /\ d.left = w.left /\ d.oe = on
  BY <1>1, DirectionsType DEF Beside, Wires
<1>3. output_enable(w, on) = IF w.oe = on THEN w ELSE d
  BY DEF output_enable, m
<1> HIDE DEF d
<1> QED
  BY <1>2, <1>3

\* blaster_reset leaves the engine between two commands, the pins released or about to be driven
\* from TCK low, unless the PIO has been left in possession of them.
LEMMA ResetType ==
  ASSUME NEW w \in Wires
  PROVE  LET r == blaster_reset(w)
         IN  /\ r \in Wires /\ r.fam = w.fam
             /\ ~w.pio => ~r.pio /\ r.left = 0 /\ ~r.oe /\ r.tck = 0
<1> DEFINE ready == IF w.init THEN w ELSE blaster_init(w)
           m == [ready EXCEPT !.left = 0]
           o == output_enable(m, FALSE)
           l == Levels(o, 0, 0, 0)
<1>1. ready \in Wires /\ ready.fam = w.fam /\ (~w.pio => ~ready.pio)
  BY InitType
<1> HIDE DEF ready
<1>2. m \in Wires /\ m.left = 0 /\ m.fam = ready.fam /\ m.pio = ready.pio
  <2>1. 0 \in 0 .. 63
    OBVIOUS
  <2> QED
    BY <1>1, <2>1 DEF Wires
<1> HIDE DEF m
<1>3. o \in Wires /\ o.fam = m.fam /\ o.pio = m.pio /\ o.left = m.left /\ o.oe = FALSE
  BY <1>2, OutputType
<1> HIDE DEF o
<1>4. l \in Wires /\ l.fam = o.fam /\ l.pio = o.pio /\ l.left = o.left /\ l.oe = o.oe /\ l.tck = 0
  <2>1. l \in Wires /\ Beside([o EXCEPT !.tck = 0, !.tms = 0, !.tdi = 0], l)
    BY <1>3, LevelsType DEF B01
  <2> HIDE DEF l
  <2> QED
    BY <1>3, <2>1 DEF Beside, Wires
<1>5. blaster_reset(w) = l
  BY DEF blaster_reset, ready, m, o
<1> QED
  BY <1>1, <1>2, <1>3, <1>4, <1>5

\* A bit more leaves the count of data bytes to come.
LEMMA ShiftBitType ==
  ASSUME NEW w \in Wires, NEW bit \in B01
  PROVE  ShiftBit(w, bit) \in Wires /\ ShiftBit(w, bit).left = w.left /\ ShiftBit(w, bit).fam = w.fam
<1>1. CASE w.pioOk /\ w.pio
  BY <1>1, LineTypes, ClockType, ClockBeside DEF ShiftBit, Beside
<1>3. CASE w.pioOk /\ ~w.pio
  BY <1>3 DEF ShiftBit
<1>2. CASE ~w.pioOk
  <2> DEFINE m == [w EXCEPT !.tdi = bit]
             k == Levels(m, 1, w.tms, bit)
  <2>1. m \in Wires /\ m.left = w.left /\ m.fam = w.fam
    BY DEF Wires
  <2>2. w.tms \in B01 /\ 0 \in B01 /\ 1 \in B01
    BY DEF Wires, B01
  <2>3. ShiftBit(w, bit) = Levels(k, 0, w.tms, bit)
    BY <1>2 DEF ShiftBit
  <2> HIDE DEF k, m
  <2>4. k \in Wires /\ k.left = m.left /\ k.fam = m.fam
    BY <2>1, <2>2, LevelsType DEF k, Beside, Wires
  <2>5. Levels(k, 0, w.tms, bit) \in Wires /\ Levels(k, 0, w.tms, bit).left = k.left
        /\ Levels(k, 0, w.tms, bit).fam = k.fam
    BY <2>2, <2>4, LevelsType DEF Beside, Wires
  <2> QED
    BY <2>1, <2>3, <2>4, <2>5
<1> QED
  BY <1>1, <1>2, <1>3

LEMMA ByteBitsType == ASSUME NEW b \in Byte PROVE ByteBits[b] \in Seq(B01) /\ Len(ByteBits[b]) = 8
<1>1. ByteBits[b] = Bits(b, 8) /\ b \in Nat
  BY DEF ByteBits, Byte
<1> QED
  BY <1>1, BitsType

LEMMA BitsByteType == ASSUME NEW s \in Seq(B01), Len(s) = 8 PROVE BitsByte(s) \in Byte
<1>1. ASSUME NEW i \in 1 .. 8 PROVE s[i] \in 0 .. 1
  <2>1. s[i] \in B01
    BY ElementOfSeq
  <2> QED
    BY <2>1 DEF B01
<1>2. /\ s[1] \in 0 .. 1 /\ s[2] \in 0 .. 1 /\ s[3] \in 0 .. 1 /\ s[4] \in 0 .. 1
      /\ s[5] \in 0 .. 1 /\ s[6] \in 0 .. 1 /\ s[7] \in 0 .. 1 /\ s[8] \in 0 .. 1
  BY <1>1
<1>3. PICK a \in 0 .. 1, b \in 0 .. 1, c \in 0 .. 1, d \in 0 .. 1,
           e \in 0 .. 1, f \in 0 .. 1, g \in 0 .. 1, h \in 0 .. 1 :
        s[1] = a /\ s[2] = b /\ s[3] = c /\ s[4] = d /\ s[5] = e /\ s[6] = f /\ s[7] = g /\ s[8] = h
  BY <1>2
<1>4. a + 2*b + 4*c + 8*d + 16*e + 32*f + 64*g + 128*h \in 0 .. 255
  OBVIOUS
<1>5. BitsByte(s) = a + 2*b + 4*c + 8*d + 16*e + 32*f + 64*g + 128*h
  BY <1>3 DEF BitsByte
<1> QED
  BY <1>4, <1>5 DEF Byte

\* The eight bits of a data byte, one after the other.
LEMMA ShiftByteLoop ==
  ASSUME NEW w \in Wires, NEW b \in Byte
  PROVE  \E after :
           /\ shift_byte(w, b) = after[8]
           /\ after[0] = [j |-> w, in |-> <<>>]
           /\ \A i \in 1 .. 8 : after[i] = Shifted(after[i - 1], ByteBits[b][i])
<1> DEFINE S == [j : Wires, in : Seq(B01)]
           c == [j |-> w, in |-> <<>>]
           after == CHOOSE h : h = [i \in 0 .. 8 |-> IF i = 0 THEN c ELSE Shifted(h[i - 1], ByteBits[b][i])]
<1>1. ASSUME NEW r \in S, NEW bit \in B01 PROVE Shifted(r, bit) \in S
  <2>1. r.j \in Wires /\ r.in \in Seq(B01)
    OBVIOUS
  <2>2. ShiftBit(r.j, bit) \in Wires /\ TDO(r.j) \in B01
    BY <2>1, ShiftBitType, TdoType
  <2> QED
    BY <2>1, <2>2 DEF Shifted
<1>2. \A i \in 1 .. 8 : ByteBits[b][i] \in B01
  BY ByteBitsType, ElementOfSeq
<1>3. c \in S
  OBVIOUS
<1>4. shift_byte(w, b) = after[8]
  BY DEF shift_byte
<1> HIDE DEF S, c
<1>5. after = [i \in 0 .. 8 |-> IF i = 0 THEN c ELSE Shifted(after[i - 1], ByteBits[b][i])]
  <2> DEFINE g == [p \in S \X (1 .. 8) |-> Shifted(p[1], ByteBits[b][p[2]])]
  <2>1. g \in Steps(S, 8)
    <3>1. ASSUME NEW p \in S \X (1 .. 8) PROVE Shifted(p[1], ByteBits[b][p[2]]) \in S
      BY <1>1, <1>2
    <3> QED
      BY <3>1 DEF Steps
  <2> HIDE DEF g
  <2>2. PICK f : IsLoop(f, S, c, g, 8)
    BY <1>3, <2>1, LoopExists
  <2>3. \A i \in 1 .. 8 : g[<<f[i - 1], i>>] = Shifted(f[i - 1], ByteBits[b][i])
    BY <2>2 DEF g, IsLoop
  <2>4. f = [i \in 0 .. 8 |-> IF i = 0 THEN c ELSE Shifted(f[i - 1], ByteBits[b][i])]
    BY <2>2, <2>3 DEF IsLoop
  <2> QED
    BY <2>4
<1> HIDE DEF after
<1>6. after[0] = c /\ \A i \in 1 .. 8 : after[i] = Shifted(after[i - 1], ByteBits[b][i])
  <2>1. \A i \in 1 .. 8 : i \in 0 .. 8 /\ i # 0
    OBVIOUS
  <2>2. 0 \in 0 .. 8
    OBVIOUS
  <2> QED
    BY <1>5, <2>1, <2>2
<1> QED
  BY <1>4, <1>6 DEF c

\* A data byte: eight bits, as many read, and the count of data bytes as it was.
LEMMA ShiftByteType ==
  ASSUME NEW w \in Wires, NEW b \in Byte
  PROVE  /\ shift_byte(w, b).j \in Wires
         /\ shift_byte(w, b).j.left = w.left /\ shift_byte(w, b).j.fam = w.fam
         /\ shift_byte(w, b).in \in Seq(B01) /\ Len(shift_byte(w, b).in) = 8
<1> DEFINE S == {r \in [j : Wires, in : Seq(B01)] : r.j.left = w.left /\ r.j.fam = w.fam}
           T == [i \in 0 .. 8 |-> {r \in S : Len(r.in) = i}]
<1>1. ASSUME NEW r \in S, NEW bit \in B01
      PROVE  Shifted(r, bit) \in S /\ Len(Shifted(r, bit).in) = Len(r.in) + 1
  <2>1. r.j \in Wires /\ r.in \in Seq(B01) /\ r.j.left = w.left /\ r.j.fam = w.fam
    OBVIOUS
  <2>2. /\ ShiftBit(r.j, bit) \in Wires /\ ShiftBit(r.j, bit).left = w.left
        /\ ShiftBit(r.j, bit).fam = w.fam /\ TDO(r.j) \in B01
    BY <2>1, ShiftBitType, TdoType
  <2>3. Append(r.in, TDO(r.j)) \in Seq(B01) /\ Len(Append(r.in, TDO(r.j))) = Len(r.in) + 1
    BY <2>1, <2>2
  <2> QED
    BY <2>2, <2>3 DEF Shifted
<1>2. \A i \in 1 .. 8 : ByteBits[b][i] \in B01
  BY ByteBitsType, ElementOfSeq
<1>3. PICK after : /\ shift_byte(w, b) = after[8]
                   /\ after[0] = [j |-> w, in |-> <<>>]
                   /\ \A i \in 1 .. 8 : after[i] = Shifted(after[i - 1], ByteBits[b][i])
  BY ShiftByteLoop
<1>4. after[0] \in T[0]
  BY <1>3
<1> HIDE DEF S
<1>5. ASSUME NEW i \in 1 .. 8, after[i - 1] \in T[i - 1] PROVE after[i] \in T[i]
  <2>1. after[i - 1] \in S /\ Len(after[i - 1].in) = i - 1 /\ i \in 1 .. 8
    BY <1>5
  <2>2. after[i] \in S /\ Len(after[i].in) = i - 1 + 1
    BY <1>1, <1>2, <1>3, <2>1
  <2> QED
    BY <2>1, <2>2
<1> HIDE DEF T
<1>6. \A i \in 0 .. 8 : after[i] \in T[i]
  BY <1>4, <1>5, LoopKeeps
<1>7. after[8] \in S /\ Len(after[8].in) = 8
  BY <1>6 DEF T
<1> QED
  BY <1>3, <1>7 DEF S

\* A run of the engine: the wires, and the bytes read back so far.
Runs == [j : Wires, tx : Seq(Byte)]

LEMMA EndByteType ==
  ASSUME NEW w \in Wires, w.left > 0 PROVE EndByte(w) \in Wires /\ EndByte(w).fam = w.fam
<1>1. w.left \in 0 .. 63 /\ w.left - 1 \in 0 .. 63 /\ 0 \in 0 .. 63
  BY DEF Wires
<1>2. CASE w.left = 1 /\ w.pioOk
  BY <1>1, <1>2 DEF EndByte, shift_exit_pio, Wires
<1>3. CASE ~(w.left = 1 /\ w.pioOk)
  BY <1>1, <1>3 DEF EndByte, Wires
<1> QED
  BY <1>2, <1>3

LEMMA ProcessByteType ==
  ASSUME NEW s \in Runs, NEW b \in Byte
  PROVE  /\ ProcessByte(s, b) \in Runs /\ Len(ProcessByte(s, b).tx) <= Len(s.tx) + 1
         /\ ProcessByte(s, b).j.fam = s.j.fam
<1>1. s.j \in Wires /\ s.tx \in Seq(Byte) /\ b \in Nat
  BY DEF Runs, Byte
<1>2. s.j.left \in 0 .. 63 /\ s.j.tms \in B01 /\ s.j.tdi \in B01 /\ s.j.rd \in BOOLEAN /\ s.j.pioOk \in BOOLEAN
  BY <1>1 DEF Wires
<1>3. ASSUME NEW t \in Seq(Byte), NEW x \in Byte
      PROVE  Append(t, x) \in Seq(Byte) /\ Len(Append(t, x)) = Len(t) + 1
  OBVIOUS
<1>4. Len(s.tx) \in Nat
  BY <1>1
<1>5. CASE s.j.left > 0
  <2> DEFINE r == shift_byte(s.j, b)
  <2>1. r.j \in Wires /\ r.j.left = s.j.left /\ r.j.fam = s.j.fam /\ BitsByte(r.in) \in Byte
    BY <1>1, ShiftByteType, BitsByteType
  <2> HIDE DEF r
  <2>2. EndByte(r.j) \in Wires /\ EndByte(r.j).fam = s.j.fam
    BY <1>5, <2>1, EndByteType
  <2>3. ProcessByte(s, b) = DataByte(r, s.tx)
    BY <1>5 DEF ProcessByte, r
  <2>4. Append(s.tx, BitsByte(r.in)) \in Seq(Byte) /\ Len(Append(s.tx, BitsByte(r.in))) = Len(s.tx) + 1
    BY <1>1, <1>3, <2>1
  <2> QED
    BY <1>1, <1>4, <2>2, <2>3, <2>4 DEF DataByte, Runs
<1>6. CASE ~(s.j.left > 0) /\ Flag(b, 128)
  <2> DEFINE m == Levels(s.j, 0, s.j.tms, s.j.tdi)
  <2>1. m \in Wires /\ m.fam = s.j.fam
    <3>1. m \in Wires /\ Beside([s.j EXCEPT !.tck = 0, !.tms = s.j.tms, !.tdi = s.j.tdi], m)
      BY <1>1, <1>2, LevelsType DEF B01
    <3> HIDE DEF m
    <3> QED
      BY <1>1, <3>1 DEF Beside, Wires
  <2>2. b % 64 \in 0 .. 63
    BY <1>1
  <2>3. Flag(b, 64) \in BOOLEAN
    BY DEF Flag
  <2>4. shift_enter(s.j, b) = [m EXCEPT !.rd = Flag(b, 64), !.left = b % 64, !.pio = s.j.pioOk]
    BY DEF shift_enter
  <2> HIDE DEF m
  <2>5. shift_enter(s.j, b) \in Wires /\ shift_enter(s.j, b).fam = s.j.fam
    BY <1>2, <2>1, <2>2, <2>3, <2>4 DEF Wires
  <2> QED
    BY <1>1, <1>4, <1>6, <2>5 DEF ProcessByte, Runs
<1>7. CASE ~(s.j.left > 0) /\ ~Flag(b, 128)
  <2> DEFINE m == output_enable(s.j, Flag(b, 32))
  <2>1. m \in Wires /\ m.fam = s.j.fam
    BY <1>1, OutputType DEF Flag
  <2>2. Bit(b, 1) \in B01 /\ Bit(b, 2) \in B01 /\ Bit(b, 16) \in B01
    BY <1>1 DEF Bit, B01
  <2>3. ProcessByte(s, b) = bitbang(m, b, s.tx)
    BY <1>7 DEF ProcessByte
  <2> HIDE DEF m
  <2>4. /\ Levels(m, Bit(b, 1), Bit(b, 2), Bit(b, 16)) \in Wires
        /\ Levels(m, Bit(b, 1), Bit(b, 2), Bit(b, 16)).fam = m.fam
    BY <2>1, <2>2, LevelsType DEF Beside, Wires
  <2>5. TDO(m) \in Byte
    BY <2>1, TdoType DEF B01, Byte
  <2>6. Append(s.tx, TDO(m)) \in Seq(Byte) /\ Len(Append(s.tx, TDO(m))) = Len(s.tx) + 1
    BY <1>1, <1>3, <2>5
  <2> QED
    BY <1>1, <1>4, <2>1, <2>3, <2>4, <2>6 DEF bitbang, Runs
<1> QED
  BY <1>5, <1>6, <1>7

\* The bytes of a run, one after the other.
IsRun(after, s, rx, from, to) ==
  /\ Run(s, rx, from, to) = after[to] /\ after[from] = s
  /\ \A i \in (from + 1) .. to : after[i] = ProcessByte(after[i - 1], rx[i])

LEMMA RunLoop ==
  ASSUME NEW s \in Runs, NEW rx \in Seq(Byte), NEW from \in Nat, NEW to \in Nat, from < to, to <= Len(rx)
  PROVE  \E after : IsRun(after, s, rx, from, to)
<1> DEFINE after == CHOOSE h : h = [i \in from .. to |-> IF i = from THEN s ELSE ProcessByte(h[i - 1], rx[i])]
           n == to - from
<1>1. Run(s, rx, from, to) = after[to]
  BY DEF Run, Runs, Wires
<1>2. \A i \in (from + 1) .. to : rx[i] \in Byte
  BY ElementOfSeq
<1>3. n \in Nat
  OBVIOUS
<1>4. after = [i \in from .. to |-> IF i = from THEN s ELSE ProcessByte(after[i - 1], rx[i])]
  <2> DEFINE g == [p \in Runs \X (1 .. n) |-> ProcessByte(p[1], rx[from + p[2]])]
  <2>1. g \in Steps(Runs, n)
    <3>1. ASSUME NEW p \in Runs \X (1 .. n) PROVE ProcessByte(p[1], rx[from + p[2]]) \in Runs
      <4>1. p[1] \in Runs /\ from + p[2] \in (from + 1) .. to
        OBVIOUS
      <4> QED
        BY <1>2, <4>1, ProcessByteType
    <3> QED
      BY <3>1 DEF Steps
  <2> HIDE DEF g, n
  <2>2. PICK f : IsLoop(f, Runs, s, g, n)
    BY <1>3, <2>1, LoopExists
  <2>3. \A i \in 1 .. n : f[i] = ProcessByte(f[i - 1], rx[from + i])
    <3>1. \A i \in 1 .. n : f[i] = g[<<f[i - 1], i>>] /\ f \in [0 .. n -> Runs]
      BY <2>2 DEF IsLoop
    <3>2. \A i \in 1 .. n : i - 1 \in 0 .. n /\ from + i \in (from + 1) .. to
      BY <1>3 DEF n
    <3>3. \A i \in 1 .. n : <<f[i - 1], i>> \in Runs \X (1 .. n)
      BY <3>1, <3>2
    <3> QED
      BY <3>1, <3>3 DEF g
  <2> DEFINE h == [i \in from .. to |-> f[i - from]]
  <2>4. \A i \in from .. to : h[i] = IF i = from THEN s ELSE ProcessByte(h[i - 1], rx[i])
    <3> SUFFICES ASSUME NEW i \in from .. to
                 PROVE  h[i] = IF i = from THEN s ELSE ProcessByte(h[i - 1], rx[i])
      OBVIOUS
    <3>1. CASE i = from
      BY <2>2, <3>1 DEF IsLoop
    <3>2. CASE i # from
      <4>1. i - from \in 1 .. n /\ i - 1 \in from .. to /\ (i - from) - 1 = (i - 1) - from /\ from + (i - from) = i
        BY <3>2 DEF n
      <4>2. h[i] = f[i - from] /\ h[i - 1] = f[(i - from) - 1]
        BY <4>1
      <4>3. f[i - from] = ProcessByte(f[(i - from) - 1], rx[from + (i - from)])
        BY <2>3, <4>1
      <4> QED
        BY <3>2, <4>1, <4>2, <4>3
    <3> QED
      BY <3>1, <3>2
  <2>5. h = [i \in from .. to |-> IF i = from THEN s ELSE ProcessByte(h[i - 1], rx[i])]
    BY <2>4
  <2> QED
    BY <2>5
<1> HIDE DEF after, n
<1>5. after[from] = s /\ \A i \in (from + 1) .. to : after[i] = ProcessByte(after[i - 1], rx[i])
  <2>1. from \in from .. to /\ \A i \in (from + 1) .. to : i \in from .. to /\ i # from
    OBVIOUS
  <2> QED
    BY <1>4, <2>1
<1> QED
  BY <1>1, <1>5 DEF IsRun

\* A byte of a run, as it changes the wires; what it reads back does not matter to them.
Fed(w, b) == ProcessByte([j |-> w, tx |-> <<>>], b).j

LEMMA FedAlone ==
  ASSUME NEW s \in Runs, NEW b \in Byte
  PROVE  ProcessByte(s, b).j = Fed(s.j, b) /\ Fed(s.j, b) \in Wires /\ Fed(s.j, b).fam = s.j.fam
<1> DEFINE q == [j |-> s.j, tx |-> <<>>]
<1>1. q \in Runs /\ q.j = s.j
  BY DEF Runs
<1>2. ProcessByte(q, b) \in Runs /\ ProcessByte(q, b).j.fam = s.j.fam
  BY <1>1, ProcessByteType
<1>3. ProcessByte(s, b).j = ProcessByte(q, b).j
  <2> HIDE DEF q
  <2>1. CASE s.j.left > 0
    BY <1>1, <2>1 DEF ProcessByte, DataByte
  <2>2. CASE ~(s.j.left > 0) /\ Flag(b, 128)
    BY <1>1, <2>2 DEF ProcessByte
  <2>3. CASE ~(s.j.left > 0) /\ ~Flag(b, 128)
    BY <1>1, <2>3 DEF ProcessByte, bitbang
  <2> QED
    BY <2>1, <2>2, <2>3
<1> QED
  BY <1>2, <1>3 DEF Fed, Runs

\* The wires at each byte of rx.
Trace(f, w, rx) ==
  /\ f \in [0 .. Len(rx) -> Wires] /\ f[0] = w
  /\ \A i \in 1 .. Len(rx) : f[i] = Fed(f[i - 1], rx[i])

\* A run over part of a byte string reads back at most a byte for each, and follows the trace.
LEMMA RunType ==
  ASSUME NEW s \in Runs, NEW rx \in Seq(Byte), NEW from \in Nat, NEW to \in Nat, from <= to, to <= Len(rx)
  PROVE  /\ Run(s, rx, from, to) \in Runs /\ Len(Run(s, rx, from, to).tx) <= Len(s.tx) + (to - from)
         /\ \A f, w : (Trace(f, w, rx) /\ s.j = f[from]) => Run(s, rx, from, to).j = f[to]
<1>0. s.j \in Wires /\ s.tx \in Seq(Byte)
  BY DEF Runs
<1>1. s.j.left \in 0 .. 63 /\ Len(s.tx) \in Nat
  BY <1>0 DEF Wires
<1>2. CASE ~(from < to)
  <2>1. Run(s, rx, from, to) = s /\ from = to
    BY <1>2 DEF Run
  <2> QED
    BY <1>1, <2>1
<1>3. CASE from < to
  <2>0. PICK after : IsRun(after, s, rx, from, to)
    BY <1>3, RunLoop
  <2>1. /\ Run(s, rx, from, to) = after[to] /\ after[from] = s
        /\ \A i \in (from + 1) .. to : after[i] = ProcessByte(after[i - 1], rx[i])
    BY <2>0 DEF IsRun
  <2>2. \A i \in (from + 1) .. to : rx[i] \in Byte
    BY ElementOfSeq
  <2> DEFINE n == to - from
  <2>3. n \in Nat
    BY <1>3
  <2> DEFINE r == [i \in 0 .. n |-> after[from + i]]
             Follows(q, i) == \A f, w : (Trace(f, w, rx) /\ s.j = f[from]) => q.j = f[from + i]
             T == [i \in 0 .. n |-> {q \in Runs : Len(q.tx) <= Len(s.tx) + i /\ Follows(q, i)}]
  <2>4. r[0] \in T[0]
    <3>1. r[0] = s /\ 0 \in 0 .. n
      BY <2>1, <2>3
    <3>2. Follows(s, 0)
      OBVIOUS
    <3> HIDE DEF Follows, r, n
    <3> QED
      BY <1>1, <3>1, <3>2
  <2>5. ASSUME NEW i \in 1 .. n, r[i - 1] \in T[i - 1] PROVE r[i] \in T[i]
    <3>1. from + i \in (from + 1) .. to /\ i - 1 \in 0 .. n /\ i \in 0 .. n /\ (from + i) - 1 = from + (i - 1)
          /\ from + i \in 1 .. Len(rx)
      BY <2>3
    <3>2. r[i - 1] \in Runs /\ Len(r[i - 1].tx) <= Len(s.tx) + (i - 1) /\ Follows(r[i - 1], i - 1)
      BY <2>5, <3>1
    <3>3. r[i] = ProcessByte(r[i - 1], rx[from + i])
      BY <2>1, <3>1
    <3>4. rx[from + i] \in Byte
      BY <2>2, <3>1
    <3> HIDE DEF r, Follows
    <3>5. r[i] \in Runs /\ Len(r[i].tx) <= Len(r[i - 1].tx) + 1
      BY <3>2, <3>3, <3>4, ProcessByteType
    <3>6. Len(r[i].tx) \in Nat /\ Len(r[i - 1].tx) \in Nat
      BY <3>2, <3>5 DEF Runs
    <3>7. Len(r[i].tx) <= Len(s.tx) + i
      <4>1. \A a, b, d \in Nat : (b <= d + (i - 1) /\ a <= b + 1) => a <= d + i
        BY <2>3
      <4> QED
        BY <1>1, <3>2, <3>5, <3>6, <4>1
    <3>8. Follows(r[i], i)
      <4> SUFFICES ASSUME NEW f, NEW w, Trace(f, w, rx), s.j = f[from]
                   PROVE  r[i].j = f[from + i]
        BY DEF Follows
      <4>1. r[i - 1].j = f[from + (i - 1)]
        BY <3>2 DEF Follows
      <4>2. r[i].j = Fed(r[i - 1].j, rx[from + i])
        BY <3>2, <3>3, <3>4, FedAlone
      <4>3. f[from + i] = Fed(f[(from + i) - 1], rx[from + i])
        BY <3>1 DEF Trace
      <4> QED
        BY <3>1, <4>1, <4>2, <4>3
    <3> HIDE DEF n
    <3> QED
      BY <3>1, <3>5, <3>7, <3>8
  <2> HIDE DEF T, r
  <2>6. \A i \in 0 .. n : r[i] \in T[i]
    <3> HIDE DEF n
    <3> QED
      BY <2>3, <2>4, <2>5, LoopKeeps
  <2>7. n \in 0 .. n /\ from + n = to
    BY <2>3
  <2>8. r[n] \in Runs /\ Len(r[n].tx) <= Len(s.tx) + n /\ Follows(r[n], n)
    <3> HIDE DEF n, Follows
    <3> QED
      BY <2>6, <2>7 DEF T
  <2>9. r[n] = Run(s, rx, from, to)
    BY <2>1, <2>7 DEF r
  <2> HIDE DEF n
  <2> QED
    BY <2>7, <2>8, <2>9 DEF n
<1> QED
  BY <1>2, <1>3

LEMMA ProcessType ==
  ASSUME NEW w \in Wires, NEW rx \in Seq(Byte)
  PROVE  /\ blaster_process(w, rx) \in Runs /\ Len(blaster_process(w, rx).tx) <= Len(rx)
         /\ \A f : Trace(f, w, rx) => blaster_process(w, rx).j = f[Len(rx)]
<1> DEFINE n == Len(rx) \div 8 + 1
           c == [j |-> w, tx |-> <<>>]
           to(k) == IF 8 * k < Len(rx) THEN 8 * k ELSE Len(rx)
           upto == CHOOSE h : h = [k \in 0 .. n |-> IF k = 0 THEN c ELSE
                                     Run(h[k - 1], rx, 8 * (k - 1), to(k))]
<1>1. blaster_process(w, rx) = upto[n]
  BY DEF blaster_process
<1>2. n \in Nat /\ Len(rx) \in Nat /\ c \in Runs /\ Len(c.tx) = 0 /\ c.tx \in Seq(Byte)
  BY DEF Runs
<1>3. \A k \in 1 .. n : 8 * (k - 1) \in Nat /\ to(k) \in Nat /\ 8 * (k - 1) <= to(k) /\ to(k) <= Len(rx)
                        /\ to(k - 1) <= 8 * (k - 1)
  BY <1>2
<1> HIDE DEF c
<1>4. upto = [k \in 0 .. n |-> IF k = 0 THEN c ELSE Run(upto[k - 1], rx, 8 * (k - 1), to(k))]
  <2> DEFINE g == [p \in Runs \X (1 .. n) |-> Run(p[1], rx, 8 * (p[2] - 1), to(p[2]))]
  <2>1. g \in Steps(Runs, n)
    <3> HIDE DEF n, to
    <3>1. ASSUME NEW p \in Runs \X (1 .. n) PROVE Run(p[1], rx, 8 * (p[2] - 1), to(p[2])) \in Runs
      <4>1. p[1] \in Runs /\ p[2] \in 1 .. n
        OBVIOUS
      <4> QED
        BY <1>3, <4>1, RunType
    <3> QED
      BY <3>1 DEF Steps
  <2> HIDE DEF g, n, to
  <2>2. PICK f : IsLoop(f, Runs, c, g, n)
    BY <1>2, <2>1, LoopExists
  <2>3. \A k \in 1 .. n : g[<<f[k - 1], k>>] = Run(f[k - 1], rx, 8 * (k - 1), to(k))
    <3>1. f \in [0 .. n -> Runs]
      BY <2>2 DEF IsLoop
    <3>2. \A k \in 1 .. n : k - 1 \in 0 .. n
      BY <1>2
    <3>3. \A k \in 1 .. n : <<f[k - 1], k>> \in Runs \X (1 .. n)
      BY <3>1, <3>2
    <3> QED
      BY <3>3 DEF g
  <2>4. f = [k \in 0 .. n |-> IF k = 0 THEN c ELSE Run(f[k - 1], rx, 8 * (k - 1), to(k))]
    <3>1. f = [k \in 0 .. n |-> f[k]] /\ f[0] = c
      BY <2>2 DEF IsLoop
    <3>2. \A k \in 1 .. n : f[k] = Run(f[k - 1], rx, 8 * (k - 1), to(k))
      BY <2>2, <2>3 DEF IsLoop
    <3>3. \A k \in 0 .. n : k = 0 \/ k \in 1 .. n
      BY <1>2
    <3> QED
      BY <3>1, <3>2, <3>3
  <2> QED
    BY <2>4
<1> DEFINE Follows(r, k) == \A f : Trace(f, w, rx) => r.j = f[to(k)]
           T == [k \in 0 .. n |-> {r \in Runs : Len(r.tx) <= to(k) /\ Follows(r, k)}]
<1> HIDE DEF upto
<1>5. upto[0] \in T[0]
  <2>1. upto[0] = c /\ to(0) = 0 /\ 0 \in 0 .. n /\ c.j = w
    BY <1>2, <1>4 DEF c
  <2> HIDE DEF to, n
  <2>2. Follows(c, 0)
    BY <2>1 DEF Trace
  <2> HIDE DEF Follows
  <2> QED
    BY <1>2, <2>1, <2>2
<1>6. ASSUME NEW k \in 1 .. n, upto[k - 1] \in T[k - 1] PROVE upto[k] \in T[k]
  <2>1. k \in 0 .. n /\ k - 1 \in 0 .. n /\ k # 0
    BY <1>2
  <2>0. to(k - 1) = 8 * (k - 1)
    <3>1. k - 1 < n /\ k - 1 \in Nat
      BY <1>2
    <3>2. \A a, b \in Nat : (a < b \div 8 + 1) => 8 * a <= b
      OBVIOUS
    <3>3. 8 * (k - 1) <= Len(rx)
      BY <1>2, <3>1, <3>2
    <3> QED
      BY <1>2, <3>1, <3>3
  <2> HIDE DEF to, Follows
  <2>2. upto[k - 1] \in Runs /\ Len(upto[k - 1].tx) <= to(k - 1) /\ Follows(upto[k - 1], k - 1)
    BY <1>6, <2>1
  <2>3. upto[k] = Run(upto[k - 1], rx, 8 * (k - 1), to(k))
    BY <1>4, <2>1
  <2>4. upto[k] \in Runs /\ Len(upto[k].tx) <= Len(upto[k - 1].tx) + (to(k) - 8 * (k - 1))
    BY <1>3, <2>2, <2>3, RunType
  <2>5. Len(upto[k].tx) \in Nat /\ Len(upto[k - 1].tx) \in Nat
    BY <2>2, <2>4 DEF Runs
  <2>6. Len(upto[k].tx) <= to(k)
    <3>1. to(k - 1) \in Nat
      BY <1>2, <2>1 DEF to
    <3>2. \A a, b, d, e, q \in Nat : (b <= d /\ d <= q /\ q <= e /\ a <= b + (e - q)) => a <= e
      OBVIOUS
    <3> HIDE DEF n
    <3>3. 8 * (k - 1) \in Nat /\ to(k) \in Nat /\ to(k - 1) <= 8 * (k - 1) /\ 8 * (k - 1) <= to(k)
      BY <1>3
    <3> QED
      BY <2>2, <2>4, <2>5, <3>1, <3>2, <3>3
  <2>7. Follows(upto[k], k)
    <3> SUFFICES ASSUME NEW f, Trace(f, w, rx) PROVE upto[k].j = f[to(k)]
      BY DEF Follows
    <3>1. upto[k - 1].j = f[8 * (k - 1)]
      BY <2>0, <2>2 DEF Follows
    <3> QED
      <4> DEFINE a == 8 * (k - 1)
                 b == to(k)
                 q == upto[k - 1]
      <4>1. a \in Nat /\ b \in Nat /\ a <= b /\ b <= Len(rx)
        BY <1>3
      <4>2. q \in Runs /\ q.j = f[a] /\ upto[k] = Run(q, rx, a, b)
        BY <2>2, <2>3, <3>1
      <4> HIDE DEF a, b, q
      <4>3. Run(q, rx, a, b).j = f[b]
        <5>1. \A h, v : (Trace(h, v, rx) /\ q.j = h[a]) => Run(q, rx, a, b).j = h[b]
          BY <4>1, <4>2, RunType
        <5> QED
          BY <4>2, <5>1
      <4> QED
        BY <4>2, <4>3 DEF b
  <2> QED
    BY <2>1, <2>4, <2>6, <2>7
<1> HIDE DEF T
<1>7. \A k \in 0 .. n : upto[k] \in T[k]
  <2> HIDE DEF n
  <2> QED
    BY <1>2, <1>5, <1>6, LoopKeeps
<1>9. upto[n] \in Runs /\ Len(upto[n].tx) <= to(n) /\ Follows(upto[n], n)
  <2>1. n \in 0 .. n
    BY <1>2
  <2> HIDE DEF n, to, Follows
  <2> QED
    BY <1>7, <2>1 DEF T
<1>8. to(n) = Len(rx) /\ n \in 0 .. n
  BY <1>2
<1> HIDE DEF n, to
<1> QED
  BY <1>1, <1>8, <1>9

(***************************************************************************)
(* The byte strings                                                        *)
(***************************************************************************)
LEMMA FunSeq ==
  ASSUME NEW S, NEW n \in Nat, NEW f \in [1 .. n -> S] PROVE f \in Seq(S) /\ Len(f) = n
OBVIOUS

LEMMA Joined == \A a, b \in Seq(Byte) : a \o b \in Seq(Byte) /\ Len(a \o b) = Len(a) + Len(b)
BY ConcatProperties

LEMMA HalfType == ASSUME NEW m \in B01, NEW d \in B01, NEW i \in Nat PROVE Half(m, d, i) \in Byte
<1>1. (i + 1) % 2 \in 0 .. 1
  OBVIOUS
<1>2. \A a, b, k \in 0 .. 1 : 32 + 2 * a + 16 * b + k \in 0 .. 255
  OBVIOUS
<1>3. m \in 0 .. 1 /\ d \in 0 .. 1
  BY DEF B01
<1> QED
  BY <1>1, <1>2, <1>3 DEF Half, Byte

LEMMA TicksType == ASSUME NEW m \in B01, NEW n \in Nat PROVE Ticks(m, n) \in Seq(Byte)
<1>1. \A i \in 1 .. 2 * n : Half(m, 0, i) \in Byte
  BY HalfType DEF B01
<1> QED
  BY <1>1 DEF Ticks

LEMMA LastHighType == ASSUME NEW bits \in Seq(B01) PROVE LastHigh(bits) \in Seq(Byte)
<1> DEFINE n == Len(bits)
           e(i) == Half(IF (i + 1) \div 2 = n THEN 1 ELSE 0, bits[(i + 1) \div 2], i)
<1>1. n \in Nat
  OBVIOUS
<1>2. ASSUME NEW i \in 1 .. 2 * n PROVE e(i) \in Byte
  <2>1. (i + 1) \div 2 \in 1 .. n /\ i \in Nat
    BY <1>1
  <2>2. bits[(i + 1) \div 2] \in B01
    BY <2>1, ElementOfSeq
  <2>3. (IF (i + 1) \div 2 = n THEN 1 ELSE 0) \in B01
    BY DEF B01
  <2> QED
    BY <2>1, <2>2, <2>3, HalfType
<1> HIDE DEF e
<1>3. [i \in 1 .. 2 * n |-> e(i)] \in Seq(Byte)
  BY <1>1, <1>2
<1> QED
  BY <1>3 DEF LastHigh, e

LEMMA ScanType == ASSUME NEW fam \in {Cyclone, Artix}, NEW code \in Nat PROVE scan_ir(fam, code) \in Seq(Byte)
<1>1. fam.ir \in Nat
  BY DEF Cyclone, Artix
<1>2. LastHigh(Bits(code, fam.ir)) \in Seq(Byte)
  BY <1>1, BitsType, LastHighType
<1>3. /\ Ticks(1, 2) \in Seq(Byte) /\ Ticks(0, 2) \in Seq(Byte)
      /\ Ticks(1, 1) \in Seq(Byte) /\ Ticks(0, 1) \in Seq(Byte)
  BY TicksType DEF B01
<1> QED
  BY <1>2, <1>3, Joined DEF scan_ir

LEMMA MovesType ==
  /\ jtag_reset \in Seq(Byte) /\ enter_shift_dr \in Seq(Byte) /\ exit_shift_dr \in Seq(Byte)
  /\ \A n \in Nat : tck_rti(n) \in Seq(Byte)
<1>1. /\ Ticks(1, 5) \in Seq(Byte) /\ Ticks(0, 2) \in Seq(Byte)
      /\ Ticks(1, 1) \in Seq(Byte) /\ Ticks(0, 1) \in Seq(Byte)
  BY TicksType DEF B01
<1>2. \A n \in Nat : Ticks(0, n) \in Seq(Byte)
  BY TicksType DEF B01
<1> QED
  BY <1>1, <1>2, Joined DEF jtag_reset, enter_shift_dr, exit_shift_dr, tck_rti

\* Of n bytes in chunks of m, each behind its command: where the byte at i comes from.
LEMMA ChunkArith ==
  ASSUME NEW n \in Nat, NEW m \in 1 .. 63, NEW i \in 1 .. (n + (n + m - 1) \div m)
  PROVE  LET k == (i - 1) \div (m + 1)
         IN  IF (i - 1) % (m + 1) = 0
             THEN k * m <= n /\ (k + 1) * m \in Nat /\ k * m \in Nat
             ELSE i - 1 - k \in 1 .. n
<1> DEFINE c == (n + m - 1) \div m
           k == (i - 1) \div (m + 1)
           r == (i - 1) % (m + 1)
<1>1. c \in Nat /\ c * m <= n + m - 1
  <2>1. \A a \in Nat, b \in 1 .. 63 : (a \div b) \in Nat /\ (a \div b) * b <= a
    OBVIOUS
  <2> QED
    BY <2>1
<1>2. k \in Nat /\ r \in 0 .. m /\ i - 1 = k * (m + 1) + r
  <2>1. \A a \in Nat, b \in 2 .. 64 : (a \div b) \in Nat /\ (a % b) \in 0 .. (b - 1) /\ a = (a \div b) * b + (a % b)
    <3>1. \A a \in Nat, b \in 2 .. 64 : (a \div b) \in Nat
      OBVIOUS
    <3>2. \A a \in Nat, b \in 2 .. 64 : (a % b) \in 0 .. (b - 1)
      OBVIOUS
    <3>3. \A a \in Nat, b \in 2 .. 64 : a = b * (a \div b) + (a % b)
      OBVIOUS
    <3>4. \A a, b \in Nat : a * b = b * a
      OBVIOUS
    <3> QED
      BY <3>1, <3>2, <3>3, <3>4
  <2>2. m + 1 \in 2 .. 64 /\ i - 1 \in Nat
    BY <1>1
  <2> HIDE DEF c
  <2>3. (i - 1) % (m + 1) \in 0 .. ((m + 1) - 1) /\ (i - 1) = k * (m + 1) + r /\ k \in Nat
    BY <2>1, <2>2
  <2> QED
    BY <2>3
<1>3. i - 1 <= n + c - 1
  BY <1>1
<1> HIDE DEF c, k, r
<1> DEFINE q == k * m
           z == c * m
<1>4. i - 1 = q + k + r /\ q \in Nat /\ (k + 1) * m = q + m /\ z <= n + m - 1 /\ z \in Nat
  BY <1>1, <1>2
<1>5. z < q + m => c <= k
  <2>1. \A a, b \in Nat : (a * m < b * m + m) => a <= b
    OBVIOUS
  <2> QED
    BY <1>1, <1>2, <2>1
<1>6. z < q + m + m => c <= k + 1
  <2>1. \A a, b \in Nat : (a * m < b * m + m + m) => a <= b + 1
    OBVIOUS
  <2> QED
    BY <1>1, <1>2, <2>1
<1>8. n \in Nat /\ m \in 1 .. 63 /\ i - 1 \in Nat
  BY <1>2, <1>4
<1> HIDE DEF q, z
<1>7. IF r = 0 THEN q <= n /\ q + m \in Nat ELSE i - 1 - k \in 1 .. n
  BY <1>1, <1>2, <1>3, <1>4, <1>5, <1>6, <1>8
<1> QED
  BY <1>4, <1>7 DEF q, k, r

LEMMA ChunksType ==
  ASSUME NEW bytes \in Seq(Byte), NEW m \in 1 .. 63 PROVE ShiftChunks(bytes, m) \in Seq(Byte)
<1> DEFINE n == Len(bytes)
           size(k) == IF (k + 1) * m < n THEN m ELSE n - k * m
           at(i) == (i - 1) \div (m + 1)
           e(i) == IF (i - 1) % (m + 1) = 0 THEN 128 + size(at(i)) ELSE bytes[i - 1 - at(i)]
           total == n + (n + m - 1) \div m
<1>1. n \in Nat /\ total \in Nat
  OBVIOUS
<1>2. ASSUME NEW i \in 1 .. total PROVE e(i) \in Byte
  <2>1. IF (i - 1) % (m + 1) = 0
        THEN at(i) * m <= n /\ (at(i) + 1) * m \in Nat /\ at(i) * m \in Nat
        ELSE i - 1 - at(i) \in 1 .. n
    BY <1>1, ChunkArith
  <2>2. CASE (i - 1) % (m + 1) = 0
    <3> DEFINE k == at(i)
    <3>1. k * m <= n /\ (k + 1) * m \in Nat /\ k * m \in Nat
      BY <2>1, <2>2
    <3>3. k \in Nat /\ (k + 1) * m = k * m + m
      <4>1. k \in Nat
        BY <1>1
      <4> HIDE DEF k
      <4> QED
        BY <4>1
    <3>2. 128 + size(k) \in 0 .. 255
      <4> HIDE DEF k
      <4> DEFINE q == k * m
      <4>1. q <= n /\ q \in Nat /\ (k + 1) * m = q + m
        BY <3>1, <3>3
      <4> HIDE DEF q
      <4>2. 128 + (IF q + m < n THEN m ELSE n - q) \in 0 .. 255
        <5>1. \A a, b \in Nat : b <= a => 128 + (IF b + m < a THEN m ELSE a - b) \in 0 .. 255
          OBVIOUS
        <5> QED
          BY <1>1, <4>1, <5>1
      <4> QED
        BY <4>1, <4>2 DEF q
    <3> QED
      BY <2>2, <3>2 DEF Byte
  <2>3. CASE (i - 1) % (m + 1) # 0
    <3>1. i - 1 - at(i) \in 1 .. n
      BY <2>1, <2>3
    <3> HIDE DEF at
    <3>2. bytes[i - 1 - at(i)] \in Byte
      BY <3>1, ElementOfSeq
    <3> QED
      BY <2>3, <3>2
  <2> QED
    BY <2>2, <2>3
<1> HIDE DEF e
<1>3. [i \in 1 .. total |-> e(i)] \in [1 .. total -> Byte]
  BY <1>2
<1> HIDE DEF total
<1>4. [i \in 1 .. total |-> e(i)] \in Seq(Byte)
  BY <1>1, <1>3, FunSeq
<1> QED
  BY <1>4 DEF ShiftChunks, e, total

LEMMA SliceType ==
  ASSUME NEW S, NEW s \in Seq(S), NEW m \in Nat \ {0}, NEW n \in Nat, n <= Len(s)
  PROVE  SubSeq(s, m, n) \in Seq(S) /\ Len(SubSeq(s, m, n)) = IF m <= n THEN n - m + 1 ELSE 0
<1>1. \A i \in m .. n : s[i] \in S
  BY ElementOfSeq
<1> QED
  BY <1>1, SubSeqProperties

(***************************************************************************)
(* The console's IDCODE                                                    *)
(***************************************************************************)
LEMMA LevelsKept ==
  ASSUME NEW w \in Wires, NEW tck \in B01, NEW tms \in B01, NEW tdi \in B01
  PROVE  Levels(w, tck, tms, tdi) \in Wires /\ Levels(w, tck, tms, tdi).fam = w.fam
<1>1. Levels(w, tck, tms, tdi) \in Wires
  BY LevelsType
<1>2. Levels(w, tck, tms, tdi).fam = w.fam
  BY LevelsType
<1> QED
  BY <1>1, <1>2

LEMMA PulseType ==
  ASSUME NEW w \in Wires, NEW tms \in B01 PROVE jtag_pulse(w, tms) \in Wires /\ jtag_pulse(w, tms).fam = w.fam
<1> DEFINE a == Levels(w, w.tck, tms, 0)
           b == Levels(a, 1, tms, 0)
<1>1. w.tck \in B01 /\ 0 \in B01 /\ 1 \in B01
  BY DEF Wires, B01
<1>2. a \in Wires /\ a.fam = w.fam
  BY <1>1, LevelsKept
<1>3. jtag_pulse(w, tms) = Levels(b, 0, tms, 0)
  BY DEF jtag_pulse
<1> HIDE DEF a
<1>4. b \in Wires /\ b.fam = w.fam
  BY <1>1, <1>2, LevelsKept
<1> HIDE DEF b
<1>5. Levels(b, 0, tms, 0) \in Wires /\ Levels(b, 0, tms, 0).fam = b.fam
  BY <1>1, <1>4, LevelsKept
<1> QED
  BY <1>3, <1>4, <1>5

LEMMA JtagInitType == ASSUME NEW w \in Wires PROVE jtag_init(w) \in Wires /\ jtag_init(w).fam = w.fam
<1> DEFINE m == [w EXCEPT !.pio = FALSE, !.tck = 0, !.tms = 1, !.tdi = 0]
           d == Directions(m, TRUE)
           l == Levels(d, 0, 1, 0)
<1>1. m \in Wires /\ m.fam = w.fam
  BY DEF Wires, B01
<1> HIDE DEF m
<1>2. d \in Wires /\ d.fam = w.fam
  <2>1. d \in Wires /\ Beside([m EXCEPT !.dirT = TRUE, !.dirM = TRUE], d)
    BY <1>1, DirectionsType
  <2> HIDE DEF d
  <2> QED
    BY <1>1, <2>1 DEF Beside, Wires
<1> HIDE DEF d
<1>3. l \in Wires /\ l.fam = w.fam
  BY <1>2, LevelsType DEF B01
<1>4. jtag_init(w) = IF w.jinit THEN w ELSE [l EXCEPT !.jinit = TRUE]
  BY DEF jtag_init, m, d
<1> HIDE DEF l
<1> QED
  BY <1>3, <1>4 DEF Wires

\* A walk of the TAP: one pulse per bit of TMS.
Walk(f, w, bits) ==
  /\ f \in [0 .. Len(bits) -> Wires] /\ f[0] = w
  /\ \A i \in 1 .. Len(bits) : f[i] = jtag_pulse(f[i - 1], bits[i])

LEMMA TmsSeqWalks ==
  ASSUME NEW w \in Wires, NEW bits \in Seq(B01)
  PROVE  \E f : Walk(f, w, bits) /\ jtag_tms_seq(w, bits) = f[Len(bits)]
<1> DEFINE n == Len(bits)
           after == CHOOSE h : h = [i \in 0 .. n |-> IF i = 0 THEN w ELSE jtag_pulse(h[i - 1], bits[i])]
<1>1. jtag_tms_seq(w, bits) = after[n]
  BY DEF jtag_tms_seq
<1>2. n \in Nat /\ \A i \in 1 .. n : bits[i] \in B01 /\ i - 1 \in 0 .. n
  BY ElementOfSeq
<1> HIDE DEF n
<1> DEFINE g == [p \in Wires \X (1 .. n) |-> jtag_pulse(p[1], bits[p[2]])]
<1>3. g \in Steps(Wires, n)
  BY <1>2, PulseType DEF Steps
<1> HIDE DEF g
<1>4. PICK f : IsLoop(f, Wires, w, g, n)
  BY <1>2, <1>3, LoopExists
<1>5. f \in [0 .. n -> Wires] /\ f[0] = w
  BY <1>4 DEF IsLoop
<1>6. \A i \in 1 .. n : f[i] = jtag_pulse(f[i - 1], bits[i])
  <2>1. \A i \in 1 .. n : f[i] = g[<<f[i - 1], i>>]
    BY <1>4 DEF IsLoop
  <2>2. \A i \in 1 .. n : <<f[i - 1], i>> \in Wires \X (1 .. n)
    BY <1>2, <1>5
  <2> QED
    BY <2>1, <2>2 DEF g
<1>7. f = [i \in 0 .. n |-> IF i = 0 THEN w ELSE jtag_pulse(f[i - 1], bits[i])]
  <2>1. f = [i \in 0 .. n |-> f[i]]
    BY <1>5
  <2>2. \A i \in 0 .. n : i = 0 \/ i \in 1 .. n
    BY <1>2
  <2> QED
    BY <1>5, <1>6, <2>1, <2>2
<1>8. after = [i \in 0 .. n |-> IF i = 0 THEN w ELSE jtag_pulse(after[i - 1], bits[i])]
  BY <1>7
<1> HIDE DEF after
<1> DEFINE T == [i \in 0 .. n |-> Wires]
<1>9. after[0] \in T[0]
  BY <1>2, <1>8
<1>10. ASSUME NEW i \in 1 .. n, after[i - 1] \in T[i - 1] PROVE after[i] \in T[i]
  <2>1. i \in 0 .. n /\ i - 1 \in 0 .. n /\ i # 0
    BY <1>2
  <2>2. after[i] = jtag_pulse(after[i - 1], bits[i]) /\ after[i - 1] \in Wires
    BY <1>8, <1>10, <2>1
  <2>3. after[i] \in Wires
    BY <1>2, <2>2, PulseType
  <2> QED
    BY <2>1, <2>3
<1> HIDE DEF T
<1>11. \A i \in 0 .. n : after[i] \in T[i]
  BY <1>2, <1>9, <1>10, LoopKeeps
<1>12. \A i \in 0 .. n : after[i] \in Wires
  BY <1>11 DEF T
<1>13. Walk(after, w, bits)
  <2>1. after \in [0 .. n -> Wires] /\ after[0] = w
    BY <1>2, <1>8, <1>12
  <2>2. \A i \in 1 .. n : i \in 0 .. n /\ i # 0
    BY <1>2
  <2>3. \A i \in 1 .. n : after[i] = jtag_pulse(after[i - 1], bits[i])
    BY <1>8, <2>2
  <2> QED
    BY <2>1, <2>3 DEF Walk, n
<1> QED
  BY <1>1, <1>13 DEF n

LEMMA TmsSeqType ==
  ASSUME NEW w \in Wires, NEW bits \in Seq(B01)
  PROVE  jtag_tms_seq(w, bits) \in Wires /\ jtag_tms_seq(w, bits).fam = w.fam
<1> DEFINE n == Len(bits)
           T == [i \in 0 .. n |-> {v \in Wires : v.fam = w.fam}]
<1>1. PICK f : Walk(f, w, bits) /\ jtag_tms_seq(w, bits) = f[n]
  BY TmsSeqWalks
<1>2. n \in Nat /\ \A i \in 1 .. n : bits[i] \in B01 /\ i - 1 \in 0 .. n /\ i \in 0 .. n
  BY ElementOfSeq
<1>3. f[0] = w /\ \A i \in 1 .. n : f[i] = jtag_pulse(f[i - 1], bits[i])
  BY <1>1 DEF Walk
<1> HIDE DEF n
<1>4. f[0] \in T[0]
  BY <1>2, <1>3
<1>5. ASSUME NEW i \in 1 .. n, f[i - 1] \in T[i - 1] PROVE f[i] \in T[i]
  BY <1>2, <1>3, <1>5, PulseType
<1> HIDE DEF T
<1>6. \A i \in 0 .. n : f[i] \in T[i]
  BY <1>2, <1>4, <1>5, LoopKeeps
<1>7. f[n] \in T[n] /\ n \in 0 .. n
  BY <1>2, <1>6
<1> QED
  BY <1>1, <1>7 DEF T

\* The pins as jtag.c drives them between two pulses.
Driven(w) == ~w.pio /\ w.dirT /\ w.dirM /\ w.tck = 0

LEMMA PulseDriven ==
  ASSUME NEW w \in Wires, Driven(w), NEW tms \in B01
  PROVE  LET up == [w EXCEPT !.tck = 1, !.tms = tms, !.tdi = 0]
         IN  /\ up \in Wires
             /\ jtag_pulse(w, tms) = [Clock(up, tms, 0) EXCEPT !.tck = 0, !.tms = tms, !.tdi = 0]
             /\ Clock(up, tms, 0) \in Wires
             /\ Driven(jtag_pulse(w, tms))
<1> DEFINE low == [w EXCEPT !.tck = 0, !.tms = tms, !.tdi = 0]
           up == [w EXCEPT !.tck = 1, !.tms = tms, !.tdi = 0]
           k == Clock(up, tms, 0)
           down == [k EXCEPT !.tck = 0, !.tms = tms, !.tdi = 0]
<1>1. low \in Wires /\ up \in Wires
  BY DEF Wires, B01
<1>2. Levels(w, w.tck, tms, 0) = low
  BY <1>1 DEF Levels, Settle, Driven, TckLine, Wires
<1>3. [low EXCEPT !.tck = 1, !.tms = tms, !.tdi = 0] = up
  BY DEF Wires
<1>4. TckLine(low) = 0 /\ TckLine(up) = 1 /\ TmsLine(up) = tms /\ TdiLine(up) = 0
  BY DEF Wires, TckLine, TmsLine, TdiLine, Driven
<1>5. up.pio = FALSE /\ up.dirT = TRUE /\ up.dirM = TRUE /\ up.tck = 1
  BY DEF Driven, Wires
<1> HIDE DEF low, up
<1>6. Levels(low, 1, tms, 0) = k
  BY <1>3, <1>4 DEF Levels, Settle
<1>7. k \in Wires /\ Beside(up, k)
  BY <1>1, ClockType, ClockBeside DEF B01
<1>8. k.pio = FALSE /\ k.dirT = TRUE /\ k.dirM = TRUE /\ k.tck = 1
  BY <1>5, <1>7 DEF Beside
<1> HIDE DEF k
<1>9. down \in Wires /\ down.pio = FALSE /\ down.dirT = TRUE /\ down.dirM = TRUE /\ down.tck = 0
  BY <1>7, <1>8 DEF Wires, B01
<1>10. Levels(k, 0, tms, 0) = down
  <2>1. TckLine(down) = 0
    BY <1>9 DEF TckLine
  <2> QED
    BY <2>1 DEF Levels, Settle
<1>11. jtag_pulse(w, tms) = down
  BY <1>2, <1>6, <1>10 DEF jtag_pulse
<1>12. Driven(down)
  BY <1>9 DEF Driven
<1> QED
  BY <1>1, <1>7, <1>11, <1>12 DEF up, k

LEMMA NoInstr == ASSUME NEW n \in Nat, NEW l \in {6, 10} PROVE Bits(n, l) # IdcodeIr
<1>1. Len(Bits(n, l)) = l /\ Len(IdcodeIr) = 0
  BY BitsType DEF IdcodeIr
<1> QED
  BY <1>1

\* What a pulse makes of a TAP that holds the IDCODE instruction, or is reset.
LEMMA PulseTap ==
  ASSUME NEW w \in Wires, Driven(w), NEW tms \in B01
  PROVE  LET p == jtag_pulse(w, tms)
         IN  /\ Driven(p) /\ p \in Wires
             /\ p.tap = TapNext[w.tap][tms + 1]
             /\ p.tap = "TLR" => p.instr = IdcodeIr
             /\ (w.instr = IdcodeIr /\ p.tap # "UpdIR") => p.instr = IdcodeIr
             /\ (w.instr = IdcodeIr /\ p.tap = "CapDR") => p.reg = IdCode
             /\ (w.tap = "CapDR" /\ p.tap = "ShDR") => p.reg = w.reg
             /\ (w.tap = "ShDR" /\ w.instr = IdcodeIr /\ p.tap \in {"ShDR", "Ex1DR"})
                  => p.reg = Append(Tail(w.reg), 0)
<1> DEFINE up == [w EXCEPT !.tck = 1, !.tms = tms, !.tdi = 0]
           k == Clock(up, tms, 0)
           p == jtag_pulse(w, tms)
           shifted == IF up.tap = "ShDR" /\ up.instr = Bits(up.fam.config, up.fam.ir)
                        THEN [up EXCEPT !.cfg = Append(@, 0)]
                      ELSE IF up.tap \in {"ShDR", "ShIR"} THEN [up EXCEPT !.reg = Append(Tail(@), 0)]
                      ELSE up
           next == TapNext[w.tap][tms + 1]
<1>1. up \in Wires /\ k \in Wires /\ Driven(p) /\ p = [k EXCEPT !.tck = 0, !.tms = tms, !.tdi = 0]
  BY PulseDriven
<1>2. p \in Wires /\ p.tap = k.tap /\ p.instr = k.instr /\ p.reg = k.reg
  BY <1>1 DEF Wires, B01
<1>3. up.tap = w.tap /\ up.instr = w.instr /\ up.reg = w.reg /\ up.cfg = w.cfg /\ up.fam = w.fam
  BY DEF Wires
<1>4. k = Enter(shifted, next)
  BY <1>3 DEF Clock
<1> HIDE DEF up
<1>5. w.fam \in {Cyclone, Artix} /\ w.tap \in Taps /\ w.reg \in Full /\ w.cfg \in Seq(B01)
  BY DEF Wires
<1>6. w.fam.config \in Nat /\ w.fam.startup \in Nat /\ w.fam.ir \in {6, 10}
  BY <1>5 DEF Cyclone, Artix
<1>7. Bits(w.fam.config, w.fam.ir) # IdcodeIr /\ Bits(w.fam.startup, w.fam.ir) # IdcodeIr
  BY <1>6, NoInstr
<1>8. /\ shifted \in Wires /\ shifted.instr = w.instr /\ shifted.fam = w.fam
      /\ (w.tap \notin {"ShDR", "ShIR"}) => shifted.reg = w.reg
      /\ (w.tap = "ShDR" /\ w.instr = IdcodeIr) => shifted.reg = Append(Tail(w.reg), 0)
  <2>1. Append(Tail(w.reg), 0) \in Full /\ Append(w.cfg, 0) \in Seq(B01)
    BY <1>5, ShiftedIn DEF B01
  <2>2. CASE up.tap = "ShDR" /\ up.instr = Bits(up.fam.config, up.fam.ir)
    BY <1>1, <1>3, <1>7, <2>1, <2>2 DEF Wires
  <2>3. CASE ~(up.tap = "ShDR" /\ up.instr = Bits(up.fam.config, up.fam.ir)) /\ up.tap \in {"ShDR", "ShIR"}
    BY <1>1, <1>3, <2>1, <2>3 DEF Wires
  <2>4. CASE up.tap \notin {"ShDR", "ShIR"}
    BY <1>1, <1>3, <2>4 DEF Wires
  <2> QED
    BY <2>2, <2>3, <2>4
<1>9. next \in Taps
  BY <1>5, TapNextType
<1> HIDE DEF shifted, next, k, p
<1>10. /\ k.tap = next
       /\ next = "TLR" => k.instr = IdcodeIr
       /\ next \notin {"TLR", "UpdIR"} => k.instr = shifted.instr
       /\ (next = "CapDR" /\ shifted.instr = IdcodeIr) => k.reg = IdCode
       /\ next \in {"ShDR", "Ex1DR"} => k.reg = shifted.reg
  <2>1. CASE next = "TLR"
    BY <1>4, <1>8, <2>1 DEF Enter, Wires
  <2>2. CASE next = "UpdIR"
    BY <1>4, <1>8, <2>2 DEF Enter, Wires
  <2>3. CASE next = "CapIR"
    BY <1>4, <1>8, <2>3 DEF Enter, Wires
  <2>4. CASE next = "CapDR"
    BY <1>4, <1>8, <2>4 DEF Enter, Wires
  <2>5. CASE next = "RTI" /\ shifted.instr = Bits(shifted.fam.startup, shifted.fam.ir) /\ shifted.ticks < StartTicks
    BY <1>4, <1>8, <2>5 DEF Enter, Wires
  <2>6. CASE /\ next # "TLR" /\ next # "UpdIR" /\ next # "CapIR" /\ next # "CapDR"
             /\ ~(next = "RTI" /\ shifted.instr = Bits(shifted.fam.startup, shifted.fam.ir) /\ shifted.ticks < StartTicks)
    BY <1>4, <1>8, <2>6 DEF Enter, Wires
  <2> QED
    BY <2>1, <2>2, <2>3, <2>4, <2>5, <2>6
<1>11. /\ p.tap = next /\ p.instr = k.instr /\ p.reg = k.reg
  BY <1>2, <1>10
<1> QED
  BY <1>1, <1>2, <1>8, <1>10, <1>11 DEF next, p

\* From wherever the TAP was left, jtag_read_idcode's moves bring it to Shift-DR with the IDCODE.
Home(w) == Driven(w) /\ w.tap = "ShDR" /\ w.instr = IdcodeIr /\ w.reg = IdCode

LEMMA MovesBits ==
  LET bits == TlrSeq \o <<0, 1, 0, 0>>
  IN  /\ bits \in Seq(B01) /\ Len(bits) = 9
      /\ bits[1] = 1 /\ bits[2] = 1 /\ bits[3] = 1 /\ bits[4] = 1 /\ bits[5] = 1
      /\ bits[6] = 0 /\ bits[7] = 1 /\ bits[8] = 0 /\ bits[9] = 0
<1> DEFINE a == <<1, 1, 1, 1, 1>>
           b == <<0, 1, 0, 0>>
           bits == a \o b
<1>1. a \in Seq(B01) /\ b \in Seq(B01) /\ Len(a) = 5 /\ Len(b) = 4
  BY DEF B01
<1>2. /\ a[1] = 1 /\ a[2] = 1 /\ a[3] = 1 /\ a[4] = 1 /\ a[5] = 1
      /\ b[1] = 0 /\ b[2] = 1 /\ b[3] = 0 /\ b[4] = 0
  OBVIOUS
<1>3. TlrSeq \o <<0, 1, 0, 0>> = bits
  BY DEF TlrSeq
<1> HIDE DEF a, b
<1>4. bits \in Seq(B01) /\ Len(bits) = 9
      /\ \A i \in 1 .. 9 : bits[i] = IF i <= 5 THEN a[i] ELSE b[i - 5]
  <2>1. /\ a \o b \in Seq(B01) /\ Len(a \o b) = Len(a) + Len(b)
        /\ \A i \in 1 .. Len(a) + Len(b) : (a \o b)[i] = IF i <= Len(a) THEN a[i] ELSE b[i - Len(a)]
    BY <1>1, ConcatProperties
  <2>2. Len(a) + Len(b) = 9
    BY <1>1
  <2> QED
    BY <1>1, <2>1, <2>2
<1> HIDE DEF bits
<1>5. /\ bits[1] = a[1] /\ bits[2] = a[2] /\ bits[3] = a[3] /\ bits[4] = a[4] /\ bits[5] = a[5]
      /\ bits[6] = b[1] /\ bits[7] = b[2] /\ bits[8] = b[3] /\ bits[9] = b[4]
  BY <1>4
<1> QED
  BY <1>2, <1>3, <1>4, <1>5

LEMMA ComesHome ==
  ASSUME NEW w \in Wires, Driven(w)
  PROVE  Home(jtag_tms_seq(w, TlrSeq \o <<0, 1, 0, 0>>))
<1> DEFINE bits == TlrSeq \o <<0, 1, 0, 0>>
<1>1. /\ bits \in Seq(B01) /\ Len(bits) = 9
      /\ bits[1] = 1 /\ bits[2] = 1 /\ bits[3] = 1 /\ bits[4] = 1 /\ bits[5] = 1
      /\ bits[6] = 0 /\ bits[7] = 1 /\ bits[8] = 0 /\ bits[9] = 0
  BY MovesBits
<1> HIDE DEF bits
<1>2. PICK f : Walk(f, w, bits) /\ jtag_tms_seq(w, bits) = f[9]
  BY <1>1, TmsSeqWalks
<1>3. /\ f[0] = w /\ f[1] = jtag_pulse(f[0], 1) /\ f[2] = jtag_pulse(f[1], 1)
      /\ f[3] = jtag_pulse(f[2], 1) /\ f[4] = jtag_pulse(f[3], 1) /\ f[5] = jtag_pulse(f[4], 1)
      /\ f[6] = jtag_pulse(f[5], 0) /\ f[7] = jtag_pulse(f[6], 1) /\ f[8] = jtag_pulse(f[7], 0)
      /\ f[9] = jtag_pulse(f[8], 0)
  BY <1>1, <1>2 DEF Walk
<1>4. 0 \in B01 /\ 1 \in B01
  BY DEF B01
<1> DEFINE At(k, taps) == k \in Wires /\ Driven(k) /\ k.tap \in taps
<1>5. At(f[0], Taps)
  BY <1>3 DEF Wires
<1>6. At(f[1], {"TLR", "SelDR", "SelIR", "Ex1DR", "UpdDR", "Ex2DR", "Ex1IR", "UpdIR", "Ex2IR"})
  <2>1. TapNext[f[0].tap][1 + 1] \in {"TLR", "SelDR", "SelIR", "Ex1DR", "UpdDR", "Ex2DR", "Ex1IR", "UpdIR", "Ex2IR"}
    BY <1>5 DEF TapNext, Taps
  <2> QED
    BY <1>3, <1>4, <1>5, <2>1, PulseTap
<1>7. At(f[2], {"TLR", "SelIR", "UpdDR", "SelDR", "UpdIR"})
  <2>1. TapNext[f[1].tap][1 + 1] \in {"TLR", "SelIR", "UpdDR", "SelDR", "UpdIR"}
    BY <1>6 DEF TapNext
  <2> QED
    BY <1>3, <1>4, <1>6, <2>1, PulseTap
<1>8. At(f[3], {"TLR", "SelDR", "SelIR"})
  <2>1. TapNext[f[2].tap][1 + 1] \in {"TLR", "SelDR", "SelIR"}
    BY <1>7 DEF TapNext
  <2> QED
    BY <1>3, <1>4, <1>7, <2>1, PulseTap
<1>9. At(f[4], {"TLR", "SelIR"})
  <2>1. TapNext[f[3].tap][1 + 1] \in {"TLR", "SelIR"}
    BY <1>8 DEF TapNext
  <2> QED
    BY <1>3, <1>4, <1>8, <2>1, PulseTap
<1>10. At(f[5], {"TLR"}) /\ f[5].instr = IdcodeIr
  <2>1. TapNext[f[4].tap][1 + 1] = "TLR"
    BY <1>9 DEF TapNext
  <2> QED
    BY <1>3, <1>4, <1>9, <2>1, PulseTap
<1>11. At(f[6], {"RTI"}) /\ f[6].instr = IdcodeIr
  <2>1. TapNext[f[5].tap][0 + 1] = "RTI"
    BY <1>10 DEF TapNext
  <2> QED
    BY <1>3, <1>4, <1>10, <2>1, PulseTap
<1>12. At(f[7], {"SelDR"}) /\ f[7].instr = IdcodeIr
  <2>1. TapNext[f[6].tap][1 + 1] = "SelDR"
    BY <1>11 DEF TapNext
  <2> QED
    BY <1>3, <1>4, <1>11, <2>1, PulseTap
<1>13. At(f[8], {"CapDR"}) /\ f[8].instr = IdcodeIr /\ f[8].reg = IdCode
  <2>1. TapNext[f[7].tap][0 + 1] = "CapDR"
    BY <1>12 DEF TapNext
  <2> QED
    BY <1>3, <1>4, <1>12, <2>1, PulseTap
<1>14. At(f[9], {"ShDR"}) /\ f[9].instr = IdcodeIr /\ f[9].reg = IdCode
  <2>1. TapNext[f[8].tap][0 + 1] = "ShDR"
    BY <1>13 DEF TapNext
  <2> QED
    BY <1>3, <1>4, <1>13, <2>1, PulseTap
<1> QED
  BY <1>2, <1>14 DEF Home, bits

LEMMA InitDrives ==
  ASSUME NEW w \in Wires, ~w.jinit PROVE Driven(jtag_init(w))
<1> DEFINE m == [w EXCEPT !.pio = FALSE, !.tck = 0, !.tms = 1, !.tdi = 0]
           d == Directions(m, TRUE)
           l == Levels(d, 0, 1, 0)
<1>1. m \in Wires /\ m.pio = FALSE
  BY DEF Wires, B01
<1> HIDE DEF m
<1>2. d \in Wires /\ Beside([m EXCEPT !.dirT = TRUE, !.dirM = TRUE], d)
  BY <1>1, DirectionsType
<1>3. d.pio = FALSE /\ d.dirT = TRUE /\ d.dirM = TRUE
  BY <1>1, <1>2 DEF Beside, Wires
<1> HIDE DEF d
<1>4. l \in Wires /\ Beside([d EXCEPT !.tck = 0, !.tms = 1, !.tdi = 0], l)
  BY <1>2, LevelsType DEF B01
<1>5. l.pio = FALSE /\ l.dirT = TRUE /\ l.dirM = TRUE /\ l.tck = 0
  BY <1>2, <1>3, <1>4 DEF Beside, Wires
<1>6. jtag_init(w) = [l EXCEPT !.jinit = TRUE]
  BY DEF jtag_init, m, d
<1> HIDE DEF l
<1> QED
  BY <1>4, <1>5, <1>6 DEF Driven, Wires

\* The bits of the IDCODE come out first bit first, however many there are.
LEMMA ReadIdReads ==
  ASSUME NEW w \in Wires
  PROVE  /\ ReadId(w) \in [j : Wires, id : Seq(B01)] /\ ReadId(w).j \in Wires /\ ReadId(w).j.fam = w.fam
         /\ Home(w) => ReadId(w).id = IdCode
<1> DEFINE n == Len(IdCode)
           S == [j : {v \in Wires : v.fam = w.fam}, id : Seq(B01)]
           c == [j |-> w, id |-> <<>>]
           after == CHOOSE h : h = [i \in 0 .. n |-> IF i = 0 THEN c ELSE ReadBit(h[i - 1], i = n)]
<1>1. n \in Nat \ {0} /\ IdCode \in Seq(B01)
  BY BlasterAssumption DEF B01
<1>2. ReadId(w) = after[n]
  BY DEF ReadId
<1>3. ASSUME NEW r \in S, NEW end \in BOOLEAN PROVE ReadBit(r, end) \in S
  <2>1. r.j \in Wires /\ r.j.fam = w.fam /\ r.id \in Seq(B01)
    OBVIOUS
  <2>2. (IF end THEN 1 ELSE 0) \in B01
    BY DEF B01
  <2>3. /\ jtag_pulse(r.j, IF end THEN 1 ELSE 0) \in Wires /\ TDO(r.j) \in B01
        /\ jtag_pulse(r.j, IF end THEN 1 ELSE 0).fam = w.fam
    BY <2>1, <2>2, PulseType, TdoType
  <2> QED
    BY <2>1, <2>3 DEF ReadBit
<1>4. c \in S /\ c.j = w /\ c.id = <<>>
  OBVIOUS
<1> HIDE DEF S, c, n
<1>5. after = [i \in 0 .. n |-> IF i = 0 THEN c ELSE ReadBit(after[i - 1], i = n)]
  <2> DEFINE g == [p \in S \X (1 .. n) |-> ReadBit(p[1], p[2] = n)]
  <2>1. g \in Steps(S, n)
    BY <1>3 DEF Steps
  <2> HIDE DEF g
  <2>2. PICK f : IsLoop(f, S, c, g, n)
    BY <1>1, <1>4, <2>1, LoopExists
  <2>3. f \in [0 .. n -> S] /\ f[0] = c
    BY <2>2 DEF IsLoop
  <2>4. \A i \in 1 .. n : f[i] = ReadBit(f[i - 1], i = n)
    <3>1. \A i \in 1 .. n : f[i] = g[<<f[i - 1], i>>]
      BY <2>2 DEF IsLoop
    <3>2. \A i \in 1 .. n : i - 1 \in 0 .. n
      BY <1>1
    <3>3. \A i \in 1 .. n : <<f[i - 1], i>> \in S \X (1 .. n)
      BY <2>3, <3>2
    <3> QED
      BY <3>1, <3>3 DEF g
  <2>5. f = [i \in 0 .. n |-> IF i = 0 THEN c ELSE ReadBit(f[i - 1], i = n)]
    <3>1. f = [i \in 0 .. n |-> f[i]]
      BY <2>3
    <3>2. \A i \in 0 .. n : i = 0 \/ i \in 1 .. n
      BY <1>1
    <3> QED
      BY <2>3, <2>4, <3>1, <3>2
  <2> QED
    BY <2>5
<1> HIDE DEF after
<1> DEFINE So(r, i) ==
             /\ Len(r.id) = i /\ \A k \in 1 .. i : r.id[k] = IdCode[k]
             /\ i < n => /\ Driven(r.j) /\ r.j.tap = "ShDR" /\ r.j.instr = IdcodeIr
                         /\ Len(r.j.reg) = n
                         /\ \A k \in 1 .. (n - i) : r.j.reg[k] = IdCode[i + k]
           T == [i \in 0 .. n |-> {r \in S : Home(w) => So(r, i)}]
<1>6. after[0] \in T[0]
  <2>1. after[0] = c /\ 0 \in 0 .. n
    BY <1>1, <1>5
  <2>2. Home(w) => So(c, 0)
    <3> SUFFICES ASSUME Home(w) PROVE So(c, 0)
      OBVIOUS
    <3>1. Len(w.reg) = n /\ \A k \in 1 .. (n - 0) : w.reg[k] = IdCode[0 + k]
      BY <1>1 DEF Home, n
    <3> QED
      BY <1>4, <3>1 DEF Home
  <2> QED
    BY <1>4, <2>1, <2>2
<1>7. ASSUME NEW i \in 1 .. n, after[i - 1] \in T[i - 1] PROVE after[i] \in T[i]
  <2> DEFINE r == after[i - 1]
             tms == IF i = n THEN 1 ELSE 0
  <2>1. i \in 0 .. n /\ i - 1 \in 0 .. n /\ i # 0 /\ i \in Nat /\ i - 1 \in Nat /\ i - 1 < n
    BY <1>1
  <2>2. r \in S /\ (Home(w) => So(r, i - 1)) /\ r.j \in Wires /\ r.id \in Seq(B01)
    <3>1. r \in S /\ (Home(w) => So(r, i - 1))
      BY <1>7, <2>1
    <3> QED
      BY <3>1 DEF S
  <2>3. after[i] = ReadBit(r, i = n)
    BY <1>5, <2>1
  <2> HIDE DEF r, T
  <2>4. after[i] \in S
    BY <1>3, <2>2, <2>3
  <2>5. Home(w) => So(after[i], i)
    <3> SUFFICES ASSUME Home(w) PROVE So(after[i], i)
      OBVIOUS
    <3>1. So(r, i - 1)
      BY <2>2
    <3> DEFINE p == jtag_pulse(r.j, tms)
    <3>2. tms \in B01 /\ after[i] = [j |-> p, id |-> Append(r.id, TDO(r.j))]
      BY <2>3 DEF ReadBit, B01
    <3>3. /\ Driven(r.j) /\ r.j.tap = "ShDR" /\ r.j.instr = IdcodeIr /\ Len(r.j.reg) = n
          /\ r.j.reg \in Seq(B01) /\ r.j.reg # <<>>
      BY <2>1, <2>2, <3>1 DEF Wires, Full
    <3>4. TDO(r.j) = IdCode[i]
      <4>1. TDO(r.j) = r.j.reg[1]
        BY <3>3 DEF TDO
      <4>2. 1 \in 1 .. (n - (i - 1)) /\ (i - 1) + 1 = i
        BY <1>1, <2>1
      <4>3. r.j.reg[1] = IdCode[(i - 1) + 1]
        BY <2>1, <3>1, <4>2
      <4> QED
        BY <4>1, <4>2, <4>3
    <3>5. /\ Len(after[i].id) = i /\ \A k \in 1 .. i : after[i].id[k] = IdCode[k]
      <4> DEFINE q == r.id
                 x == TDO(r.j)
      <4>1. q \in Seq(B01) /\ Len(q) = i - 1 /\ (\A k \in 1 .. (i - 1) : q[k] = IdCode[k]) /\ x = IdCode[i] /\ x \in B01
        BY <2>2, <3>1, <3>4, TdoType
      <4>2. after[i].id = Append(q, x)
        BY <3>2
      <4> HIDE DEF q, x, So
      <4>3. Len(Append(q, x)) = i /\ \A k \in 1 .. i : Append(q, x)[k] = IF k = i THEN x ELSE q[k]
        BY <2>1, <4>1, AppendProperties
      <4> QED
        BY <2>1, <4>1, <4>2, <4>3
    <3>6. ASSUME i < n
          PROVE  /\ Driven(p) /\ p.tap = "ShDR" /\ p.instr = IdcodeIr /\ Len(p.reg) = n
                 /\ \A k \in 1 .. (n - i) : p.reg[k] = IdCode[i + k]
      <4>1. tms = 0
        BY <1>1, <2>1, <3>6
      <4>2. TapNext["ShDR"][0 + 1] = "ShDR"
        BY DEF TapNext
      <4>0. p = jtag_pulse(r.j, 0) /\ 0 \in B01
        BY <4>1 DEF B01
      <4>3. Driven(p) /\ p.tap = "ShDR" /\ p.instr = IdcodeIr /\ p.reg = Append(Tail(r.j.reg), 0)
        <5> HIDE DEF p, So
        <5>1. p.tap = "ShDR" /\ Driven(p)
          BY <2>2, <3>3, <4>0, <4>2, PulseTap
        <5> QED
          BY <2>2, <3>3, <4>0, <5>1, PulseTap
      <4> DEFINE q == r.j.reg
      <4>4. q \in Seq(B01) /\ q # <<>> /\ Len(q) = n /\ \A k \in 1 .. (n - (i - 1)) : q[k] = IdCode[(i - 1) + k]
        BY <2>1, <3>1, <3>3
      <4> HIDE DEF q, So, p
      <4>5. Tail(q) \in Seq(B01) /\ Len(Tail(q)) = n - 1 /\ \A k \in 1 .. (n - 1) : Tail(q)[k] = q[k + 1]
        BY <4>4, HeadTailProperties
      <4>6. /\ Len(Append(Tail(q), 0)) = n
            /\ \A k \in 1 .. (n - 1) : Append(Tail(q), 0)[k] = Tail(q)[k]
        <5>1. 0 \in B01
          BY DEF B01
        <5> QED
          BY <1>1, <4>5, <5>1, AppendProperties
      <4>7. ASSUME NEW k \in 1 .. (n - i) PROVE Append(Tail(q), 0)[k] = IdCode[i + k]
        <5>1. k \in 1 .. (n - 1) /\ k + 1 \in 1 .. (n - (i - 1)) /\ (i - 1) + (k + 1) = i + k
          BY <1>1, <2>1
        <5> QED
          BY <4>4, <4>5, <4>6, <5>1
      <4> QED
        BY <4>3, <4>6, <4>7 DEF q
    <3> HIDE DEF p
    <3>7. after[i].j = p
      BY <3>2
    <3> QED
      BY <3>5, <3>6, <3>7
  <2> QED
    BY <2>1, <2>4, <2>5 DEF T
<1> HIDE DEF T
<1>8. \A i \in 0 .. n : after[i] \in T[i]
  BY <1>1, <1>6, <1>7, LoopKeeps
<1>9. after[n] \in S /\ (Home(w) => So(after[n], n))
  <2>1. n \in 0 .. n
    BY <1>1
  <2> QED
    BY <1>8, <2>1 DEF T
<1>10. Home(w) => after[n].id = IdCode
  <2> SUFFICES ASSUME Home(w) PROVE after[n].id = IdCode
    OBVIOUS
  <2>1. after[n].id \in Seq(B01) /\ Len(after[n].id) = n /\ \A k \in 1 .. n : after[n].id[k] = IdCode[k]
    BY <1>9 DEF S
  <2> QED
    BY <1>1, <2>1, SeqEqual DEF n
<1>11. after[n].j \in Wires /\ after[n].j.fam = w.fam /\ after[n] \in [j : Wires, id : Seq(B01)]
  BY <1>9 DEF S
<1> QED
  BY <1>2, <1>10, <1>11

\* What J reads and leaves.
LEMMA IdcodeRead ==
  ASSUME NEW w \in Wires
  PROVE  /\ jtag_read_idcode(w).j \in Wires /\ jtag_read_idcode(w).j.fam = w.fam
         /\ ~w.jinit => jtag_read_idcode(w).id = IdCode
<1> DEFINE m == jtag_tms_seq(jtag_init(w), TlrSeq \o <<0, 1, 0, 0>>)
           r == ReadId(m)
<1>1. jtag_init(w) \in Wires /\ jtag_init(w).fam = w.fam /\ (~w.jinit => Driven(jtag_init(w)))
  BY JtagInitType, InitDrives
<1>2. m \in Wires /\ m.fam = w.fam /\ (~w.jinit => Home(m))
  BY <1>1, MovesBits, TmsSeqType, ComesHome
<1>3. jtag_read_idcode(w) = [r EXCEPT !.j = jtag_tms_seq(r.j, <<1, 0>> \o TlrSeq)]
  BY DEF jtag_read_idcode, Park
<1> HIDE DEF m
<1>4. r.j \in Wires /\ r.j.fam = w.fam /\ (~w.jinit => r.id = IdCode)
  BY <1>2, ReadIdReads
<1>5. <<1, 0>> \o TlrSeq \in Seq(B01)
  <2>1. <<1, 0>> \in Seq(B01) /\ <<1, 1, 1, 1, 1>> \in Seq(B01)
    BY DEF B01
  <2> QED
    BY <2>1, ConcatProperties DEF TlrSeq
<1>6. /\ jtag_tms_seq(r.j, <<1, 0>> \o TlrSeq) \in Wires
      /\ jtag_tms_seq(r.j, <<1, 0>> \o TlrSeq).fam = w.fam
  BY <1>4, <1>5, TmsSeqType
<1>7. r \in [j : Wires, id : Seq(B01)]
  BY <1>2, ReadIdReads
<1> HIDE DEF r
<1> QED
  BY <1>3, <1>4, <1>6, <1>7

(***************************************************************************)
(* Bytes and bits                                                          *)
(***************************************************************************)
\* A byte and its bits, lowest first.
LEMMA BitAt ==
  ASSUME NEW b \in Byte
  PROVE  /\ ByteBits[b][1] = b % 2 /\ ByteBits[b][2] = (b \div 2) % 2
         /\ ByteBits[b][3] = (b \div 4) % 2 /\ ByteBits[b][4] = (b \div 8) % 2
         /\ ByteBits[b][5] = (b \div 16) % 2 /\ ByteBits[b][6] = (b \div 32) % 2
         /\ ByteBits[b][7] = (b \div 64) % 2 /\ ByteBits[b][8] = (b \div 128) % 2
<1>1. \A i \in 1 .. 8 : ByteBits[b][i] = (b \div 2^(i - 1)) % 2
  BY DEF ByteBits, Byte, Bits
<1>2. /\ 2^(1 - 1) = 1 /\ 2^(2 - 1) = 2 /\ 2^(3 - 1) = 4 /\ 2^(4 - 1) = 8
      /\ 2^(5 - 1) = 16 /\ 2^(6 - 1) = 32 /\ 2^(7 - 1) = 64 /\ 2^(8 - 1) = 128
  OBVIOUS
<1>3. b \div 1 = b
  BY DEF Byte
<1>4. /\ ByteBits[b][1] = (b \div 2^(1 - 1)) % 2 /\ ByteBits[b][2] = (b \div 2^(2 - 1)) % 2
      /\ ByteBits[b][3] = (b \div 2^(3 - 1)) % 2 /\ ByteBits[b][4] = (b \div 2^(4 - 1)) % 2
      /\ ByteBits[b][5] = (b \div 2^(5 - 1)) % 2 /\ ByteBits[b][6] = (b \div 2^(6 - 1)) % 2
      /\ ByteBits[b][7] = (b \div 2^(7 - 1)) % 2 /\ ByteBits[b][8] = (b \div 2^(8 - 1)) % 2
  BY <1>1
<1> QED
  BY <1>2, <1>3, <1>4

LEMMA BitsGiveByte == ASSUME NEW b \in Byte PROVE BitsByte(ByteBits[b]) = b
<1>1. \A x \in Nat : x = 2 * (x \div 2) + (x % 2)
  OBVIOUS
<1>2. /\ (b \div 2) \div 2 = b \div 4 /\ (b \div 4) \div 2 = b \div 8 /\ (b \div 8) \div 2 = b \div 16
      /\ (b \div 16) \div 2 = b \div 32 /\ (b \div 32) \div 2 = b \div 64
      /\ (b \div 64) \div 2 = b \div 128 /\ (b \div 128) \div 2 = 0
  BY DEF Byte
<1>3. /\ b \in Nat /\ b \div 2 \in Nat /\ b \div 4 \in Nat /\ b \div 8 \in Nat /\ b \div 16 \in Nat
      /\ b \div 32 \in Nat /\ b \div 64 \in Nat /\ b \div 128 \in Nat
  BY DEF Byte
<1> DEFINE c == b \div 2
           d == b \div 4
           e == b \div 8
           f == b \div 16
           g == b \div 32
           h == b \div 64
           k == b \div 128
<1>4. /\ b = 2 * c + (b % 2) /\ c = 2 * d + (c % 2) /\ d = 2 * e + (d % 2) /\ e = 2 * f + (e % 2)
      /\ f = 2 * g + (f % 2) /\ g = 2 * h + (g % 2) /\ h = 2 * k + (h % 2) /\ k = 2 * 0 + (k % 2)
  BY <1>1, <1>2, <1>3
<1>5. /\ b \in Nat /\ c \in Nat /\ d \in Nat /\ e \in Nat /\ f \in Nat /\ g \in Nat /\ h \in Nat /\ k \in Nat
  BY <1>3
<1>6. BitsByte(ByteBits[b]) = (b % 2) + 2 * (c % 2) + 4 * (d % 2) + 8 * (e % 2) + 16 * (f % 2)
                              + 32 * (g % 2) + 64 * (h % 2) + 128 * (k % 2)
  BY BitAt DEF BitsByte
<1> HIDE DEF c, d, e, f, g, h, k
<1> QED
  BY <1>4, <1>5, <1>6

LEMMA ByteGivesBits ==
  ASSUME NEW s \in Seq(B01), Len(s) = 8 PROVE \A i \in 1 .. 8 : ByteBits[BitsByte(s)][i] = s[i]
<1>1. ASSUME NEW i \in 1 .. 8 PROVE s[i] \in 0 .. 1
  <2>1. s[i] \in B01
    BY ElementOfSeq
  <2> QED
    BY <2>1 DEF B01
<1>2. /\ s[1] \in 0 .. 1 /\ s[2] \in 0 .. 1 /\ s[3] \in 0 .. 1 /\ s[4] \in 0 .. 1
      /\ s[5] \in 0 .. 1 /\ s[6] \in 0 .. 1 /\ s[7] \in 0 .. 1 /\ s[8] \in 0 .. 1
  BY <1>1
<1>3. PICK a \in 0 .. 1, b \in 0 .. 1, c \in 0 .. 1, d \in 0 .. 1,
           e \in 0 .. 1, f \in 0 .. 1, g \in 0 .. 1, h \in 0 .. 1 :
        s[1] = a /\ s[2] = b /\ s[3] = c /\ s[4] = d /\ s[5] = e /\ s[6] = f /\ s[7] = g /\ s[8] = h
  BY <1>2
<1> DEFINE x == a + 2*b + 4*c + 8*d + 16*e + 32*f + 64*g + 128*h
<1>4. x = BitsByte(s) /\ x \in Byte
  BY <1>3, BitsByteType DEF BitsByte
<1>5. /\ x % 2 = a /\ (x \div 2) % 2 = b /\ (x \div 4) % 2 = c /\ (x \div 8) % 2 = d
      /\ (x \div 16) % 2 = e /\ (x \div 32) % 2 = f /\ (x \div 64) % 2 = g /\ (x \div 128) % 2 = h
  OBVIOUS
<1> HIDE DEF x
<1>6. /\ ByteBits[x][1] = a /\ ByteBits[x][2] = b /\ ByteBits[x][3] = c /\ ByteBits[x][4] = d
      /\ ByteBits[x][5] = e /\ ByteBits[x][6] = f /\ ByteBits[x][7] = g /\ ByteBits[x][8] = h
  BY <1>4, <1>5, BitAt
<1>7. \A i \in 1 .. 8 : i = 1 \/ i = 2 \/ i = 3 \/ i = 4 \/ i = 5 \/ i = 6 \/ i = 7 \/ i = 8
  OBVIOUS
<1> QED
  BY <1>3, <1>4, <1>6, <1>7

\* The bits of bytes as the engine shifts them: lowest first.
Wired(bytes) == [i \in 1 .. 8 * Len(bytes) |-> ByteBits[bytes[(i - 1) \div 8 + 1]][((i - 1) % 8) + 1]]

LEMMA WiredType ==
  ASSUME NEW bytes \in Seq(Byte)
  PROVE  /\ Wired(bytes) \in Seq(B01) /\ Len(Wired(bytes)) = 8 * Len(bytes)
         /\ \A p \in 1 .. Len(bytes), i \in 1 .. 8 : Wired(bytes)[8 * (p - 1) + i] = ByteBits[bytes[p]][i]
<1>1. Len(bytes) \in Nat
  OBVIOUS
<1>2. ASSUME NEW i \in 1 .. 8 * Len(bytes)
      PROVE  ByteBits[bytes[(i - 1) \div 8 + 1]][((i - 1) % 8) + 1] \in B01
  <2>1. (i - 1) \div 8 + 1 \in 1 .. Len(bytes) /\ ((i - 1) % 8) + 1 \in 1 .. 8
    BY <1>1
  <2>2. bytes[(i - 1) \div 8 + 1] \in Byte
    BY <2>1, ElementOfSeq
  <2> QED
    BY <2>1, <2>2, ByteBitsType, ElementOfSeq
<1>3. Wired(bytes) \in [1 .. 8 * Len(bytes) -> B01]
  BY <1>2 DEF Wired
<1>4. Wired(bytes) \in Seq(B01) /\ Len(Wired(bytes)) = 8 * Len(bytes)
  BY <1>1, <1>3, FunSeq
<1>5. ASSUME NEW p \in 1 .. Len(bytes), NEW i \in 1 .. 8
      PROVE  Wired(bytes)[8 * (p - 1) + i] = ByteBits[bytes[p]][i]
  <2> DEFINE k == 8 * (p - 1) + i
  <2>1. k \in 1 .. 8 * Len(bytes) /\ (k - 1) \div 8 + 1 = p /\ ((k - 1) % 8) + 1 = i
    BY <1>1
  <2> HIDE DEF k
  <2>2. Wired(bytes)[k] = ByteBits[bytes[(k - 1) \div 8 + 1]][((k - 1) % 8) + 1]
    BY <2>1 DEF Wired
  <2>3. Wired(bytes)[k] = ByteBits[bytes[p]][i]
    BY <2>1, <2>2
  <2> QED
    BY <2>3 DEF k
<1> QED
  BY <1>4, <1>5

\* Different bytes have different bits.
LEMMA WiredTells ==
  ASSUME NEW a \in Seq(Byte), NEW b \in Seq(Byte), Wired(a) = Wired(b) PROVE a = b
<1>1. Len(a) = Len(b)
  <2>1. 8 * Len(a) = 8 * Len(b)
    BY WiredType
  <2> QED
    BY <2>1
<1>2. ASSUME NEW p \in 1 .. Len(a) PROVE a[p] = b[p]
  <2>1. a[p] \in Byte /\ b[p] \in Byte /\ p \in 1 .. Len(b)
    BY <1>1, ElementOfSeq
  <2>2. ASSUME NEW i \in 1 .. 8 PROVE ByteBits[a[p]][i] = ByteBits[b[p]][i]
    <3>1. Wired(a)[8 * (p - 1) + i] = ByteBits[a[p]][i]
      BY WiredType
    <3>2. Wired(b)[8 * (p - 1) + i] = ByteBits[b[p]][i]
      BY <2>1, WiredType
    <3> QED
      BY <3>1, <3>2
  <2>3. BitsByte(ByteBits[a[p]]) = BitsByte(ByteBits[b[p]])
    <3> DEFINE f == ByteBits[a[p]]
               g == ByteBits[b[p]]
    <3>1. /\ f[1] = g[1] /\ f[2] = g[2] /\ f[3] = g[3] /\ f[4] = g[4]
          /\ f[5] = g[5] /\ f[6] = g[6] /\ f[7] = g[7] /\ f[8] = g[8]
      BY <2>2
    <3> HIDE DEF f, g
    <3> QED
      BY <3>1 DEF BitsByte, f, g
  <2> QED
    BY <2>1, <2>3, BitsGiveByte
<1> QED
  BY <1>1, <1>2, SeqEqual

(***************************************************************************)
(* Clocks                                                                  *)
(***************************************************************************)
\* The part of the record that belongs to the TAP; Clock needs no more of it.
TapOf(w) == [fam |-> w.fam, tap |-> w.tap, instr |-> w.instr, reg |-> w.reg, cfg |-> w.cfg,
             ticks |-> w.ticks, core |-> w.core]
TapStates == [fam : {Cyclone, Artix}, tap : Taps, instr : Seq(B01), reg : Full, cfg : Seq(B01),
              ticks : Nat, core : Cores]

LEMMA TapOfType == ASSUME NEW w \in Wires PROVE TapOf(w) \in TapStates
BY DEF Wires, TapOf, TapStates

LEMMA EnterTap ==
  ASSUME NEW w \in Wires, NEW s \in Taps PROVE TapOf(Enter(w, s)) = Enter(TapOf(w), s)
<1>1. CASE s = "TLR"
  BY <1>1 DEF Enter, Wires, TapOf
<1>2. CASE s = "UpdIR"
  BY <1>2 DEF Enter, Wires, TapOf
<1>3. CASE s = "CapIR"
  BY <1>3 DEF Enter, Wires, TapOf
<1>4. CASE s = "CapDR"
  BY <1>4 DEF Enter, Wires, TapOf
<1>5. CASE s = "RTI" /\ w.instr = Bits(w.fam.startup, w.fam.ir) /\ w.ticks < StartTicks
  BY <1>5 DEF Enter, Wires, TapOf
<1>6. CASE /\ s # "TLR" /\ s # "UpdIR" /\ s # "CapIR" /\ s # "CapDR"
           /\ ~(s = "RTI" /\ w.instr = Bits(w.fam.startup, w.fam.ir) /\ w.ticks < StartTicks)
  BY <1>6 DEF Enter, Wires, TapOf
<1> QED
  BY <1>1, <1>2, <1>3, <1>4, <1>5, <1>6

\* What the clock does to the TAP before it moves.
Shift(t, tdi) ==
  IF t.tap = "ShDR" /\ t.instr = Bits(t.fam.config, t.fam.ir) THEN [t EXCEPT !.cfg = Append(@, tdi)]
  ELSE IF t.tap \in {"ShDR", "ShIR"} THEN [t EXCEPT !.reg = Append(Tail(@), tdi)]
  ELSE t

LEMMA ClockTap ==
  ASSUME NEW w \in Wires, NEW tms \in B01, NEW tdi \in B01
  PROVE  TapOf(Clock(w, tms, tdi)) = Clock(TapOf(w), tms, tdi)
<1> DEFINE next == TapNext[w.tap][tms + 1]
           s == Shift(w, tdi)
<1>1. w.reg \in Full /\ w.cfg \in Seq(B01) /\ w.tap \in Taps
  BY DEF Wires
<1>2. Append(Tail(w.reg), tdi) \in Full
  BY <1>1, ShiftedIn
<1>3. Append(w.cfg, tdi) \in Seq(B01)
  BY <1>1
<1>4. s \in Wires
  BY <1>2, <1>3 DEF Wires, Shift
<1>5. next \in Taps
  BY <1>1, TapNextType
<1>6. TapOf(s) = Shift(TapOf(w), tdi)
  BY DEF TapOf, Shift, Wires
<1>7. Clock(w, tms, tdi) = Enter(s, next)
  BY DEF Clock, Shift
<1>8. Clock(TapOf(w), tms, tdi) = Enter(Shift(TapOf(w), tdi), next)
  <2>1. TapOf(w).tap = w.tap
    BY DEF TapOf
  <2> QED
    BY <2>1 DEF Clock, Shift
<1> HIDE DEF s, next
<1> QED
  BY <1>4, <1>5, <1>6, <1>7, <1>8, EnterTap

\* The engine between two commands of levels: the pins driven, or about to be, from TCK low.
Calm(w) == /\ ~w.pio /\ w.left = 0
           /\ w.oe => w.dirT /\ w.dirM
           /\ ~w.oe => w.tck = 0

LEMMA HalfFlags ==
  ASSUME NEW m \in B01, NEW d \in B01, NEW i \in Nat
  PROVE  LET b == Half(m, d, i)
         IN  /\ b \in Byte /\ ~Flag(b, 128) /\ Flag(b, 32)
             /\ Bit(b, 1) = (i + 1) % 2 /\ Bit(b, 2) = m /\ Bit(b, 16) = d
<1>1. PICK k \in 0 .. 1 : k = (i + 1) % 2
  OBVIOUS
<1>2. Half(m, d, i) = 32 + 2 * m + 16 * d + k /\ m \in 0 .. 1 /\ d \in 0 .. 1
  BY <1>1 DEF Half, B01
<1>3. \A a, c, e \in 0 .. 1 :
        LET b == 32 + 2 * a + 16 * c + e
        IN  /\ b \in 0 .. 255 /\ (b \div 128) % 2 = 0 /\ (b \div 32) % 2 = 1
            /\ (b \div 1) % 2 = e /\ (b \div 2) % 2 = a /\ (b \div 16) % 2 = c
  OBVIOUS
<1> QED
  BY <1>1, <1>2, <1>3 DEF Flag, Bit, Byte

LEMMA HalfFed ==
  ASSUME NEW w \in Wires, w.left = 0, NEW m \in B01, NEW d \in B01, NEW i \in Nat
  PROVE  Fed(w, Half(m, d, i)) = Levels(output_enable(w, TRUE), (i + 1) % 2, m, d)
<1> DEFINE b == Half(m, d, i)
           s == [j |-> w, tx |-> <<>>]
           o == output_enable(w, TRUE)
           k == (i + 1) % 2
<1>1. ~Flag(b, 128) /\ Flag(b, 32) = TRUE /\ Bit(b, 1) = k /\ Bit(b, 2) = m /\ Bit(b, 16) = d
  BY HalfFlags DEF Flag
<1> HIDE DEF b, k
<1>2. s.j = w /\ ~(s.j.left > 0)
  OBVIOUS
<1> HIDE DEF s
<1>3. ProcessByte(s, b) = bitbang(output_enable(s.j, Flag(b, 32)), b, s.tx)
  BY <1>1, <1>2 DEF ProcessByte
<1>4. ProcessByte(s, b) = bitbang(o, b, s.tx)
  BY <1>1, <1>2, <1>3, Zenon
<1> HIDE DEF o
<1>5. bitbang(o, b, s.tx).j = Levels(o, k, m, d)
  BY <1>1 DEF bitbang
<1> QED
  BY <1>4, <1>5 DEF Fed, s, b, o, k

\* The pins of a calm engine, once driven.
LEMMA Enabled ==
  ASSUME NEW w \in Wires, Calm(w)
  PROVE  LET o == output_enable(w, TRUE)
         IN  /\ o \in Wires /\ o.oe /\ o.dirT /\ o.dirM /\ ~o.pio /\ o.left = 0
             /\ o.pioOk = w.pioOk /\ TapOf(o) = TapOf(w)
<1>1. CASE w.oe
  BY <1>1 DEF output_enable, Calm, Wires
<1>2. CASE ~w.oe
  <2> DEFINE o == [w EXCEPT !.oe = TRUE, !.dirT = TRUE, !.dirM = TRUE]
             a == [w EXCEPT !.oe = TRUE]
  <2>1. o \in Wires /\ TckLine(o) = 0
    BY <1>2 DEF Wires, Calm, TckLine
  <2>2. [a EXCEPT !.dirT = TRUE, !.dirM = TRUE] = o
    BY DEF Wires
  <2>3. output_enable(w, TRUE) = Directions(a, TRUE)
    BY <1>2 DEF output_enable, Wires
  <2> HIDE DEF a
  <2>4. output_enable(w, TRUE) = o
    <3> DEFINE e == [a EXCEPT !.dirT = TRUE, !.dirM = TRUE]
    <3>1. Directions(a, TRUE) = Settle(a, e) /\ e = o
      BY <2>2 DEF Directions
    <3> HIDE DEF o, e
    <3>2. Settle(a, o) = o
      <4>1. TckLine(o) # 1
        BY <2>1
      <4> QED
        BY <4>1, Zenon DEF Settle
    <3> QED
      BY <2>3, <3>1, <3>2, Zenon
  <2>5. /\ o.oe /\ o.dirT /\ o.dirM /\ ~o.pio /\ o.left = 0 /\ o.pioOk = w.pioOk /\ TapOf(o) = TapOf(w)
    BY DEF Calm, Wires, TapOf
  <2> QED
    BY <2>1, <2>4, <2>5
<1> QED
  BY <1>1, <1>2

\* A clock of the byte strings: TCK low, then high.
LEMMA PairClocks ==
  ASSUME NEW w \in Wires, Calm(w), NEW m \in B01, NEW d \in B01,
         NEW i \in Nat, NEW k \in Nat, (i + 1) % 2 = 0, (k + 1) % 2 = 1
  PROVE  LET v == Fed(Fed(w, Half(m, d, i)), Half(m, d, k))
         IN  /\ v \in Wires /\ Calm(v) /\ v.oe /\ v.tms = m /\ v.pioOk = w.pioOk
             /\ TapOf(v) = Clock(TapOf(w), m, d)
<1> DEFINE o == output_enable(w, TRUE)
           low == [o EXCEPT !.tck = 0, !.tms = m, !.tdi = d]
           up == [low EXCEPT !.tck = 1, !.tms = m, !.tdi = d]
           v == Clock(up, m, d)
<1>1. /\ o \in Wires /\ o.oe = TRUE /\ o.dirT = TRUE /\ o.dirM = TRUE /\ o.pio = FALSE /\ o.left = 0
      /\ o.pioOk = w.pioOk /\ TapOf(o) = TapOf(w)
  <2>1. /\ o \in Wires /\ o.oe /\ o.dirT /\ o.dirM /\ ~o.pio /\ o.left = 0
        /\ o.pioOk = w.pioOk /\ TapOf(o) = TapOf(w)
    BY Enabled
  <2> QED
    BY <2>1 DEF Wires
<1>2. Fed(w, Half(m, d, i)) = Levels(o, 0, m, d)
  <2>1. w.left = 0
    BY DEF Calm
  <2>2. Fed(w, Half(m, d, i)) = Levels(o, (i + 1) % 2, m, d)
    BY <2>1, HalfFed
  <2> QED
    BY <2>2
<1> HIDE DEF o
<1>3. /\ low \in Wires /\ low.oe = TRUE /\ low.dirT = TRUE /\ low.dirM = TRUE /\ low.pio = FALSE /\ low.left = 0
      /\ low.tck = 0 /\ low.pioOk = w.pioOk /\ TapOf(low) = TapOf(w)
  <2>1. TapOf(low) = TapOf(o)
    BY <1>1 DEF Wires, TapOf
  <2>2. low \in Wires
    <3>1. 0 \in B01
      BY DEF B01
    <3> QED
      BY <1>1, <3>1 DEF Wires
  <2>3. /\ low.oe = TRUE /\ low.dirT = TRUE /\ low.dirM = TRUE /\ low.pio = FALSE /\ low.left = 0
        /\ low.tck = 0 /\ low.pioOk = w.pioOk
    BY <1>1 DEF Wires, B01
  <2> HIDE DEF low
  <2> QED
    BY <1>1, <2>1, <2>2, <2>3
<1>4. Levels(o, 0, m, d) = low
  <2>1. TckLine(low) = 0
    BY <1>3 DEF TckLine
  <2> QED
    BY <2>1 DEF Levels, Settle
<1> HIDE DEF low
<1>5. /\ up \in Wires /\ up.oe = TRUE /\ up.dirT = TRUE /\ up.dirM = TRUE /\ up.pio = FALSE /\ up.left = 0
      /\ up.tck = 1 /\ up.tms = m /\ up.tdi = d /\ up.pioOk = w.pioOk /\ TapOf(up) = TapOf(w)
  <2>1. TapOf(up) = TapOf(low)
    BY <1>3 DEF Wires, TapOf
  <2>2. up \in Wires
    <3>1. 1 \in B01
      BY DEF B01
    <3> QED
      BY <1>3, <3>1 DEF Wires
  <2>3. /\ up.oe = TRUE /\ up.dirT = TRUE /\ up.dirM = TRUE /\ up.pio = FALSE /\ up.left = 0
        /\ up.tck = 1 /\ up.tms = m /\ up.tdi = d /\ up.pioOk = w.pioOk
    BY <1>3 DEF Wires, B01
  <2> HIDE DEF up
  <2> QED
    BY <1>3, <2>1, <2>2, <2>3
<1>6. output_enable(low, TRUE) = low
  BY <1>3 DEF output_enable
<1>7. Fed(low, Half(m, d, k)) = Levels(low, 1, m, d)
  <2>1. Fed(low, Half(m, d, k)) = Levels(output_enable(low, TRUE), (k + 1) % 2, m, d)
    BY <1>3, HalfFed
  <2> QED
    BY <1>6, <2>1
<1>8. Levels(low, 1, m, d) = Settle(low, up)
  BY DEF Levels
<1> HIDE DEF up
<1>9. Settle(low, up) = v
  <2>1. TckLine(low) = 0 /\ TckLine(up) = 1 /\ TmsLine(up) = m /\ TdiLine(up) = d
    BY <1>3, <1>5 DEF TckLine, TmsLine, TdiLine
  <2> QED
    BY <2>1 DEF Settle
<1>10. v \in Wires /\ Beside(up, v) /\ TapOf(v) = Clock(TapOf(w), m, d)
  BY <1>5, ClockType, ClockBeside, ClockTap
<1> HIDE DEF v
<1>11. Calm(v) /\ v.oe /\ v.tms = m /\ v.pioOk = w.pioOk
  BY <1>5, <1>10 DEF Calm, Beside
<1> QED
  BY <1>2, <1>4, <1>7, <1>8, <1>9, <1>10, <1>11

(***************************************************************************)
(* What byte strings do to the wires                                       *)
(***************************************************************************)
\* The wires when the engine has taken in a byte string.
After(w, rx) == blaster_process(w, rx).j

LEMMA AfterTraced ==
  ASSUME NEW w \in Wires, NEW rx \in Seq(Byte)
  PROVE  /\ \E f : Trace(f, w, rx)
         /\ \A f : Trace(f, w, rx) => After(w, rx) = f[Len(rx)]
<1> DEFINE n == Len(rx)
           g == [p \in Wires \X (1 .. n) |-> Fed(p[1], rx[p[2]])]
<1>1. n \in Nat /\ \A i \in 1 .. n : rx[i] \in Byte
  BY ElementOfSeq
<1> HIDE DEF n
<1>2. ASSUME NEW v \in Wires, NEW b \in Byte PROVE Fed(v, b) \in Wires
  <2> DEFINE s == [j |-> v, tx |-> <<>>]
  <2>1. s \in Runs /\ s.j = v
    BY DEF Runs
  <2> HIDE DEF s
  <2> QED
    BY <2>1, FedAlone
<1>3. g \in Steps(Wires, n)
  <2>1. ASSUME NEW p \in Wires \X (1 .. n) PROVE Fed(p[1], rx[p[2]]) \in Wires
    <3>1. p[1] \in Wires /\ rx[p[2]] \in Byte
      BY <1>1
    <3> QED
      BY <1>2, <3>1
  <2> QED
    BY <2>1 DEF Steps
<1> HIDE DEF g
<1>4. PICK f : IsLoop(f, Wires, w, g, n)
  BY <1>1, <1>3, LoopExists
<1>5. f \in [0 .. n -> Wires] /\ f[0] = w
  BY <1>4 DEF IsLoop
<1>6. \A i \in 1 .. n : f[i] = Fed(f[i - 1], rx[i])
  <2>1. \A i \in 1 .. n : f[i] = g[<<f[i - 1], i>>]
    BY <1>4 DEF IsLoop
  <2>2. \A i \in 1 .. n : i - 1 \in 0 .. n
    BY <1>1
  <2>3. \A i \in 1 .. n : <<f[i - 1], i>> \in Wires \X (1 .. n)
    BY <1>5, <2>2
  <2> QED
    BY <2>1, <2>3 DEF g
<1>7. Trace(f, w, rx)
  BY <1>5, <1>6 DEF Trace, n
<1> QED
  BY <1>7, ProcessType DEF After

LEMMA AfterType ==
  ASSUME NEW w \in Wires, NEW rx \in Seq(Byte)
  PROVE  After(w, rx) \in Wires
BY ProcessType DEF After, Runs

LEMMA AfterOne ==
  ASSUME NEW w \in Wires, NEW b \in Byte
  PROVE  After(w, <<b>>) = Fed(w, b)
<1> DEFINE rx == <<b>>
<1>1. rx \in Seq(Byte) /\ Len(rx) = 1 /\ rx[1] = b
  OBVIOUS
<1> HIDE DEF rx
<1>2. PICK f : Trace(f, w, rx)
  BY <1>1, AfterTraced
<1>3. After(w, rx) = f[1]
  BY <1>1, <1>2, AfterTraced
<1>4. f[1] = Fed(f[0], rx[1]) /\ f[0] = w
  BY <1>1, <1>2 DEF Trace
<1>5. After(w, rx) = Fed(w, b)
  BY <1>1, <1>3, <1>4
<1> QED
  BY <1>5 DEF rx

LEMMA AfterNone ==
  ASSUME NEW w \in Wires PROVE After(w, <<>>) = w
<1> DEFINE rx == <<>>
<1>1. rx \in Seq(Byte) /\ Len(rx) = 0
  OBVIOUS
<1> HIDE DEF rx
<1>2. PICK f : Trace(f, w, rx)
  BY <1>1, AfterTraced
<1>3. After(w, rx) = f[0]
  BY <1>1, <1>2, AfterTraced
<1>4. f[0] = w
  BY <1>2 DEF Trace
<1> QED
  BY <1>3, <1>4 DEF rx

\* One string behind the other.
LEMMA AfterJoined ==
  ASSUME NEW w \in Wires, NEW a \in Seq(Byte), NEW b \in Seq(Byte)
  PROVE  After(w, a \o b) = After(After(w, a), b)
<1> DEFINE c == a \o b
           n == Len(a)
           m == Len(b)
<1>1. n \in Nat /\ m \in Nat
  OBVIOUS
<1>2. c \in Seq(Byte) /\ Len(c) = n + m /\ \A i \in 1 .. n + m : c[i] = IF i <= n THEN a[i] ELSE b[i - n]
  BY ConcatProperties
<1> HIDE DEF c
<1>3. PICK f : Trace(f, w, c)
  BY <1>2, AfterTraced
<1>4. f \in [0 .. n + m -> Wires] /\ f[0] = w /\ \A i \in 1 .. n + m : f[i] = Fed(f[i - 1], c[i])
  BY <1>2, <1>3 DEF Trace
<1>5. After(w, c) = f[n + m]
  BY <1>2, <1>3, AfterTraced
<1> DEFINE g == [i \in 0 .. n |-> f[i]]
           h == [i \in 0 .. m |-> f[n + i]]
<1>6. Trace(g, w, a)
  <2> HIDE DEF n, m
  <2>1. g \in [0 .. n -> Wires] /\ g[0] = w
    <3>1. 0 \in 0 .. n /\ \A i \in 0 .. n : i \in 0 .. n + m
      BY <1>1
    <3> QED
      BY <1>4, <3>1
  <2>2. ASSUME NEW i \in 1 .. n PROVE g[i] = Fed(g[i - 1], a[i])
    <3>1. i \in 0 .. n /\ i - 1 \in 0 .. n /\ i \in 1 .. n + m /\ i <= n
      BY <1>1
    <3>2. f[i] = Fed(f[i - 1], c[i]) /\ c[i] = a[i]
      BY <1>2, <1>4, <3>1
    <3> QED
      BY <3>1, <3>2
  <2> HIDE DEF g
  <2> QED
    BY <2>1, <2>2 DEF Trace, n
<1>7. After(w, a) = f[n] /\ f[n] \in Wires
  <2>1. After(w, a) = g[n]
    <3> HIDE DEF g
    <3> QED
      BY <1>6, AfterTraced
  <2>2. n \in 0 .. n /\ n \in 0 .. n + m
    BY <1>1
  <2> HIDE DEF n, m
  <2> QED
    BY <1>4, <2>1, <2>2
<1>8. Trace(h, f[n], b)
  <2> HIDE DEF n, m
  <2>1. h \in [0 .. m -> Wires] /\ h[0] = f[n]
    <3>1. 0 \in 0 .. m /\ n + 0 = n /\ \A i \in 0 .. m : n + i \in 0 .. n + m
      BY <1>1
    <3> QED
      BY <1>4, <3>1
  <2>2. ASSUME NEW i \in 1 .. m PROVE h[i] = Fed(h[i - 1], b[i])
    <3>1. i \in 0 .. m /\ i - 1 \in 0 .. m /\ n + i \in 1 .. n + m /\ ~(n + i <= n) /\ (n + i) - n = i
          /\ (n + i) - 1 = n + (i - 1)
      BY <1>1
    <3>2. f[n + i] = Fed(f[(n + i) - 1], c[n + i]) /\ c[n + i] = b[i]
      BY <1>2, <1>4, <3>1
    <3> QED
      BY <3>1, <3>2
  <2> HIDE DEF h
  <2> QED
    BY <2>1, <2>2 DEF Trace, m
<1>9. After(f[n], b) = h[m]
  <2> HIDE DEF h
  <2> QED
    BY <1>7, <1>8, AfterTraced
<1>10. h[m] = f[n + m]
  <2>1. m \in 0 .. m
    BY <1>1
  <2> HIDE DEF n, m
  <2> QED
    BY <2>1
<1> HIDE DEF n, m, h, g
<1> QED
  BY <1>5, <1>7, <1>9, <1>10 DEF c

\* From wires of the one kind a byte string leads to wires of the other.
Leads(P, rx, Q) == rx \in Seq(Byte) /\ \A w \in P \cap Wires : After(w, rx) \in Q

LEMMA LeadsOn ==
  ASSUME NEW P, NEW Q, NEW R, NEW a, NEW b, Leads(P, a, Q), Leads(Q, b, R)
  PROVE  Leads(P, a \o b, R)
<1>1. a \in Seq(Byte) /\ b \in Seq(Byte)
  BY DEF Leads
<1>2. a \o b \in Seq(Byte)
  BY <1>1, Joined
<1>3. ASSUME NEW w \in P \cap Wires PROVE After(w, a \o b) \in R
  <2>1. After(w, a) \in Q /\ After(w, a) \in Wires
    BY <1>1, AfterType DEF Leads
  <2>2. After(After(w, a), b) \in R
    BY <2>1 DEF Leads
  <2> QED
    BY <1>1, <2>2, AfterJoined
<1> QED
  BY <1>2, <1>3 DEF Leads

LEMMA LeadsNone == ASSUME NEW P PROVE Leads(P, <<>>, P)
BY AfterNone DEF Leads

LEMMA LeadsWithin ==
  ASSUME NEW P, NEW Q, NEW R, NEW S, NEW rx, Leads(Q, rx, R),
         \A w \in P \cap Wires : w \in Q, \A w \in R \cap Wires : w \in S
  PROVE  Leads(P, rx, S)
BY AfterType DEF Leads

\* The wires after k bytes lie in T[k].
LEMMA LeadsStepwise ==
  ASSUME NEW rx \in Seq(Byte), NEW T,
         \A i \in 1 .. Len(rx) : \A v \in T[i - 1] \cap Wires : Fed(v, rx[i]) \in Wires => Fed(v, rx[i]) \in T[i]
  PROVE  Leads(T[0], rx, T[Len(rx)])
<1> DEFINE n == Len(rx)
<1>1. n \in Nat /\ \A i \in 1 .. n : i - 1 \in 0 .. n /\ i \in 0 .. n
  OBVIOUS
<1> SUFFICES ASSUME NEW w \in T[0] \cap Wires PROVE After(w, rx) \in T[n]
  BY DEF Leads
<1>2. PICK f : Trace(f, w, rx)
  BY AfterTraced
<1>3. f[0] \in T[0]
  BY <1>2 DEF Trace
<1>4. ASSUME NEW i \in 1 .. n, f[i - 1] \in T[i - 1] PROVE f[i] \in T[i]
  <2>1. f[i] = Fed(f[i - 1], rx[i]) /\ f[i] \in Wires /\ f[i - 1] \in Wires
    BY <1>1, <1>2 DEF Trace
  <2> QED
    BY <1>4, <2>1
<1>5. After(w, rx) = f[n]
  BY <1>2, AfterTraced
<1> HIDE DEF n
<1>6. \A i \in 0 .. n : f[i] \in T[i]
  BY <1>1, <1>3, <1>4, LoopKeeps
<1>7. n \in 0 .. n
  BY <1>1
<1> QED
  BY <1>5, <1>6, <1>7

\* Moves of the TAP, a level of TMS and one of TDI each, and the bytes that clock them.
Moves == Seq([tms : B01, tdi : B01])
Spelled(mv) ==
  [i \in 1 .. 2 * Len(mv) |-> Half(mv[(i + 1) \div 2].tms, mv[(i + 1) \div 2].tdi, i)]

Ready(T) == {w \in Wires : Calm(w) /\ TapOf(w) \in T}
\* TCK is about to fall and TMS is at the level of the last move.
Held(T, tms) == {w \in Ready(T) : w.oe /\ w.tms = tms}

LEMMA SpelledType ==
  ASSUME NEW mv \in Moves
  PROVE  /\ Spelled(mv) \in Seq(Byte) /\ Len(Spelled(mv)) = 2 * Len(mv)
         /\ \A i \in 1 .. Len(mv) :
              /\ mv[i].tms \in B01 /\ mv[i].tdi \in B01
              /\ Spelled(mv)[2 * i - 1] = Half(mv[i].tms, mv[i].tdi, 2 * i - 1)
              /\ Spelled(mv)[2 * i] = Half(mv[i].tms, mv[i].tdi, 2 * i)
<1> DEFINE n == Len(mv)
<1>1. n \in Nat /\ \A i \in 1 .. n : mv[i].tms \in B01 /\ mv[i].tdi \in B01
  <2>1. n \in Nat
    BY DEF Moves
  <2>2. ASSUME NEW i \in 1 .. n PROVE mv[i] \in [tms : B01, tdi : B01]
    BY ElementOfSeq DEF Moves
  <2> QED
    BY <2>1, <2>2
<1> HIDE DEF n
<1>2. ASSUME NEW i \in 1 .. 2 * n PROVE Half(mv[(i + 1) \div 2].tms, mv[(i + 1) \div 2].tdi, i) \in Byte
  <2>1. (i + 1) \div 2 \in 1 .. n /\ i \in Nat
    BY <1>1
  <2> QED
    BY <1>1, <2>1, HalfType
<1>3. Spelled(mv) \in [1 .. 2 * n -> Byte]
  BY <1>2 DEF Spelled, n
<1>4. Spelled(mv) \in Seq(Byte) /\ Len(Spelled(mv)) = 2 * n
  BY <1>1, <1>3, FunSeq
<1>5. ASSUME NEW i \in 1 .. n
      PROVE  /\ Spelled(mv)[2 * i - 1] = Half(mv[i].tms, mv[i].tdi, 2 * i - 1)
             /\ Spelled(mv)[2 * i] = Half(mv[i].tms, mv[i].tdi, 2 * i)
  <2> DEFINE a == 2 * i - 1
             b == 2 * i
  <2>1. a \in 1 .. 2 * n /\ (a + 1) \div 2 = i /\ b \in 1 .. 2 * n /\ (b + 1) \div 2 = i
    BY <1>1
  <2> HIDE DEF a, b
  <2>2. Spelled(mv)[a] = Half(mv[i].tms, mv[i].tdi, a) /\ Spelled(mv)[b] = Half(mv[i].tms, mv[i].tdi, b)
    BY <2>1 DEF Spelled, n
  <2> QED
    BY <2>2 DEF a, b
<1> QED
  BY <1>1, <1>4, <1>5 DEF n

\* The TAP after k of the moves lies in T[k].
LEMMA SpelledLeads ==
  ASSUME NEW mv \in Moves, NEW T,
         \A i \in 1 .. Len(mv) : \A t \in T[i - 1] \cap TapStates :
            Clock(t, mv[i].tms, mv[i].tdi) \in TapStates => Clock(t, mv[i].tms, mv[i].tdi) \in T[i]
  PROVE  /\ Leads(Ready(T[0]), Spelled(mv), Ready(T[Len(mv)]))
         /\ Len(mv) # 0 => Leads(Ready(T[0]), Spelled(mv), Held(T[Len(mv)], mv[Len(mv)].tms))
<1> DEFINE n == Len(mv)
           rx == Spelled(mv)
           Z(i) == IF i = 0 THEN Ready(T[0]) ELSE Held(T[i], mv[i].tms)
<1>1. n \in Nat /\ Len(rx) = 2 * n /\ rx \in Seq(Byte)
  <2>1. n \in Nat
    BY DEF Moves
  <2> QED
    BY <2>1, SpelledType
<1>2. ASSUME NEW w \in Ready(T[0]) \cap Wires PROVE After(w, rx) \in Z(n)
  <2>1. PICK f : Trace(f, w, rx)
    BY <1>1, AfterTraced
  <2>2. After(w, rx) = f[2 * n]
    BY <1>1, <2>1, AfterTraced
  <2> DEFINE g == [i \in 0 .. n |-> f[2 * i]]
             U == [i \in 0 .. n |-> Z(i)]
  <2>3. f \in [0 .. 2 * n -> Wires] /\ f[0] = w /\ \A i \in 1 .. 2 * n : f[i] = Fed(f[i - 1], rx[i])
    <3> HIDE DEF rx, n
    <3> QED
      BY <1>1, <2>1 DEF Trace
  <2>4. g[0] \in U[0]
    BY <1>1, <2>3
  <2>5. ASSUME NEW i \in 1 .. n, g[i - 1] \in U[i - 1] PROVE g[i] \in U[i]
    <3> DEFINE v == f[2 * (i - 1)]
               m == mv[i].tms
               d == mv[i].tdi
               x == Fed(Fed(v, Half(m, d, 2 * i - 1)), Half(m, d, 2 * i))
    <3>1. m \in B01 /\ d \in B01 /\ rx[2 * i - 1] = Half(m, d, 2 * i - 1) /\ rx[2 * i] = Half(m, d, 2 * i)
      BY SpelledType
    <3> HIDE DEF n, rx
    <3>2. /\ i - 1 \in 0 .. n /\ i \in 0 .. n /\ i # 0 /\ 2 * (i - 1) \in 0 .. 2 * n
          /\ 2 * i - 1 \in 1 .. 2 * n /\ 2 * i \in 1 .. 2 * n /\ (2 * i - 1) - 1 = 2 * (i - 1)
          /\ 2 * i \in Nat /\ 2 * i - 1 \in Nat /\ ((2 * i - 1) + 1) % 2 = 0 /\ (2 * i + 1) % 2 = 1
      BY <1>1
    <3>3. f[2 * i] = x
      <4>1. f[2 * i - 1] = Fed(f[(2 * i - 1) - 1], rx[2 * i - 1]) /\ f[2 * i] = Fed(f[2 * i - 1], rx[2 * i])
        BY <2>3, <3>2
      <4> QED
        BY <3>1, <3>2, <4>1
    <3> HIDE DEF Z
    <3>4. v \in Z(i - 1) /\ g[i] = f[2 * i] /\ v \in Wires
      BY <2>3, <2>5, <3>2
    <3> HIDE DEF v, g, m, d
    <3>5. v \in Ready(T[i - 1])
      BY <3>4 DEF Z, Held
    <3>6. x \in Wires /\ Calm(x) /\ x.oe /\ x.tms = m /\ TapOf(x) = Clock(TapOf(v), m, d)
      <4>1. Calm(v) /\ v \in Wires
        BY <3>5 DEF Ready
      <4> QED
        BY <3>1, <3>2, <4>1, PairClocks
    <3> HIDE DEF x
    <3>7. TapOf(x) \in T[i]
      <4>1. TapOf(v) \in T[i - 1] \cap TapStates
        BY <3>4, <3>5, TapOfType DEF Ready
      <4>2. Clock(TapOf(v), m, d) \in TapStates
        BY <3>6, TapOfType
      <4>3. Clock(TapOf(v), m, d) \in T[i]
        BY <4>1, <4>2 DEF n, m, d
      <4> QED
        BY <3>6, <4>3
    <3>8. x \in Z(i)
      BY <3>2, <3>6, <3>7 DEF Z, Held, Ready, m
    <3> QED
      BY <3>2, <3>3, <3>4, <3>8
  <2> HIDE DEF U, Z, g, n
  <2>6. \A i \in 0 .. n : g[i] \in U[i]
    BY <1>1, <2>4, <2>5, LoopKeeps
  <2>7. n \in 0 .. n
    BY <1>1
  <2>8. g[n] \in U[n] /\ g[n] = f[2 * n] /\ U[n] = Z(n)
    BY <2>6, <2>7 DEF g, U
  <2> QED
    BY <2>2, <2>8
<1>3. Leads(Ready(T[0]), rx, Z(n))
  BY <1>1, <1>2 DEF Leads
<1>4. \A w \in Z(n) : w \in Ready(T[n])
  BY DEF Held
<1>5. n # 0 => Z(n) = Held(T[n], mv[n].tms)
  OBVIOUS
<1> HIDE DEF Z, n, rx
<1> QED
  BY <1>3, <1>4, <1>5 DEF n, rx, Leads

(***************************************************************************)
(* What the moves do to the TAP                                            *)
(***************************************************************************)
Erasing(fam) == Bits(IF fam.reversed THEN fam.program ELSE fam.config, fam.ir)
Starting(fam) == Bits(fam.startup, fam.ir)
Configuring(fam) == Bits(fam.config, fam.ir)

LEMMA ClockTo ==
  ASSUME NEW t \in TapStates, NEW m \in B01, NEW d \in B01
  PROVE  LET c == Clock(t, m, d)
             to == TapNext[t.tap][m + 1]
             ticks == to = "RTI" /\ t.instr = Starting(t.fam) /\ t.ticks < StartTicks
         IN  /\ c.fam = t.fam /\ c.tap = to
             /\ to = "TLR" => c.instr = IdcodeIr
             /\ to \notin {"TLR", "UpdIR"} => c.instr = t.instr
             /\ to # "UpdIR" => c.cfg = IF t.tap = "ShDR" /\ t.instr = Configuring(t.fam)
                                        THEN Append(t.cfg, d) ELSE t.cfg
             /\ (to # "UpdIR" /\ ~ticks) => c.core = t.core /\ c.ticks = t.ticks
             /\ (ticks /\ t.tap # "ShDR") => /\ c.ticks = t.ticks + 1
                         /\ c.core = IF t.ticks + 1 = StartTicks /\ t.core = Blank
                                     THEN Started(t.fam, t.cfg) ELSE t.core
             /\ to = "CapIR" => Len(c.reg) = t.fam.ir
             /\ (t.tap = "CapIR" /\ to = "ShIR") => c.reg = t.reg
             /\ (t.tap = "ShIR") => c.reg = Append(Tail(t.reg), d)
             /\ (t.tap = "Ex1IR" /\ to = "UpdIR") =>
                  /\ c.instr = t.reg /\ c.ticks = 0
                  /\ c.core = IF t.reg = Erasing(t.fam) THEN Blank ELSE t.core
                  /\ c.cfg = IF t.reg = Erasing(t.fam) THEN <<>> ELSE t.cfg
<1> DEFINE s == Shift(t, d)
           to == TapNext[t.tap][m + 1]
           c == Clock(t, m, d)
<1>0. /\ t.reg \in Full /\ t.cfg \in Seq(B01) /\ t.tap \in Taps /\ t.fam \in {Cyclone, Artix}
  BY DEF TapStates
<1>1. c = Enter(s, to)
  BY DEF Clock, Shift
<1>2. to = "ShIR" => t.tap \in {"CapIR", "ShIR", "Ex2IR"}
  <2>1. m = 0 \/ m = 1
    BY DEF B01
  <2> QED
    BY <1>0, <2>1 DEF TapNext, Taps
<1>3. t.tap = "ShIR" => to \in {"ShIR", "Ex1IR"}
  <2>1. m = 0 \/ m = 1
    BY DEF B01
  <2> QED
    BY <2>1 DEF TapNext
<1>4. /\ s \in TapStates /\ s.fam = t.fam /\ s.instr = t.instr /\ s.ticks = t.ticks /\ s.core = t.core
      /\ s.cfg = IF t.tap = "ShDR" /\ t.instr = Configuring(t.fam) THEN Append(t.cfg, d) ELSE t.cfg
      /\ t.tap # "ShDR" /\ t.tap # "ShIR" => s.reg = t.reg
      /\ t.tap = "ShIR" => s.reg = Append(Tail(t.reg), d)
  <2>1. Append(Tail(t.reg), d) \in Full /\ Append(t.cfg, d) \in Seq(B01)
    BY <1>0, ShiftedIn
  <2>2. CASE t.tap = "ShDR" /\ t.instr = Configuring(t.fam)
    BY <2>1, <2>2 DEF Shift, TapStates, Configuring
  <2>3. CASE ~(t.tap = "ShDR" /\ t.instr = Configuring(t.fam)) /\ t.tap \in {"ShDR", "ShIR"}
    BY <2>1, <2>3 DEF Shift, TapStates, Configuring
  <2>4. CASE t.tap \notin {"ShDR", "ShIR"}
    BY <2>4 DEF Shift, TapStates, Configuring
  <2> QED
    BY <2>2, <2>3, <2>4
<1> HIDE DEF s, c, to
<1> DEFINE ticks == to = "RTI" /\ s.instr = Starting(s.fam) /\ s.ticks < StartTicks
<1>5. /\ c.fam = s.fam /\ c.tap = to
      /\ to = "TLR" => c.instr = IdcodeIr
      /\ to \notin {"TLR", "UpdIR"} => c.instr = s.instr
      /\ to # "UpdIR" => c.cfg = s.cfg
      /\ (to # "UpdIR" /\ ~ticks) => c.core = s.core /\ c.ticks = s.ticks
      /\ ticks => /\ c.ticks = s.ticks + 1
                  /\ c.core = IF s.ticks + 1 = StartTicks /\ s.core = Blank
                              THEN Started(s.fam, s.cfg) ELSE s.core
      /\ to = "CapIR" => Len(c.reg) = s.fam.ir
      /\ to \in {"ShIR", "Ex1IR"} => c.reg = s.reg
      /\ to = "UpdIR" =>
            /\ c.instr = s.reg /\ c.ticks = 0
            /\ c.core = IF s.reg = Erasing(s.fam) THEN Blank ELSE s.core
            /\ c.cfg = IF s.reg = Erasing(s.fam) THEN <<>> ELSE s.cfg
  <2>0. s.fam.ir \in Nat /\ s.fam \in {Cyclone, Artix}
    BY <1>0, <1>4 DEF Cyclone, Artix
  <2>1. CASE to = "TLR"
    BY <1>1, <1>4, <2>1 DEF Enter, TapStates
  <2>2. CASE to = "UpdIR"
    BY <1>1, <1>4, <2>2 DEF Enter, TapStates, Erasing
  <2>3. CASE to = "CapIR"
    <3> DEFINE r == [i \in 1 .. s.fam.ir |-> IF i = 1 THEN 1 ELSE 0]
    <3>1. Len(r) = s.fam.ir
      BY <2>0
    <3>2. c = [s EXCEPT !.tap = to, !.reg = r]
      BY <1>1, <2>3 DEF Enter
    <3> HIDE DEF r
    <3> QED
      BY <1>4, <2>3, <3>1, <3>2 DEF TapStates
  <2>4. CASE to = "CapDR"
    BY <1>1, <1>4, <2>4 DEF Enter, TapStates
  <2>5. CASE ticks
    BY <1>1, <1>4, <2>5 DEF Enter, TapStates, Starting
  <2>6. CASE to # "TLR" /\ to # "UpdIR" /\ to # "CapIR" /\ to # "CapDR" /\ ~ticks
    BY <1>1, <1>4, <2>6 DEF Enter, TapStates, Starting
  <2> QED
    BY <2>1, <2>2, <2>3, <2>4, <2>5, <2>6
<1> HIDE DEF ticks
<1> QED
  BY <1>2, <1>3, <1>4, <1>5 DEF c, to, ticks

\* The strings of fpga_config.c spell moves.
LEMMA TicksSpell ==
  ASSUME NEW m \in B01, NEW n \in Nat
  PROVE  LET mv == [i \in 1 .. n |-> [tms |-> m, tdi |-> 0]]
         IN  mv \in Moves /\ Len(mv) = n /\ Ticks(m, n) = Spelled(mv)
<1> DEFINE mv == [i \in 1 .. n |-> [tms |-> m, tdi |-> 0]]
<1>1. mv \in [1 .. n -> [tms : B01, tdi : B01]]
  BY DEF B01
<1>2. mv \in Moves /\ Len(mv) = n
  BY <1>1, FunSeq DEF Moves
<1>3. ASSUME NEW i \in 1 .. 2 * n
      PROVE  Half(mv[(i + 1) \div 2].tms, mv[(i + 1) \div 2].tdi, i) = Half(m, 0, i)
  <2>1. (i + 1) \div 2 \in 1 .. n
    OBVIOUS
  <2> QED
    BY <2>1
<1> HIDE DEF mv
<1>4. Ticks(m, n) = Spelled(mv)
  BY <1>2, <1>3 DEF Ticks, Spelled
<1> QED
  BY <1>2, <1>4 DEF mv

LEMMA LastHighSpells ==
  ASSUME NEW bits \in Seq(B01)
  PROVE  LET mv == [i \in 1 .. Len(bits) |-> [tms |-> IF i = Len(bits) THEN 1 ELSE 0, tdi |-> bits[i]]]
         IN  mv \in Moves /\ Len(mv) = Len(bits) /\ LastHigh(bits) = Spelled(mv)
<1> DEFINE n == Len(bits)
           mv == [i \in 1 .. n |-> [tms |-> IF i = n THEN 1 ELSE 0, tdi |-> bits[i]]]
<1>0. n \in Nat /\ \A i \in 1 .. n : bits[i] \in B01
  BY ElementOfSeq
<1>1. mv \in [1 .. n -> [tms : B01, tdi : B01]]
  BY <1>0 DEF B01
<1>2. mv \in Moves /\ Len(mv) = n
  BY <1>0, <1>1, FunSeq DEF Moves
<1>3. ASSUME NEW i \in 1 .. 2 * n
      PROVE  Half(mv[(i + 1) \div 2].tms, mv[(i + 1) \div 2].tdi, i)
             = Half(IF (i + 1) \div 2 = n THEN 1 ELSE 0, bits[(i + 1) \div 2], i)
  <2>1. (i + 1) \div 2 \in 1 .. n
    BY <1>0
  <2> HIDE DEF n
  <2> QED
    BY <2>1
<1> HIDE DEF mv
<1>4. LastHigh(bits) = Spelled(mv)
  BY <1>2, <1>3 DEF LastHigh, Spelled
<1> QED
  BY <1>2, <1>4 DEF mv

\* Clocks with TDI low: the TAP after k of them lies in T[k].
LEMMA TicksLead ==
  ASSUME NEW m \in B01, NEW n \in Nat, NEW T,
         \A i \in 1 .. n : \A t \in T[i - 1] \cap TapStates : Clock(t, m, 0) \in TapStates => Clock(t, m, 0) \in T[i]
  PROVE  /\ Leads(Ready(T[0]), Ticks(m, n), Ready(T[n]))
         /\ n # 0 => Leads(Ready(T[0]), Ticks(m, n), Held(T[n], m))
<1> DEFINE mv == [i \in 1 .. n |-> [tms |-> m, tdi |-> 0]]
<1>1. mv \in Moves /\ Len(mv) = n /\ Ticks(m, n) = Spelled(mv)
  BY TicksSpell
<1>2. \A i \in 1 .. n : mv[i].tms = m /\ mv[i].tdi = 0
  OBVIOUS
<1> HIDE DEF mv
<1>3. \A i \in 1 .. Len(mv) : \A t \in T[i - 1] \cap TapStates :
            Clock(t, mv[i].tms, mv[i].tdi) \in TapStates => Clock(t, mv[i].tms, mv[i].tdi) \in T[i]
  BY <1>1, <1>2
<1>4. /\ Leads(Ready(T[0]), Spelled(mv), Ready(T[Len(mv)]))
      /\ Len(mv) # 0 => Leads(Ready(T[0]), Spelled(mv), Held(T[Len(mv)], mv[Len(mv)].tms))
  BY <1>1, <1>3, SpelledLeads
<1>5. n # 0 => mv[n].tms = m
  BY <1>2
<1> QED
  BY <1>1, <1>4, <1>5

\* One clock, and two.
LEMMA TickLeads ==
  ASSUME NEW m \in B01, NEW S, NEW R,
         \A t \in S \cap TapStates : Clock(t, m, 0) \in TapStates => Clock(t, m, 0) \in R
  PROVE  Leads(Ready(S), Ticks(m, 1), Held(R, m)) /\ Leads(Ready(S), Ticks(m, 1), Ready(R))
<1> DEFINE T == [i \in 0 .. 1 |-> IF i = 0 THEN S ELSE R]
<1>1. T[0] = S /\ T[1] = R
  OBVIOUS
<1> HIDE DEF T
<1>2. ASSUME NEW i \in 1 .. 1, NEW t \in T[i - 1] \cap TapStates, Clock(t, m, 0) \in TapStates
      PROVE  Clock(t, m, 0) \in T[i]
  <2>1. i = 1 /\ i - 1 = 0
    OBVIOUS
  <2> QED
    BY <1>1, <1>2, <2>1
<1>3. /\ Leads(Ready(T[0]), Ticks(m, 1), Ready(T[1]))
      /\ 1 # 0 => Leads(Ready(T[0]), Ticks(m, 1), Held(T[1], m))
  BY <1>2, TicksLead
<1> QED
  BY <1>1, <1>3

LEMMA TwoTicksLead ==
  ASSUME NEW m \in B01, NEW S, NEW R, NEW Q,
         \A t \in S \cap TapStates : Clock(t, m, 0) \in TapStates => Clock(t, m, 0) \in R,
         \A t \in R \cap TapStates : Clock(t, m, 0) \in TapStates => Clock(t, m, 0) \in Q
  PROVE  Leads(Ready(S), Ticks(m, 2), Held(Q, m)) /\ Leads(Ready(S), Ticks(m, 2), Ready(Q))
<1> DEFINE T == [i \in 0 .. 2 |-> IF i = 0 THEN S ELSE IF i = 1 THEN R ELSE Q]
<1>1. T[0] = S /\ T[1] = R /\ T[2] = Q
  OBVIOUS
<1> HIDE DEF T
<1>2. ASSUME NEW i \in 1 .. 2, NEW t \in T[i - 1] \cap TapStates, Clock(t, m, 0) \in TapStates
      PROVE  Clock(t, m, 0) \in T[i]
  <2>1. (i = 1 /\ i - 1 = 0) \/ (i = 2 /\ i - 1 = 1)
    OBVIOUS
  <2> QED
    BY <1>1, <1>2, <2>1
<1>3. /\ Leads(Ready(T[0]), Ticks(m, 2), Ready(T[2]))
      /\ 2 # 0 => Leads(Ready(T[0]), Ticks(m, 2), Held(T[2], m))
  BY <1>2, TicksLead
<1> QED
  BY <1>1, <1>3

(***************************************************************************)
(* The moves of fpga_config.c                                              *)
(***************************************************************************)
\* Where the TAP is, and what the FPGA runs and has been given.
At(fam, tap, core, cfg) == {t \in TapStates : t.fam = fam /\ t.tap = tap /\ t.core = core /\ t.cfg = cfg}
With(instr, S) == {t \in S : t.instr = instr}
Families == {Cyclone, Artix}

\* A move that neither shifts configuration data nor enters Update-IR or Run-Test/Idle.
LEMMA MoveLeads ==
  ASSUME NEW fam, NEW tap, NEW core, NEW cfg, NEW m \in B01, NEW d \in B01, NEW to,
         to = TapNext[tap][m + 1], to \notin {"UpdIR", "RTI"}, tap # "ShDR",
         NEW t \in At(fam, tap, core, cfg), Clock(t, m, d) \in TapStates
  PROVE  /\ Clock(t, m, d) \in At(fam, to, core, cfg)
         /\ to # "TLR" => Clock(t, m, d).instr = t.instr
<1> DEFINE c == Clock(t, m, d)
<1>1. t \in TapStates /\ t.tap = tap /\ t.fam = fam /\ t.core = core /\ t.cfg = cfg
  BY DEF At
<1>2. to = TapNext[t.tap][m + 1]
  BY <1>1
<1>3. c.fam = t.fam /\ c.tap = to
  BY <1>1, <1>2, ClockTo
<1>4. c.cfg = t.cfg
  BY <1>1, <1>2, ClockTo
<1>5. c.core = t.core
  BY <1>1, <1>2, ClockTo
<1>6. to # "TLR" => c.instr = t.instr
  BY <1>1, <1>2, ClockTo
<1> HIDE DEF c
<1>7. c \in At(fam, to, core, cfg)
  BY <1>1, <1>3, <1>4, <1>5 DEF At, c
<1> QED
  BY <1>6, <1>7 DEF c

\* Into Run-Test/Idle with an instruction that does not start the FPGA.
LEMMA IdleLeads ==
  ASSUME NEW fam, NEW tap, NEW core, NEW cfg, NEW m \in B01, NEW d \in B01,
         "RTI" = TapNext[tap][m + 1], tap # "ShDR",
         NEW t \in At(fam, tap, core, cfg), t.instr # Starting(fam), Clock(t, m, d) \in TapStates
  PROVE  /\ Clock(t, m, d) \in At(fam, "RTI", core, cfg)
         /\ Clock(t, m, d).instr = t.instr
<1> DEFINE c == Clock(t, m, d)
<1>1. t \in TapStates /\ t.tap = tap /\ t.fam = fam /\ t.core = core /\ t.cfg = cfg
  BY DEF At
<1>2. TapNext[t.tap][m + 1] = "RTI"
  BY <1>1
<1>3. c.fam = t.fam /\ c.tap = "RTI" /\ c.instr = t.instr
  BY <1>1, <1>2, ClockTo
<1>4. c.cfg = t.cfg
  BY <1>1, <1>2, ClockTo
<1>5. c.core = t.core
  BY <1>1, <1>2, ClockTo
<1> HIDE DEF c
<1>7. c \in At(fam, "RTI", core, cfg)
  BY <1>1, <1>3, <1>4, <1>5 DEF At, c
<1> QED
  BY <1>3, <1>7 DEF c

LEMMA MovesAt ==
  ASSUME NEW fam, NEW tap, NEW core, NEW cfg, NEW m \in B01, NEW to,
         to = TapNext[tap][m + 1], to \notin {"UpdIR", "RTI"}, tap # "ShDR"
  PROVE  /\ \A t \in At(fam, tap, core, cfg) \cap TapStates :
              Clock(t, m, 0) \in TapStates => Clock(t, m, 0) \in At(fam, to, core, cfg)
         /\ to # "TLR" =>
              \A i : \A t \in With(i, At(fam, tap, core, cfg)) \cap TapStates :
                 Clock(t, m, 0) \in TapStates => Clock(t, m, 0) \in With(i, At(fam, to, core, cfg))
<1>0. 0 \in B01
  BY DEF B01
<1>1. ASSUME NEW t \in At(fam, tap, core, cfg), Clock(t, m, 0) \in TapStates
      PROVE  Clock(t, m, 0) \in At(fam, to, core, cfg) /\ (to # "TLR" => Clock(t, m, 0).instr = t.instr)
  <2>1. Clock(t, m, 0) \in At(fam, to, core, cfg)
    BY <1>0, <1>1, MoveLeads
  <2>2. to # "TLR" => Clock(t, m, 0).instr = t.instr
    <3>1. t \in TapStates /\ to = TapNext[t.tap][m + 1]
      BY DEF At
    <3> QED
      BY <1>0, <3>1, ClockTo
  <2> QED
    BY <2>1, <2>2
<1> QED
  BY <1>1 DEF With

\* jtag_reset, from wherever the TAP was left.
LEMMA ResetLeads ==
  ASSUME NEW fam
  PROVE  Leads(Ready({t \in TapStates : t.fam = fam}), jtag_reset,
               Ready({t \in TapStates : t.fam = fam /\ t.tap = "RTI"}))
<1> DEFINE In(taps) == {t \in TapStates : t.fam = fam /\ t.tap \in taps}
           A == {"TLR", "SelDR", "SelIR", "Ex1DR", "UpdDR", "Ex2DR", "Ex1IR", "UpdIR", "Ex2IR"}
           B == {"TLR", "SelIR", "UpdDR", "SelDR", "UpdIR"}
           C == {"TLR", "SelDR", "SelIR"}
           D == {"TLR", "SelIR"}
           E == {"TLR"}
           T == <<In(A), In(B), In(C), In(D), In(E)>>
           Z == [i \in 0 .. 5 |-> IF i = 0 THEN In(Taps) ELSE T[i]]
<1>0. 0 \in B01 /\ 1 \in B01 /\ 1 + 1 = 2 /\ 0 + 1 = 1
  BY DEF B01
<1>1. ASSUME NEW S, NEW R, NEW m \in B01, \A s \in S : TapNext[s][m + 1] \in R
      PROVE  \A t \in In(S) \cap TapStates : Clock(t, m, 0) \in TapStates => Clock(t, m, 0) \in In(R)
  <2>1. ASSUME NEW t \in In(S) \cap TapStates, Clock(t, m, 0) \in TapStates PROVE Clock(t, m, 0) \in In(R)
    <3>1. Clock(t, m, 0).fam = t.fam /\ Clock(t, m, 0).tap = TapNext[t.tap][m + 1]
      BY <1>0, ClockTo
    <3> QED
      BY <1>1, <2>1, <3>1
  <2> QED
    BY <2>1
<1>2. /\ \A s \in Taps : TapNext[s][1 + 1] \in A
      /\ \A s \in A : TapNext[s][1 + 1] \in B
      /\ \A s \in B : TapNext[s][1 + 1] \in C
      /\ \A s \in C : TapNext[s][1 + 1] \in D
      /\ \A s \in D : TapNext[s][1 + 1] \in E
      /\ \A s \in E : TapNext[s][0 + 1] \in {"RTI"}
  BY DEF Taps, TapNext
<1> HIDE DEF A, B, C, D, E, In
<1>3. /\ Z[0] = In(Taps) /\ Z[1] = In(A) /\ Z[2] = In(B) /\ Z[3] = In(C) /\ Z[4] = In(D) /\ Z[5] = In(E)
  OBVIOUS
<1> HIDE DEF Z
<1>4. /\ \A t \in Z[0] \cap TapStates : Clock(t, 1, 0) \in TapStates => Clock(t, 1, 0) \in Z[1]
      /\ \A t \in Z[1] \cap TapStates : Clock(t, 1, 0) \in TapStates => Clock(t, 1, 0) \in Z[2]
      /\ \A t \in Z[2] \cap TapStates : Clock(t, 1, 0) \in TapStates => Clock(t, 1, 0) \in Z[3]
      /\ \A t \in Z[3] \cap TapStates : Clock(t, 1, 0) \in TapStates => Clock(t, 1, 0) \in Z[4]
      /\ \A t \in Z[4] \cap TapStates : Clock(t, 1, 0) \in TapStates => Clock(t, 1, 0) \in Z[5]
  BY <1>0, <1>1, <1>2, <1>3
<1>5. ASSUME NEW i \in 1 .. 5, NEW t \in Z[i - 1] \cap TapStates, Clock(t, 1, 0) \in TapStates
      PROVE  Clock(t, 1, 0) \in Z[i]
  <2>1. \/ (i = 1 /\ i - 1 = 0) \/ (i = 2 /\ i - 1 = 1) \/ (i = 3 /\ i - 1 = 2)
        \/ (i = 4 /\ i - 1 = 3) \/ (i = 5 /\ i - 1 = 4)
    OBVIOUS
  <2> QED
    BY <1>4, <1>5, <2>1
<1>6. Leads(Ready(Z[0]), Ticks(1, 5), Ready(Z[5]))
  BY <1>0, <1>5, TicksLead
<1>7. Leads(Ready(Z[5]), Ticks(0, 1), Ready(In({"RTI"})))
  <2>1. \A t \in In(E) \cap TapStates : Clock(t, 0, 0) \in TapStates => Clock(t, 0, 0) \in In({"RTI"})
    BY <1>0, <1>1, <1>2
  <2> QED
    BY <1>0, <1>3, <2>1, TickLeads
<1>8. Leads(Ready(Z[0]), jtag_reset, Ready(In({"RTI"})))
  BY <1>6, <1>7, LeadsOn DEF jtag_reset
<1>9. In(Taps) = {t \in TapStates : t.fam = fam} /\ In({"RTI"}) = {t \in TapStates : t.fam = fam /\ t.tap = "RTI"}
  BY DEF In, TapStates
<1> QED
  BY <1>3, <1>8, <1>9

\* jtag_reset from Run-Test/Idle leaves the FPGA running what it runs.
LEMMA ParkLeads ==
  ASSUME NEW fam \in Families, NEW core, NEW cfg
  PROVE  Leads(Ready(At(fam, "RTI", core, cfg)), jtag_reset, Ready(At(fam, "RTI", core, cfg)))
<1> DEFINE In(tap) == At(fam, tap, core, cfg)
           E == With(IdcodeIr, In("TLR"))
           Z == [i \in 0 .. 5 |-> <<In("RTI"), In("SelDR"), In("SelIR"), In("TLR"), In("TLR"), E>>[i + 1]]
<1>0. 0 \in B01 /\ 1 \in B01 /\ 1 + 1 = 2 /\ 0 + 1 = 1
  BY DEF B01
<1>1. /\ "SelDR" = TapNext["RTI"][1 + 1] /\ "SelIR" = TapNext["SelDR"][1 + 1]
      /\ "TLR" = TapNext["SelIR"][1 + 1] /\ "TLR" = TapNext["TLR"][1 + 1] /\ "RTI" = TapNext["TLR"][0 + 1]
  BY DEF TapNext
<1>3. Z[0] = In("RTI") /\ Z[1] = In("SelDR") /\ Z[2] = In("SelIR") /\ Z[3] = In("TLR") /\ Z[4] = In("TLR") /\ Z[5] = E
  <2> HIDE DEF In, E
  <2> QED
    OBVIOUS
<1> HIDE DEF Z
<1>4. /\ \A t \in In("RTI") \cap TapStates : Clock(t, 1, 0) \in TapStates => Clock(t, 1, 0) \in In("SelDR")
      /\ \A t \in In("SelDR") \cap TapStates : Clock(t, 1, 0) \in TapStates => Clock(t, 1, 0) \in In("SelIR")
      /\ \A t \in In("SelIR") \cap TapStates : Clock(t, 1, 0) \in TapStates => Clock(t, 1, 0) \in In("TLR")
      /\ \A t \in In("TLR") \cap TapStates : Clock(t, 1, 0) \in TapStates => Clock(t, 1, 0) \in In("TLR")
  <2>1. \A t \in In("RTI") \cap TapStates : Clock(t, 1, 0) \in TapStates => Clock(t, 1, 0) \in In("SelDR")
    BY <1>0, <1>1, MovesAt
  <2>2. \A t \in In("SelDR") \cap TapStates : Clock(t, 1, 0) \in TapStates => Clock(t, 1, 0) \in In("SelIR")
    BY <1>0, <1>1, MovesAt
  <2>3. \A t \in In("SelIR") \cap TapStates : Clock(t, 1, 0) \in TapStates => Clock(t, 1, 0) \in In("TLR")
    BY <1>0, <1>1, MovesAt
  <2>4. \A t \in In("TLR") \cap TapStates : Clock(t, 1, 0) \in TapStates => Clock(t, 1, 0) \in In("TLR")
    BY <1>0, <1>1, MovesAt
  <2> QED
    BY <2>1, <2>2, <2>3, <2>4
<1>5. \A t \in In("TLR") \cap TapStates : Clock(t, 1, 0) \in TapStates => Clock(t, 1, 0) \in E
  <2>1. ASSUME NEW t \in In("TLR") \cap TapStates, Clock(t, 1, 0) \in TapStates PROVE Clock(t, 1, 0) \in E
    <3>1. Clock(t, 1, 0) \in In("TLR")
      BY <1>4, <2>1
    <3>2. TapNext[t.tap][1 + 1] = "TLR"
      BY <1>1 DEF At
    <3>3. Clock(t, 1, 0).instr = IdcodeIr
      BY <1>0, <3>2, ClockTo
    <3> QED
      BY <3>1, <3>3 DEF With
  <2> QED
    BY <2>1
<1>6. ASSUME NEW i \in 1 .. 5, NEW t \in Z[i - 1] \cap TapStates, Clock(t, 1, 0) \in TapStates
      PROVE  Clock(t, 1, 0) \in Z[i]
  <2>1. \/ (i = 1 /\ i - 1 = 0) \/ (i = 2 /\ i - 1 = 1) \/ (i = 3 /\ i - 1 = 2)
        \/ (i = 4 /\ i - 1 = 3) \/ (i = 5 /\ i - 1 = 4)
    OBVIOUS
  <2> HIDE DEF In, E
  <2> QED
    BY <1>3, <1>4, <1>5, <1>6, <2>1
<1>7. Leads(Ready(Z[0]), Ticks(1, 5), Ready(Z[5]))
  BY <1>0, <1>6, TicksLead
<1>8. \A t \in E \cap TapStates : Clock(t, 0, 0) \in TapStates => Clock(t, 0, 0) \in In("RTI")
  <2>1. fam.startup \in Nat /\ fam.ir \in {6, 10}
    BY DEF Families, Cyclone, Artix
  <2>2. Starting(fam) # IdcodeIr
    BY <2>1, NoInstr DEF Starting
  <2>3. ASSUME NEW t \in E, Clock(t, 0, 0) \in TapStates PROVE Clock(t, 0, 0) \in In("RTI")
    <3>1. t \in At(fam, "TLR", core, cfg) /\ t.instr # Starting(fam)
      BY <2>2 DEF With
    <3> QED
      BY <1>0, <1>1, <2>3, <3>1, IdleLeads
  <2> QED
    BY <2>3
<1>9. Leads(Ready(Z[5]), Ticks(0, 1), Ready(In("RTI")))
  BY <1>0, <1>3, <1>8, TickLeads
<1> QED
  BY <1>3, <1>7, <1>9, LeadsOn DEF jtag_reset

LEMMA EnterShiftLeads ==
  ASSUME NEW fam, NEW core, NEW cfg, NEW instr
  PROVE  Leads(Ready(With(instr, At(fam, "RTI", core, cfg))), enter_shift_dr,
               Held(With(instr, At(fam, "ShDR", core, cfg)), 0))
<1> DEFINE In(tap) == With(instr, At(fam, tap, core, cfg))
<1>0. 0 \in B01 /\ 1 \in B01 /\ 1 + 1 = 2 /\ 0 + 1 = 1
  BY DEF B01
<1>1. /\ "SelDR" = TapNext["RTI"][1 + 1] /\ "CapDR" = TapNext["SelDR"][0 + 1]
      /\ "ShDR" = TapNext["CapDR"][0 + 1]
  BY DEF TapNext
<1>2. \A t \in In("RTI") \cap TapStates : Clock(t, 1, 0) \in TapStates => Clock(t, 1, 0) \in In("SelDR")
  BY <1>0, <1>1, MovesAt
<1>3. \A t \in In("SelDR") \cap TapStates : Clock(t, 0, 0) \in TapStates => Clock(t, 0, 0) \in In("CapDR")
  BY <1>0, <1>1, MovesAt
<1>4. \A t \in In("CapDR") \cap TapStates : Clock(t, 0, 0) \in TapStates => Clock(t, 0, 0) \in In("ShDR")
  BY <1>0, <1>1, MovesAt
<1> HIDE DEF In
<1>5. Leads(Ready(In("RTI")), Ticks(1, 1), Ready(In("SelDR")))
  BY <1>0, <1>2, TickLeads
<1>6. Leads(Ready(In("SelDR")), Ticks(0, 2), Held(In("ShDR"), 0))
  BY <1>0, <1>3, <1>4, TwoTicksLead
<1>7. Leads(Ready(In("RTI")), enter_shift_dr, Held(In("ShDR"), 0))
  BY <1>5, <1>6, LeadsOn DEF enter_shift_dr
<1> QED
  BY <1>7 DEF In

LEMMA ExitShiftLeads ==
  ASSUME NEW fam, NEW core, NEW cfg, NEW instr, instr # Starting(fam)
  PROVE  Leads(Ready(With(instr, At(fam, "Ex1DR", core, cfg))), exit_shift_dr,
               Ready(At(fam, "RTI", core, cfg)))
<1> DEFINE In(tap) == With(instr, At(fam, tap, core, cfg))
<1>0. 0 \in B01 /\ 1 \in B01 /\ 1 + 1 = 2 /\ 0 + 1 = 1
  BY DEF B01
<1>1. "UpdDR" = TapNext["Ex1DR"][1 + 1] /\ "RTI" = TapNext["UpdDR"][0 + 1]
  BY DEF TapNext
<1>2. \A t \in In("Ex1DR") \cap TapStates : Clock(t, 1, 0) \in TapStates => Clock(t, 1, 0) \in In("UpdDR")
  BY <1>0, <1>1, MovesAt
<1>3. ASSUME NEW t \in In("UpdDR"), Clock(t, 0, 0) \in TapStates PROVE Clock(t, 0, 0) \in At(fam, "RTI", core, cfg)
  <2>1. t \in At(fam, "UpdDR", core, cfg) /\ t.instr # Starting(fam)
    BY DEF With
  <2> QED
    BY <1>0, <1>1, <1>3, <2>1, IdleLeads
<1> HIDE DEF In
<1>5. Leads(Ready(In("Ex1DR")), Ticks(1, 1), Ready(In("UpdDR")))
  BY <1>0, <1>2, TickLeads
<1>6. Leads(Ready(In("UpdDR")), Ticks(0, 1), Ready(At(fam, "RTI", core, cfg)))
  BY <1>0, <1>3, TickLeads
<1>7. Leads(Ready(In("Ex1DR")), exit_shift_dr, Ready(At(fam, "RTI", core, cfg)))
  BY <1>5, <1>6, LeadsOn DEF exit_shift_dr
<1> QED
  BY <1>7 DEF In

\* Clocks in Run-Test/Idle with an instruction that does not start the FPGA.
LEMMA RtiLeads ==
  ASSUME NEW fam, NEW core, NEW cfg, NEW instr, instr # Starting(fam), NEW n \in Nat
  PROVE  Leads(Ready(With(instr, At(fam, "RTI", core, cfg))), tck_rti(n),
               Ready(With(instr, At(fam, "RTI", core, cfg))))
<1> DEFINE S == With(instr, At(fam, "RTI", core, cfg))
           T == [i \in 0 .. n |-> S]
<1>0. 0 \in B01
  BY DEF B01
<1>1. "RTI" = TapNext["RTI"][0 + 1]
  BY DEF TapNext
<1>2. ASSUME NEW t \in S, Clock(t, 0, 0) \in TapStates PROVE Clock(t, 0, 0) \in S
  <2>1. t \in At(fam, "RTI", core, cfg) /\ t.instr = instr
    BY DEF With
  <2>2. Clock(t, 0, 0) \in At(fam, "RTI", core, cfg)
    BY <1>0, <1>1, <1>2, <2>1, IdleLeads
  <2>3. Clock(t, 0, 0).instr = t.instr
    <3>1. t \in TapStates /\ TapNext[t.tap][0 + 1] = "RTI"
      BY <1>1, <2>1 DEF At
    <3> QED
      BY <1>0, <3>1, ClockTo
  <2> QED
    BY <2>1, <2>2, <2>3 DEF With
<1> HIDE DEF S
<1>3. T[0] = S /\ T[n] = S /\ \A i \in 1 .. n : T[i] = S /\ T[i - 1] = S
  OBVIOUS
<1> HIDE DEF T
<1>4. Leads(Ready(T[0]), Ticks(0, n), Ready(T[n]))
  <2>1. \A i \in 1 .. n : \A t \in T[i - 1] \cap TapStates : Clock(t, 0, 0) \in TapStates => Clock(t, 0, 0) \in T[i]
    BY <1>2, <1>3
  <2> QED
    BY <1>0, <2>1, TicksLead
<1> QED
  BY <1>3, <1>4 DEF S, tck_rti

\* The start-up: the FPGA, blank until then, starts with what it was given.
Waking(fam, cfg, k) ==
  {t \in With(Starting(fam), At(fam, "RTI", IF k = StartTicks THEN Started(fam, cfg) ELSE Blank, cfg)) : t.ticks = k}
LEMMA StartLeads ==
  ASSUME NEW fam, NEW cfg
  PROVE  Leads(Ready(Waking(fam, cfg, 1)), tck_rti(StartTicks), Ready(At(fam, "RTI", Started(fam, cfg), cfg)))
<1> DEFINE n == StartTicks
           k(i) == IF 1 + i < n THEN 1 + i ELSE n
           T == [i \in 0 .. n |-> Waking(fam, cfg, k(i))]
<1>0. 0 \in B01 /\ n \in Nat \ {0}
  BY BlasterAssumption DEF B01
<1>1. "RTI" = TapNext["RTI"][0 + 1]
  BY DEF TapNext
<1>2. ASSUME NEW t \in TapStates, NEW p \in 1 .. n, t \in Waking(fam, cfg, p), Clock(t, 0, 0) \in TapStates
      PROVE  Clock(t, 0, 0) \in Waking(fam, cfg, IF p < n THEN p + 1 ELSE n)
  <2> DEFINE c == Clock(t, 0, 0)
             core == IF p = n THEN Started(fam, cfg) ELSE Blank
  <2>1. t.fam = fam /\ t.tap = "RTI" /\ t.core = core /\ t.cfg = cfg /\ t.instr = Starting(fam) /\ t.ticks = p
    BY <1>2 DEF Waking, With, At
  <2>2. TapNext[t.tap][0 + 1] = "RTI" /\ t.tap # "ShDR"
    BY <1>1, <2>1
  <2>3. c.fam = fam /\ c.tap = "RTI" /\ c.instr = Starting(fam)
    BY <1>0, <2>1, <2>2, ClockTo
  <2>4. c.cfg = cfg
    BY <1>0, <2>1, <2>2, ClockTo
  <2>5. CASE p < n
    <3>1. c.ticks = p + 1 /\ c.core = IF p + 1 = n /\ core = Blank THEN Started(fam, cfg) ELSE core
      BY <1>0, <2>1, <2>2, <2>5, ClockTo
    <3>2. core = Blank
      BY <2>5
    <3>3. c.core = IF p + 1 = n THEN Started(fam, cfg) ELSE Blank
      BY <3>1, <3>2
    <3> HIDE DEF c
    <3> QED
      BY <1>2, <2>3, <2>4, <2>5, <3>1, <3>3 DEF Waking, With, At, c
  <2>6. CASE ~(p < n)
    <3>1. p = n
      BY <1>0, <2>6
    <3>2. c.ticks = p /\ c.core = core
      BY <1>0, <2>1, <2>2, <2>6, ClockTo
    <3> HIDE DEF c
    <3> QED
      BY <1>2, <2>3, <2>4, <2>6, <3>1, <3>2 DEF Waking, With, At, c
  <2> QED
    BY <2>5, <2>6
<1>3. ASSUME NEW i \in 1 .. n, NEW t \in T[i - 1] \cap TapStates, Clock(t, 0, 0) \in TapStates
      PROVE  Clock(t, 0, 0) \in T[i]
  <2>1. /\ i \in 0 .. n /\ i - 1 \in 0 .. n /\ k(i - 1) \in 1 .. n
        /\ k(i) = IF k(i - 1) < n THEN k(i - 1) + 1 ELSE n
    BY <1>0
  <2> HIDE DEF k, n
  <2> QED
    BY <1>2, <1>3, <2>1
<1>4. 0 \in 0 .. n /\ n \in 0 .. n /\ k(0) = 1 /\ k(n) = n
  BY <1>0
<1>5. T[0] = Waking(fam, cfg, 1) /\ T[n] = Waking(fam, cfg, n)
  <2> HIDE DEF k, n
  <2> QED
    BY <1>4
<1> HIDE DEF T
<1>6. Leads(Ready(T[0]), Ticks(0, n), Ready(T[n]))
  BY <1>0, <1>3, TicksLead
<1>7. \A t \in Waking(fam, cfg, n) : t \in At(fam, "RTI", Started(fam, cfg), cfg)
  BY DEF Waking, With
<1>8. \A w \in Ready(T[n]) \cap Wires : w \in Ready(At(fam, "RTI", Started(fam, cfg), cfg))
  BY <1>5, <1>7 DEF Ready
<1>9. Leads(Ready(T[0]), Ticks(0, n), Ready(At(fam, "RTI", Started(fam, cfg), cfg)))
  BY <1>6, <1>8, LeadsWithin
<1> QED
  BY <1>5, <1>9 DEF tck_rti

\* The bits of a code, through the instruction register: after k of them it ends in them.
Inside(fam, core, cfg, bits, k) ==
  {t \in At(fam, IF k < Len(bits) THEN "ShIR" ELSE "Ex1IR", core, cfg) :
     Len(t.reg) = Len(bits) /\ \A i \in 1 .. k : t.reg[Len(bits) - k + i] = bits[i]}

LEMMA InsideStep ==
  ASSUME NEW fam, NEW core, NEW cfg, NEW bits \in Seq(B01), NEW k \in 1 .. Len(bits),
         NEW t \in Inside(fam, core, cfg, bits, k - 1),
         Clock(t, IF k = Len(bits) THEN 1 ELSE 0, bits[k]) \in TapStates
  PROVE  Clock(t, IF k = Len(bits) THEN 1 ELSE 0, bits[k]) \in Inside(fam, core, cfg, bits, k)
<1> DEFINE n == Len(bits)
           m == IF k = n THEN 1 ELSE 0
           d == bits[k]
           c == Clock(t, m, d)
           r == t.reg
           to == IF k < n THEN "ShIR" ELSE "Ex1IR"
<1>1. n \in Nat /\ k - 1 < n /\ k \in Nat /\ m \in B01
  BY DEF B01
<1>2. d \in B01
  BY ElementOfSeq
<1>3. /\ t \in At(fam, "ShIR", core, cfg) /\ Len(r) = n /\ \A i \in 1 .. (k - 1) : r[n - (k - 1) + i] = bits[i]
  BY <1>1 DEF Inside
<1>4. t \in TapStates /\ t.tap = "ShIR" /\ r \in Seq(B01) /\ r # <<>>
  BY <1>3 DEF At, TapStates, Full
<1>5. to = TapNext["ShIR"][m + 1]
  <2>1. CASE k < n
    BY <1>1, <2>1 DEF TapNext
  <2>2. CASE ~(k < n)
    <3>1. k = n
      BY <1>1, <2>2
    <3> QED
      BY <2>2, <3>1 DEF TapNext
  <2> QED
    BY <2>1, <2>2
<1> HIDE DEF m
<1>6. c \in At(fam, to, core, cfg)
  <2>1. to \notin {"UpdIR", "RTI"}
    OBVIOUS
  <2>2. c \in TapStates
    BY DEF m
  <2> HIDE DEF n, d, to
  <2> QED
    BY <1>1, <1>2, <1>3, <1>5, <2>1, <2>2, MoveLeads
<1>7. c.reg = Append(Tail(r), d)
  BY <1>1, <1>2, <1>4, ClockTo
<1> HIDE DEF c, r, d, n
<1>8. Tail(r) \in Seq(B01) /\ Len(Tail(r)) = n - 1 /\ \A i \in 1 .. (n - 1) : Tail(r)[i] = r[i + 1]
  BY <1>3, <1>4, HeadTailProperties
<1>9. /\ Len(Append(Tail(r), d)) = n /\ Append(Tail(r), d)[n] = d
      /\ \A i \in 1 .. (n - 1) : Append(Tail(r), d)[i] = Tail(r)[i]
  BY <1>1, <1>2, <1>8, AppendProperties
<1>10. ASSUME NEW i \in 1 .. k PROVE c.reg[n - k + i] = bits[i]
  <2>1. CASE i = k
    <3>1. n - k + i = n
      BY <1>1, <2>1
    <3> QED
      BY <1>7, <1>9, <2>1, <3>1 DEF d
  <2>2. CASE i # k
    <3> DEFINE p == n - k + i
    <3>1. i \in 1 .. (k - 1) /\ p \in 1 .. (n - 1) /\ p + 1 = n - (k - 1) + i
      BY <1>1, <2>2 DEF n
    <3> HIDE DEF p
    <3>2. c.reg[p] = r[p + 1]
      BY <1>7, <1>8, <1>9, <3>1
    <3>3. r[p + 1] = bits[i]
      BY <1>3, <3>1
    <3> QED
      BY <3>2, <3>3 DEF p
  <2> QED
    BY <2>1, <2>2
<1>11. Len(c.reg) = n
  BY <1>7, <1>9
<1> QED
  BY <1>6, <1>10, <1>11 DEF Inside, n, c, d, m

\* scan_ir as far as Update-IR.
Fresh(fam, bits, core, cfg) == {t \in With(bits, At(fam, "UpdIR", core, cfg)) : t.ticks = 0}

LEMMA UpdateLeads ==
  ASSUME NEW fam \in Families, NEW core, NEW cfg, NEW code \in Nat
  PROVE  LET bits == Bits(code, fam.ir)
         IN  Leads(Ready(At(fam, "RTI", core, cfg)),
                   Ticks(1, 2) \o Ticks(0, 2) \o LastHigh(bits) \o Ticks(1, 1),
                   Ready(Fresh(fam, bits, IF bits = Erasing(fam) THEN Blank ELSE core,
                               IF bits = Erasing(fam) THEN <<>> ELSE cfg)))
<1> DEFINE bits == Bits(code, fam.ir)
           n == Len(bits)
           In(tap) == At(fam, tap, core, cfg)
           Long(tap) == {t \in In(tap) : Len(t.reg) = n}
           T == [k \in 0 .. n |-> Inside(fam, core, cfg, bits, k)]
           R == Fresh(fam, bits, IF bits = Erasing(fam) THEN Blank ELSE core,
                      IF bits = Erasing(fam) THEN <<>> ELSE cfg)
<1>0. 0 \in B01 /\ 1 \in B01 /\ 1 + 1 = 2 /\ 0 + 1 = 1
  BY DEF B01
<1>1. bits \in Seq(B01) /\ n = fam.ir /\ n \in Nat \ {0}
  <2>1. fam.ir \in Nat \ {0}
    BY DEF Families, Cyclone, Artix
  <2> QED
    BY <2>1, BitsType
<1>2. /\ "SelDR" = TapNext["RTI"][1 + 1] /\ "SelIR" = TapNext["SelDR"][1 + 1]
      /\ "CapIR" = TapNext["SelIR"][0 + 1] /\ "ShIR" = TapNext["CapIR"][0 + 1]
      /\ "UpdIR" = TapNext["Ex1IR"][1 + 1]
  BY DEF TapNext
<1> HIDE DEF bits
<1>3. Leads(Ready(In("RTI")), Ticks(1, 2), Ready(In("SelIR")))
  <2>1. \A t \in In("RTI") \cap TapStates : Clock(t, 1, 0) \in TapStates => Clock(t, 1, 0) \in In("SelDR")
    BY <1>0, <1>2, MovesAt
  <2>2. \A t \in In("SelDR") \cap TapStates : Clock(t, 1, 0) \in TapStates => Clock(t, 1, 0) \in In("SelIR")
    BY <1>0, <1>2, MovesAt
  <2> HIDE DEF In
  <2> QED
    BY <1>0, <2>1, <2>2, TwoTicksLead
<1>4. Leads(Ready(In("SelIR")), Ticks(0, 2), Ready(Long("ShIR")))
  <2>1. ASSUME NEW t \in In("SelIR"), Clock(t, 0, 0) \in TapStates PROVE Clock(t, 0, 0) \in Long("CapIR")
    <3>1. Clock(t, 0, 0) \in In("CapIR")
      BY <1>0, <1>2, <2>1, MoveLeads
    <3>2. t \in TapStates /\ t.fam = fam /\ TapNext[t.tap][0 + 1] = "CapIR"
      BY <1>2 DEF At
    <3>3. Len(Clock(t, 0, 0).reg) = n
      BY <1>0, <1>1, <3>2, ClockTo
    <3> QED
      BY <3>1, <3>3
  <2>2. ASSUME NEW t \in Long("CapIR"), Clock(t, 0, 0) \in TapStates PROVE Clock(t, 0, 0) \in Long("ShIR")
    <3>0. t \in In("CapIR")
      OBVIOUS
    <3>1. Clock(t, 0, 0) \in In("ShIR")
      BY <1>0, <1>2, <2>2, <3>0, MoveLeads
    <3>2. t \in TapStates /\ t.tap = "CapIR" /\ TapNext[t.tap][0 + 1] = "ShIR"
      BY <1>2, <3>0 DEF At
    <3>3. Clock(t, 0, 0).reg = t.reg
      BY <1>0, <3>2, ClockTo
    <3> QED
      BY <3>1, <3>3
  <2> HIDE DEF In, Long
  <2> QED
    BY <1>0, <2>1, <2>2, TwoTicksLead
<1>5. Leads(Ready(T[0]), LastHigh(bits), Ready(T[n]))
  <2> DEFINE mv == [i \in 1 .. n |-> [tms |-> IF i = n THEN 1 ELSE 0, tdi |-> bits[i]]]
  <2>1. mv \in Moves /\ Len(mv) = n /\ LastHigh(bits) = Spelled(mv)
    BY <1>1, LastHighSpells
  <2>2. \A i \in 1 .. n : mv[i].tms = (IF i = n THEN 1 ELSE 0) /\ mv[i].tdi = bits[i]
    OBVIOUS
  <2> HIDE DEF mv
  <2>3. ASSUME NEW i \in 1 .. n, NEW t \in T[i - 1] \cap TapStates, Clock(t, mv[i].tms, mv[i].tdi) \in TapStates
        PROVE  Clock(t, mv[i].tms, mv[i].tdi) \in T[i]
    <3>1. i \in 0 .. n /\ i - 1 \in 0 .. n
      BY <1>1
    <3>2. t \in Inside(fam, core, cfg, bits, i - 1) /\ T[i] = Inside(fam, core, cfg, bits, i)
      BY <3>1
    <3>3. Clock(t, IF i = n THEN 1 ELSE 0, bits[i]) \in TapStates
      BY <2>2, <2>3
    <3>4. Clock(t, IF i = n THEN 1 ELSE 0, bits[i]) \in Inside(fam, core, cfg, bits, i)
      BY <1>1, <3>2, <3>3, InsideStep
    <3> QED
      BY <2>2, <3>2, <3>4
  <2> HIDE DEF T, n
  <2> QED
    BY <2>1, <2>3, SpelledLeads
<1>6. T[0] = Inside(fam, core, cfg, bits, 0) /\ T[n] = Inside(fam, core, cfg, bits, n)
  <2>1. 0 \in 0 .. n /\ n \in 0 .. n
    BY <1>1
  <2> HIDE DEF n
  <2> QED
    BY <2>1
<1> HIDE DEF T
<1>7. \A t \in Long("ShIR") : t \in T[0]
  BY <1>1, <1>6 DEF Inside
<1>8. Leads(Ready(Long("ShIR")), LastHigh(bits), Ready(T[n]))
  <2>1. \A w \in Ready(Long("ShIR")) \cap Wires : w \in Ready(T[0])
    BY <1>7 DEF Ready
  <2> HIDE DEF Long, In, n
  <2> QED
    BY <1>5, <2>1, LeadsWithin
<1>9. ASSUME NEW t \in T[n], t \in TapStates, Clock(t, 1, 0) \in TapStates PROVE Clock(t, 1, 0) \in R
  <2>1. t \in At(fam, "Ex1IR", core, cfg) /\ Len(t.reg) = n /\ \A i \in 1 .. n : t.reg[n - n + i] = bits[i]
    BY <1>1, <1>6 DEF Inside
  <2>2. t.reg = bits
    <3>1. t.reg \in Seq(B01)
      BY <1>9 DEF TapStates, Full
    <3>2. \A i \in 1 .. n : n - n + i = i
      BY <1>1
    <3>3. \A i \in 1 .. n : t.reg[i] = bits[i]
      BY <2>1, <3>2
    <3> QED
      BY <1>1, <2>1, <3>1, <3>3, SeqEqual
  <2>3. t.tap = "Ex1IR" /\ t.fam = fam /\ t.core = core /\ t.cfg = cfg /\ TapNext[t.tap][1 + 1] = "UpdIR"
    BY <1>2, <2>1 DEF At
  <2> DEFINE c == Clock(t, 1, 0)
  <2>4. /\ c.fam = fam /\ c.tap = "UpdIR" /\ c.instr = bits /\ c.ticks = 0
    BY <1>0, <1>9, <2>2, <2>3, ClockTo
  <2>5. /\ c.core = IF bits = Erasing(fam) THEN Blank ELSE core
        /\ c.cfg = IF bits = Erasing(fam) THEN <<>> ELSE cfg
    BY <1>0, <1>9, <2>2, <2>3, ClockTo
  <2> HIDE DEF c
  <2>6. c \in R
    BY <1>9, <2>4, <2>5 DEF Fresh, With, At, c
  <2> QED
    BY <2>6 DEF c
<1> HIDE DEF R, Long, In, n
<1>10. Leads(Ready(T[n]), Ticks(1, 1), Ready(R))
  BY <1>0, <1>9, TickLeads
<1>11. Leads(Ready(In("RTI")), Ticks(1, 2) \o Ticks(0, 2) \o LastHigh(bits) \o Ticks(1, 1), Ready(R))
  <2>1. Leads(Ready(In("RTI")), Ticks(1, 2) \o Ticks(0, 2), Ready(Long("ShIR")))
    BY <1>3, <1>4, LeadsOn
  <2>2. Leads(Ready(In("RTI")), (Ticks(1, 2) \o Ticks(0, 2)) \o LastHigh(bits), Ready(T[n]))
    BY <1>8, <2>1, LeadsOn
  <2> QED
    BY <1>10, <2>2, LeadsOn
<1> QED
  BY <1>11 DEF In, R, bits

\* The whole of it, with a code that does not start the FPGA, and with the one that does.
LEMMA ScanLeads ==
  ASSUME NEW fam \in Families, NEW core, NEW cfg, NEW code \in Nat
  PROVE  LET bits == Bits(code, fam.ir)
             core2 == IF bits = Erasing(fam) THEN Blank ELSE core
             cfg2 == IF bits = Erasing(fam) THEN <<>> ELSE cfg
         IN  /\ bits # Starting(fam) =>
                  Leads(Ready(At(fam, "RTI", core, cfg)), scan_ir(fam, code),
                        Ready(With(bits, At(fam, "RTI", core2, cfg2))))
             /\ (bits = Starting(fam) /\ core2 = Blank) =>
                  Leads(Ready(At(fam, "RTI", core, cfg)), scan_ir(fam, code), Ready(Waking(fam, cfg2, 1)))
<1> DEFINE bits == Bits(code, fam.ir)
           core2 == IF bits = Erasing(fam) THEN Blank ELSE core
           cfg2 == IF bits = Erasing(fam) THEN <<>> ELSE cfg
           P == Ready(At(fam, "RTI", core, cfg))
           F == Fresh(fam, bits, core2, cfg2)
           a == Ticks(1, 2) \o Ticks(0, 2) \o LastHigh(bits) \o Ticks(1, 1)
<1>0. 0 \in B01
  BY DEF B01
<1>1. Leads(P, a, Ready(F))
  BY UpdateLeads
<1>2. scan_ir(fam, code) = a \o Ticks(0, 1)
  BY DEF scan_ir
<1>3. "RTI" = TapNext["UpdIR"][0 + 1]
  BY DEF TapNext
<1> HIDE DEF bits, core2, cfg2, P, a
<1>4. ASSUME bits # Starting(fam)
      PROVE  Leads(P, scan_ir(fam, code), Ready(With(bits, At(fam, "RTI", core2, cfg2))))
  <2>1. ASSUME NEW t \in F, Clock(t, 0, 0) \in TapStates
        PROVE  Clock(t, 0, 0) \in With(bits, At(fam, "RTI", core2, cfg2))
    <3>1. t \in At(fam, "UpdIR", core2, cfg2) /\ t.instr = bits
      BY DEF Fresh, With
    <3>2. Clock(t, 0, 0) \in At(fam, "RTI", core2, cfg2)
      BY <1>0, <1>3, <1>4, <2>1, <3>1, IdleLeads
    <3>3. Clock(t, 0, 0).instr = bits
      <4>1. t \in TapStates /\ TapNext[t.tap][0 + 1] = "RTI"
        BY <1>3, <3>1 DEF At
      <4> QED
        BY <1>0, <3>1, <4>1, ClockTo
    <3> QED
      BY <3>2, <3>3 DEF With
  <2> HIDE DEF F
  <2>2. Leads(Ready(F), Ticks(0, 1), Ready(With(bits, At(fam, "RTI", core2, cfg2))))
    BY <1>0, <2>1, TickLeads
  <2> QED
    BY <1>1, <1>2, <2>2, LeadsOn
<1>5. ASSUME bits = Starting(fam), core2 = Blank
      PROVE  Leads(P, scan_ir(fam, code), Ready(Waking(fam, cfg2, 1)))
  <2>1. ASSUME NEW t \in F, Clock(t, 0, 0) \in TapStates
        PROVE  Clock(t, 0, 0) \in Waking(fam, cfg2, 1)
    <3> DEFINE c == Clock(t, 0, 0)
    <3>1. /\ t \in TapStates /\ t.fam = fam /\ t.tap = "UpdIR" /\ t.core = Blank /\ t.cfg = cfg2
          /\ t.instr = Starting(fam) /\ t.ticks = 0
      BY <1>5 DEF Fresh, With, At
    <3>2. TapNext[t.tap][0 + 1] = "RTI" /\ t.tap # "ShDR" /\ t.ticks < StartTicks
      BY <1>3, <3>1, BlasterAssumption
    <3>3. c.fam = fam /\ c.tap = "RTI" /\ c.instr = Starting(fam)
      BY <1>0, <3>1, <3>2, ClockTo
    <3>4. c.cfg = cfg2
      BY <1>0, <3>1, <3>2, ClockTo
    <3>5. c.ticks = 0 + 1 /\ c.core = IF 0 + 1 = StartTicks THEN Started(fam, cfg2) ELSE Blank
      BY <1>0, <3>1, <3>2, ClockTo
    <3> HIDE DEF c
    <3>6. c.ticks = 1 /\ c.core = IF 1 = StartTicks THEN Started(fam, cfg2) ELSE Blank
      BY <3>5
    <3>7. c \in TapStates
      BY <2>1 DEF c
    <3> QED
      BY <3>3, <3>4, <3>6, <3>7 DEF Waking, With, At, c
  <2> HIDE DEF F
  <2>2. Leads(Ready(F), Ticks(0, 1), Ready(Waking(fam, cfg2, 1)))
    BY <1>0, <2>1, TickLeads
  <2> QED
    BY <1>1, <1>2, <2>2, LeadsOn
<1> QED
  BY <1>4, <1>5 DEF bits, core2, cfg2, P

\* The instructions are told apart by their lowest three bits.
LEMMA BitsTell ==
  ASSUME NEW a \in Nat, NEW b \in Nat, NEW l \in {6, 10}, Bits(a, l) = Bits(b, l)
  PROVE  a % 2 = b % 2 /\ (a \div 2) % 2 = (b \div 2) % 2 /\ (a \div 4) % 2 = (b \div 4) % 2
<1>1. \A i \in 1 .. 3 : (a \div 2^(i - 1)) % 2 = (b \div 2^(i - 1)) % 2
  <2>1. \A i \in 1 .. 3 : i \in 1 .. l
    OBVIOUS
  <2>2. \A i \in 1 .. 3 : Bits(a, l)[i] = (a \div 2^(i - 1)) % 2 /\ Bits(b, l)[i] = (b \div 2^(i - 1)) % 2
    BY <2>1 DEF Bits
  <2> QED
    BY <2>2
<1>2. 2^(1 - 1) = 1 /\ 2^(2 - 1) = 2 /\ 2^(3 - 1) = 4 /\ a \div 1 = a /\ b \div 1 = b
  OBVIOUS
<1>3. /\ (a \div 2^(1 - 1)) % 2 = (b \div 2^(1 - 1)) % 2 /\ (a \div 2^(2 - 1)) % 2 = (b \div 2^(2 - 1)) % 2
      /\ (a \div 2^(3 - 1)) % 2 = (b \div 2^(3 - 1)) % 2
  BY <1>1
<1> QED
  BY <1>2, <1>3

LEMMA CodesDiffer ==
  /\ Configuring(Cyclone) = Erasing(Cyclone) /\ Configuring(Cyclone) # Starting(Cyclone)
  /\ Bits(Cyclone.check, Cyclone.ir) # Erasing(Cyclone) /\ Bits(Cyclone.check, Cyclone.ir) # Starting(Cyclone)
  /\ Starting(Cyclone) # Erasing(Cyclone)
  /\ Bits(Cyclone.bypass, Cyclone.ir) # Erasing(Cyclone) /\ Bits(Cyclone.bypass, Cyclone.ir) # Starting(Cyclone)
  /\ Bits(Artix.program, Artix.ir) = Erasing(Artix) /\ Bits(Artix.program, Artix.ir) # Starting(Artix)
  /\ Configuring(Artix) # Erasing(Artix) /\ Configuring(Artix) # Starting(Artix)
  /\ Starting(Artix) # Erasing(Artix)
  /\ Bits(Artix.bypass, Artix.ir) # Erasing(Artix) /\ Bits(Artix.bypass, Artix.ir) # Starting(Artix)
<1>1. /\ Erasing(Cyclone) = Bits(2, 10) /\ Configuring(Cyclone) = Bits(2, 10) /\ Starting(Cyclone) = Bits(3, 10)
      /\ Bits(Cyclone.check, Cyclone.ir) = Bits(4, 10) /\ Bits(Cyclone.bypass, Cyclone.ir) = Bits(1023, 10)
  BY DEF Cyclone, Erasing, Configuring, Starting
<1>2. /\ Erasing(Artix) = Bits(11, 6) /\ Configuring(Artix) = Bits(5, 6) /\ Starting(Artix) = Bits(12, 6)
      /\ Bits(Artix.program, Artix.ir) = Bits(11, 6) /\ Bits(Artix.bypass, Artix.ir) = Bits(63, 6)
  BY DEF Artix, Erasing, Configuring, Starting
<1>3. /\ Bits(2, 10) # Bits(3, 10) /\ Bits(4, 10) # Bits(2, 10) /\ Bits(4, 10) # Bits(3, 10)
      /\ Bits(1023, 10) # Bits(2, 10) /\ Bits(1023, 10) # Bits(3, 10)
  <2>1. /\ 2 % 2 = 0 /\ 3 % 2 = 1 /\ 4 % 2 = 0 /\ 1023 % 2 = 1
        /\ (2 \div 2) % 2 = 1 /\ (4 \div 2) % 2 = 0 /\ (1023 \div 4) % 2 = 1 /\ (3 \div 4) % 2 = 0
    OBVIOUS
  <2> QED
    BY <2>1, BitsTell
<1>4. /\ Bits(11, 6) # Bits(12, 6) /\ Bits(5, 6) # Bits(11, 6) /\ Bits(5, 6) # Bits(12, 6)
      /\ Bits(63, 6) # Bits(11, 6) /\ Bits(63, 6) # Bits(12, 6)
  <2>1. /\ 11 % 2 = 1 /\ 12 % 2 = 0 /\ 5 % 2 = 1 /\ 63 % 2 = 1
        /\ (5 \div 2) % 2 = 0 /\ (11 \div 2) % 2 = 1 /\ (63 \div 4) % 2 = 1 /\ (11 \div 4) % 2 = 0
    OBVIOUS
  <2> QED
    BY <2>1, BitsTell
<1> QED
  BY <1>1, <1>2, <1>3, <1>4

(***************************************************************************)
(* The configuration data                                                  *)
(***************************************************************************)
\* The engine with l data bytes to come, TMS low.
Shifts(S, l) ==
  {w \in Wires : /\ w.left = l /\ w.oe /\ w.dirT /\ w.dirM /\ w.tms = 0
                 /\ (l = 0 => ~w.pio) /\ (l > 0 => w.pio = w.pioOk /\ w.tck = 0) /\ TapOf(w) \in S}

LEMMA HeldShifts == ASSUME NEW S, NEW w \in Wires PROVE w \in Held(S, 0) <=> w \in Shifts(S, 0)
<1>1. w.pio \in BOOLEAN
  BY DEF Wires
<1> QED
  BY <1>1 DEF Held, Ready, Calm, Shifts

LEMMA CommandFed ==
  ASSUME NEW S, NEW w \in Shifts(S, 0), NEW l \in 1 .. 63
  PROVE  Fed(w, 128 + l) \in Shifts(S, l)
<1> DEFINE b == 128 + l
           s == [j |-> w, tx |-> <<>>]
           k == [w EXCEPT !.tck = 0, !.tms = w.tms, !.tdi = w.tdi]
           e == [k EXCEPT !.rd = Flag(b, 64), !.left = b % 64, !.pio = k.pioOk]
<1>0. w \in Wires
  BY DEF Shifts
<1>1. Flag(b, 128) /\ b % 64 = IF l = 64 THEN 0 ELSE l
  BY DEF Flag
<1>2. s.j = w /\ ~(s.j.left > 0)
  BY DEF Shifts
<1> HIDE DEF s, b
<1>3. ProcessByte(s, b).j = shift_enter(s.j, b)
  BY <1>1, <1>2 DEF ProcessByte
<1>4. Fed(w, b) = shift_enter(w, b)
  BY <1>2, <1>3 DEF Fed, s
<1>5. k \in Wires /\ k.tck = 0 /\ k.pioOk = w.pioOk /\ k.oe = w.oe /\ k.dirT = w.dirT /\ k.dirM = w.dirM
      /\ k.tms = w.tms /\ TapOf(k) = TapOf(w)
  <2>1. 0 \in B01
    BY DEF B01
  <2> QED
    BY <1>0, <2>1 DEF Wires, TapOf
<1>6. Levels(w, 0, w.tms, w.tdi) = Settle(w, k)
  BY DEF Levels
<1> HIDE DEF k
<1>7. Settle(w, k) = k
  <2>1. TckLine(k) = 0
    BY <1>5 DEF TckLine
  <2> QED
    BY <2>1 DEF Settle
<1>8. Fed(w, b) = [k EXCEPT !.rd = Flag(b, 64), !.left = b % 64, !.pio = w.pioOk]
  BY <1>4, <1>6, <1>7 DEF shift_enter
<1>9. Flag(b, 64) \in BOOLEAN /\ b % 64 = l /\ l \in 0 .. 63 /\ w.pioOk \in BOOLEAN
  BY <1>0, <1>1 DEF Flag, Wires
<1>10. e \in Wires /\ e.left = l /\ e.oe = w.oe /\ e.dirT = w.dirT /\ e.dirM = w.dirM /\ e.tms = w.tms
       /\ e.pio = w.pioOk /\ e.pioOk = w.pioOk /\ e.tck = 0 /\ TapOf(e) = TapOf(w)
  <2> DEFINE r == Flag(b, 64)
             n == b % 64
             o == k.pioOk
  <2>1. r \in BOOLEAN /\ n \in 0 .. 63 /\ o \in BOOLEAN /\ e = [k EXCEPT !.rd = r, !.left = n, !.pio = o]
    BY <1>5, <1>9
  <2>2. e \in Wires
    <3> DEFINE k1 == [k EXCEPT !.rd = r]
               k2 == [k1 EXCEPT !.left = n]
    <3>0. e = [k2 EXCEPT !.pio = o]
      BY <2>1
    <3> HIDE DEF e, r, n, o
    <3>1. k1 \in Wires
      BY <1>5, <2>1 DEF Wires
    <3> HIDE DEF k1
    <3>2. k2 \in Wires
      BY <2>1, <3>1 DEF Wires
    <3> HIDE DEF k2
    <3> QED
      BY <2>1, <3>0, <3>2 DEF Wires
  <2>3. TapOf(e) = TapOf(k)
    <3> HIDE DEF e, r, n, o
    <3> QED
      BY <1>5, <2>1 DEF Wires, TapOf
  <2>4. /\ e.left = b % 64 /\ e.oe = k.oe /\ e.dirT = k.dirT /\ e.dirM = k.dirM /\ e.tms = k.tms
        /\ e.pio = k.pioOk /\ e.pioOk = k.pioOk /\ e.tck = k.tck
    BY <1>5 DEF Wires
  <2> HIDE DEF e
  <2> QED
    BY <1>5, <1>9, <2>2, <2>3, <2>4
<1>11. Fed(w, b) = e
  BY <1>5, <1>8
<1> HIDE DEF e
<1>12. e \in Shifts(S, l)
  <2>1. w.oe /\ w.dirT /\ w.dirM /\ w.tms = 0 /\ TapOf(w) \in S /\ l > 0 /\ l # 0
    BY DEF Shifts
  <2> QED
    BY <1>10, <2>1 DEF Shifts
<1> QED
  BY <1>11, <1>12 DEF b

\* A bit of a data byte clocks the TAP with TMS low.
Shifting(w) ==
  w.left > 0 /\ w.oe /\ w.dirT /\ w.dirM /\ w.tms = 0 /\ w.pio = w.pioOk /\ w.tck = 0

LEMMA BitShifts ==
  ASSUME NEW w \in Wires, Shifting(w), NEW bit \in B01
  PROVE  LET v == ShiftBit(w, bit)
         IN  /\ v \in Wires /\ Shifting(v) /\ v.left = w.left
             /\ TapOf(v) = Clock(TapOf(w), 0, bit)
<1>0. 0 \in B01 /\ 1 \in B01
  BY DEF B01
<1>1. CASE w.pioOk
  <2>1. TmsLine(w) = 0
    BY DEF TmsLine, Shifting
  <2>2. ShiftBit(w, bit) = Clock(w, 0, bit)
    BY <1>1, <2>1 DEF ShiftBit, Shifting
  <2> DEFINE v == Clock(w, 0, bit)
  <2>3. v \in Wires /\ Beside(w, v) /\ TapOf(v) = Clock(TapOf(w), 0, bit)
    BY <1>0, ClockType, ClockBeside, ClockTap
  <2> HIDE DEF v
  <2>4. Shifting(v) /\ v.left = w.left
    BY <2>3 DEF Shifting, Beside
  <2> QED
    BY <2>2, <2>3, <2>4 DEF v
<1>2. CASE ~w.pioOk
  <2> DEFINE a == [w EXCEPT !.tdi = bit]
             up == [a EXCEPT !.tck = 1, !.tms = w.tms, !.tdi = bit]
             c == Clock(up, 0, bit)
             v == [c EXCEPT !.tck = 0, !.tms = w.tms, !.tdi = bit]
  <2>0. w.tms = 0 /\ w.pio = FALSE /\ w.dirT = TRUE /\ w.dirM = TRUE /\ w.oe = TRUE /\ w.tck = 0 /\ w.pioOk = FALSE
        /\ w.left \in 1 .. 63
    BY <1>2 DEF Shifting, Wires
  <2>1. ShiftBit(w, bit) = Levels(Levels(a, 1, w.tms, bit), 0, w.tms, bit)
    BY <1>2 DEF ShiftBit
  <2>2. a \in Wires /\ TckLine(a) = 0
    BY <2>0 DEF Wires, TckLine
  <2>3. /\ up \in Wires /\ up.tck = 1 /\ up.tms = 0 /\ up.tdi = bit /\ up.pio = FALSE /\ up.dirT = TRUE /\ up.dirM = TRUE
        /\ up.oe = TRUE /\ up.left = w.left /\ up.pioOk = FALSE /\ TapOf(up) = TapOf(w)
    <3>1. up \in Wires
      BY <1>0, <2>0 DEF Wires
    <3>2. TapOf(up) = TapOf(w)
      BY DEF Wires, TapOf
    <3>3. /\ up.tck = 1 /\ up.tms = 0 /\ up.tdi = bit /\ up.pio = FALSE /\ up.dirT = TRUE /\ up.dirM = TRUE
          /\ up.oe = TRUE /\ up.left = w.left /\ up.pioOk = FALSE
      BY <2>0 DEF Wires
    <3> QED
      BY <3>1, <3>2, <3>3
  <2>4. Levels(a, 1, w.tms, bit) = Settle(a, up)
    BY DEF Levels
  <2> HIDE DEF a, up
  <2>5. Settle(a, up) = c
    <3>1. TckLine(up) = 1 /\ TmsLine(up) = 0 /\ TdiLine(up) = bit
      BY <2>3 DEF TckLine, TmsLine, TdiLine
    <3> QED
      BY <2>2, <3>1 DEF Settle
  <2>6. c \in Wires /\ Beside(up, c) /\ TapOf(c) = Clock(TapOf(w), 0, bit)
    BY <1>0, <2>3, ClockType, ClockBeside, ClockTap
  <2> HIDE DEF c
  <2>7. /\ c.pio = FALSE /\ c.dirT = TRUE /\ c.dirM = TRUE /\ c.oe = TRUE /\ c.left = w.left /\ c.pioOk = FALSE
    BY <2>3, <2>6 DEF Beside
  <2>8. Levels(c, 0, w.tms, bit) = Settle(c, v)
    BY DEF Levels
  <2>9. /\ v \in Wires /\ v.tck = 0 /\ v.tms = 0 /\ v.pio = FALSE /\ v.dirT = TRUE /\ v.dirM = TRUE
        /\ v.oe = TRUE /\ v.left = w.left /\ v.pioOk = FALSE /\ TapOf(v) = TapOf(c)
    <3>1. v \in Wires
      BY <1>0, <2>0, <2>6 DEF Wires
    <3>2. TapOf(v) = TapOf(c)
      BY <2>6 DEF Wires, TapOf
    <3>3. /\ v.tck = 0 /\ v.tms = 0 /\ v.pio = FALSE /\ v.dirT = TRUE /\ v.dirM = TRUE
          /\ v.oe = TRUE /\ v.left = w.left /\ v.pioOk = FALSE
      BY <2>0, <2>6, <2>7 DEF Wires
    <3> QED
      BY <3>1, <3>2, <3>3
  <2> HIDE DEF v
  <2>10. Settle(c, v) = v
    <3>1. TckLine(v) = 0
      BY <2>9 DEF TckLine
    <3> QED
      BY <3>1 DEF Settle
  <2>11. ShiftBit(w, bit) = v
    BY <2>1, <2>4, <2>5, <2>8, <2>10
  <2> QED
    BY <2>0, <2>6, <2>9, <2>11 DEF Shifting
<1> QED
  BY <1>1, <1>2

\* The TAP that has been given the first k bits of c.
Given(fam, tap, c, k) ==
  {t \in TapStates : /\ t.fam = fam /\ t.tap = tap /\ t.instr = Configuring(fam) /\ t.core = Blank
                     /\ Len(t.cfg) = k /\ \A i \in 1 .. k : t.cfg[i] = c[i]}

LEMMA ClockKeeps ==
  ASSUME NEW t \in TapStates, NEW m \in B01, NEW d \in B01, TapNext[t.tap][m + 1] # "UpdIR"
  PROVE  /\ TapNext[t.tap][m + 1] # "RTI" => Clock(t, m, d).core = t.core
         /\ Clock(t, m, d).cfg = IF t.tap = "ShDR" /\ t.instr = Configuring(t.fam) THEN Append(t.cfg, d) ELSE t.cfg
<1>1. TapNext[t.tap][m + 1] # "RTI" => Clock(t, m, d).core = t.core
  BY ClockTo
<1>2. Clock(t, m, d).cfg = IF t.tap = "ShDR" /\ t.instr = Configuring(t.fam) THEN Append(t.cfg, d) ELSE t.cfg
  BY ClockTo
<1> QED
  BY <1>1, <1>2

LEMMA GivenBit ==
  ASSUME NEW fam \in Families, NEW c, NEW k \in Nat, NEW m \in B01, NEW d \in B01, d = c[k + 1],
         NEW t \in Given(fam, "ShDR", c, k), Clock(t, m, d) \in TapStates
  PROVE  Clock(t, m, d) \in Given(fam, IF m = 0 THEN "ShDR" ELSE "Ex1DR", c, k + 1)
<1> DEFINE v == Clock(t, m, d)
           to == IF m = 0 THEN "ShDR" ELSE "Ex1DR"
<1>1. /\ t \in TapStates /\ t.fam = fam /\ t.tap = "ShDR" /\ t.instr = Configuring(fam) /\ t.core = Blank
      /\ t.cfg \in Seq(B01) /\ Len(t.cfg) = k /\ \A i \in 1 .. k : t.cfg[i] = c[i]
  BY DEF Given, TapStates
<1>2. TapNext[t.tap][m + 1] = to
  <2>1. m = 0 \/ m = 1
    BY DEF B01
  <2> QED
    BY <1>1, <2>1 DEF TapNext
<1>3. to # "TLR" /\ to # "UpdIR" /\ to # "RTI"
  OBVIOUS
<1> HIDE DEF to
<1>0. /\ v.fam = t.fam /\ v.tap = to /\ v.instr = t.instr /\ v.core = t.core
      /\ v.cfg = IF t.tap = "ShDR" /\ t.instr = Configuring(t.fam) THEN Append(t.cfg, d) ELSE t.cfg
  <2>1. TapNext[t.tap][m + 1] \notin {"TLR", "UpdIR"} /\ TapNext[t.tap][m + 1] # "RTI"
    BY <1>2, <1>3
  <2>2. v.fam = t.fam /\ v.tap = to
    BY <1>1, <1>2, ClockTo
  <2>3. v.instr = t.instr
    BY <1>1, <2>1, ClockTo
  <2>4. v.core = t.core
    <3>1. t \in TapStates /\ TapNext[t.tap][m + 1] # "UpdIR" /\ TapNext[t.tap][m + 1] # "RTI"
      BY <1>1, <2>1
    <3> QED
      BY <3>1, ClockKeeps
  <2>5. v.cfg = IF t.tap = "ShDR" /\ t.instr = Configuring(t.fam) THEN Append(t.cfg, d) ELSE t.cfg
    <3>1. t \in TapStates /\ TapNext[t.tap][m + 1] # "UpdIR"
      BY <1>1, <2>1
    <3> QED
      BY <3>1, ClockKeeps
  <2> QED
    BY <2>2, <2>3, <2>4, <2>5
<1> HIDE DEF v
<1>4. v.fam = fam /\ v.tap = to /\ v.instr = Configuring(fam)
  BY <1>0, <1>1
<1>5. v.core = Blank
  BY <1>0, <1>1
<1>6. v.cfg = Append(t.cfg, d)
  BY <1>0, <1>1
<1> HIDE DEF v
<1>7. Len(v.cfg) = k + 1 /\ \A i \in 1 .. (k + 1) : v.cfg[i] = c[i]
  <2> DEFINE q == t.cfg
  <2>1. q \in Seq(B01) /\ Len(q) = k /\ \A i \in 1 .. k : q[i] = c[i]
    BY <1>1
  <2> HIDE DEF q
  <2>2. /\ Len(Append(q, d)) = k + 1 /\ Append(q, d)[k + 1] = d
        /\ \A i \in 1 .. k : Append(q, d)[i] = q[i]
    BY <2>1, AppendProperties
  <2>3. \A i \in 1 .. (k + 1) : i = k + 1 \/ i \in 1 .. k
    OBVIOUS
  <2>4. \A i \in 1 .. (k + 1) : Append(q, d)[i] = c[i]
    BY <2>1, <2>2, <2>3
  <2> QED
    BY <1>6, <2>2, <2>4 DEF q
<1> QED
  BY <1>4, <1>5, <1>7 DEF Given, v, to

\* A data byte gives eight more.
LEMMA ByteFed ==
  ASSUME NEW fam \in Families, NEW c, NEW k \in Nat, NEW l \in 1 .. 63, NEW b \in Byte,
         \A i \in 1 .. 8 : c[k + i] = ByteBits[b][i],
         NEW w \in Shifts(Given(fam, "ShDR", c, k), l)
  PROVE  Fed(w, b) \in Shifts(Given(fam, "ShDR", c, k + 8), l - 1)
<1> DEFINE s == [j |-> w, tx |-> <<>>]
<1>0. w \in Wires /\ Shifting(w) /\ w.left = l /\ TapOf(w) \in Given(fam, "ShDR", c, k)
  <2>1. l > 0
    OBVIOUS
  <2> QED
    BY <2>1 DEF Shifts, Shifting
<1>1. PICK after :
           /\ shift_byte(w, b) = after[8]
           /\ after[0] = [j |-> w, in |-> <<>>]
           /\ \A i \in 1 .. 8 : after[i] = Shifted(after[i - 1], ByteBits[b][i])
  BY <1>0, ShiftByteLoop
<1> DEFINE f == [i \in 0 .. 8 |-> after[i].j]
           S(i) == {v \in Wires : Shifting(v) /\ v.left = l /\ TapOf(v) \in Given(fam, "ShDR", c, k + i)}
           T == [i \in 0 .. 8 |-> S(i)]
<1>2. f[0] \in T[0]
  <2>1. f[0] = w
    BY <1>1
  <2>2. w \in S(0)
    BY <1>0
  <2> QED
    BY <2>1, <2>2
<1>3. ASSUME NEW i \in 1 .. 8, f[i - 1] \in T[i - 1] PROVE f[i] \in T[i]
  <2> DEFINE bit == ByteBits[b][i]
             v == f[i - 1]
             x == ShiftBit(v, bit)
  <2>1. i - 1 \in 0 .. 8 /\ i \in 0 .. 8 /\ k + (i - 1) \in Nat /\ (k + (i - 1)) + 1 = k + i
    OBVIOUS
  <2>2. f[i] = x
    <3>1. after[i] = Shifted(after[i - 1], bit)
      BY <1>1
    <3>2. after[i].j = ShiftBit(after[i - 1].j, bit)
      BY <3>1 DEF Shifted
    <3> QED
      BY <2>1, <3>2
  <2>3. v \in S(i - 1) /\ T[i] = S(i)
    BY <1>3, <2>1
  <2>4. bit \in B01
    BY ByteBitsType, ElementOfSeq
  <2>5. bit = c[(k + (i - 1)) + 1]
    BY <2>1
  <2> HIDE DEF f, v, bit, T
  <2>6. v \in Wires /\ Shifting(v) /\ v.left = l /\ TapOf(v) \in Given(fam, "ShDR", c, k + (i - 1))
    BY <2>3
  <2>7. x \in Wires /\ Shifting(x) /\ x.left = l /\ TapOf(x) = Clock(TapOf(v), 0, bit)
    BY <2>4, <2>6, BitShifts
  <2> HIDE DEF x
  <2>8. TapOf(x) \in Given(fam, "ShDR", c, k + i)
    <3>1. Clock(TapOf(v), 0, bit) \in TapStates /\ 0 \in B01
      BY <2>7, TapOfType DEF B01
    <3>2. Clock(TapOf(v), 0, bit) \in Given(fam, IF 0 = 0 THEN "ShDR" ELSE "Ex1DR", c, (k + (i - 1)) + 1)
      BY <2>1, <2>4, <2>5, <2>6, <3>1, GivenBit
    <3> QED
      BY <2>1, <2>7, <3>2
  <2> QED
    BY <2>2, <2>3, <2>7, <2>8
<1> HIDE DEF T, f
<1>4. \A i \in 0 .. 8 : f[i] \in T[i]
  BY <1>2, <1>3, LoopKeeps
<1> DEFINE v == shift_byte(w, b).j
<1>5. v \in Wires /\ Shifting(v) /\ v.left = l /\ TapOf(v) \in Given(fam, "ShDR", c, k + 8)
  <2>1. f[8] \in T[8] /\ f[8] = v
    BY <1>1, <1>4 DEF f
  <2> HIDE DEF v
  <2> QED
    BY <2>1 DEF T
<1>6. Fed(w, b) = EndByte(v)
  <2>1. s.j = w /\ s.j.left > 0
    BY <1>0
  <2> HIDE DEF s
  <2>2. ProcessByte(s, b).j = EndByte(v)
    BY <2>1 DEF ProcessByte, DataByte
  <2> QED
    BY <2>2 DEF Fed, s
<1> HIDE DEF v
<1>7. EndByte(v) \in Shifts(Given(fam, "ShDR", c, k + 8), l - 1)
  <2> DEFINE G == Given(fam, "ShDR", c, k + 8)
  <2>0. l - 1 \in 0 .. 63 /\ 0 \in 0 .. 63
    OBVIOUS
  <2>1. CASE l = 1 /\ v.pioOk
    <3> DEFINE a == [v EXCEPT !.left = 0]
               e == [a EXCEPT !.pio = FALSE, !.dirT = TRUE]
    <3>1. EndByte(v) = e
      BY <1>5, <2>1 DEF EndByte, shift_exit_pio
    <3>2. /\ e \in Wires /\ e.left = 0 /\ e.oe = v.oe /\ e.dirT = TRUE /\ e.dirM = v.dirM /\ e.tms = v.tms
          /\ e.pio = FALSE /\ TapOf(e) = TapOf(v)
      BY <1>5, <2>0 DEF Wires, TapOf
    <3>4. v.oe /\ v.dirM /\ v.tms = 0 /\ TapOf(v) \in G
      BY <1>5 DEF Shifting
    <3> HIDE DEF e, G
    <3>3. e \in Shifts(G, 0)
      <4>1. ~e.pio /\ e.dirT /\ e.oe /\ e.dirM /\ e.tms = 0 /\ TapOf(e) \in G
        BY <3>2, <3>4
      <4> QED
        BY <3>2, <4>1 DEF Shifts
    <3> QED
      BY <2>1, <3>1, <3>3 DEF G
  <2>2. CASE ~(l = 1 /\ v.pioOk)
    <3> DEFINE e == [v EXCEPT !.left = l - 1]
    <3>1. EndByte(v) = e
      BY <1>5, <2>2 DEF EndByte
    <3>2. /\ e \in Wires /\ e.left = l - 1 /\ e.oe = v.oe /\ e.dirT = v.dirT /\ e.dirM = v.dirM /\ e.tms = v.tms
          /\ e.pio = v.pio /\ e.pioOk = v.pioOk /\ e.tck = v.tck /\ TapOf(e) = TapOf(v) /\ v.pioOk \in BOOLEAN
      BY <1>5, <2>0 DEF Wires, TapOf
    <3>3. l - 1 = 0 => ~v.pio
      BY <1>5, <2>2 DEF Shifting
    <3> HIDE DEF e, G
    <3>4. e \in Shifts(G, l - 1)
      BY <1>5, <3>2, <3>3 DEF Shifts, Shifting, G
    <3> QED
      BY <3>1, <3>4 DEF G
  <2> QED
    BY <2>1, <2>2
<1> QED
  BY <1>6, <1>7

\* The last byte, as levels: its last bit leaves Shift-DR.
LEMMA LastByteLeads ==
  ASSUME NEW fam \in Families, NEW c, NEW k \in Nat, NEW b \in Byte,
         \A i \in 1 .. 8 : c[k + i] = ByteBits[b][i]
  PROVE  Leads(Held(Given(fam, "ShDR", c, k), 0), LastHigh(ByteBits[b]), Ready(Given(fam, "Ex1DR", c, k + 8)))
<1> DEFINE bits == ByteBits[b]
           mv == [i \in 1 .. 8 |-> [tms |-> IF i = 8 THEN 1 ELSE 0, tdi |-> bits[i]]]
           T == [i \in 0 .. 8 |-> Given(fam, IF i = 8 THEN "Ex1DR" ELSE "ShDR", c, k + i)]
<1>0. bits \in Seq(B01) /\ Len(bits) = 8
  BY ByteBitsType
<1>1. mv \in Moves /\ Len(mv) = 8 /\ LastHigh(bits) = Spelled(mv)
  BY <1>0, LastHighSpells
<1>2. \A i \in 1 .. 8 : mv[i].tms = (IF i = 8 THEN 1 ELSE 0) /\ mv[i].tdi = bits[i]
  OBVIOUS
<1> HIDE DEF mv
<1>3. ASSUME NEW i \in 1 .. 8, NEW t \in T[i - 1] \cap TapStates, Clock(t, mv[i].tms, mv[i].tdi) \in TapStates
      PROVE  Clock(t, mv[i].tms, mv[i].tdi) \in T[i]
  <2> DEFINE m == IF i = 8 THEN 1 ELSE 0
             d == bits[i]
  <2>1. i - 1 \in 0 .. 8 /\ i \in 0 .. 8 /\ k + (i - 1) \in Nat /\ (k + (i - 1)) + 1 = k + i /\ i - 1 # 8
    OBVIOUS
  <2>2. t \in Given(fam, "ShDR", c, k + (i - 1))
    BY <2>1
  <2>3. m \in B01 /\ d \in B01 /\ d = c[(k + (i - 1)) + 1]
    <3>1. d \in B01
      BY <1>0, ElementOfSeq
    <3> QED
      BY <2>1, <3>1 DEF B01
  <2>4. T[i] = Given(fam, IF m = 0 THEN "ShDR" ELSE "Ex1DR", c, (k + (i - 1)) + 1)
    BY <2>1
  <2>5. mv[i].tms = m /\ mv[i].tdi = d
    BY <1>2
  <2> HIDE DEF T, m, d
  <2>6. Clock(t, m, d) \in TapStates
    BY <1>3, <2>5
  <2>7. Clock(t, m, d) \in Given(fam, IF m = 0 THEN "ShDR" ELSE "Ex1DR", c, (k + (i - 1)) + 1)
    BY <2>1, <2>2, <2>3, <2>6, GivenBit
  <2> QED
    BY <2>4, <2>5, <2>7
<1>4. T[0] = Given(fam, "ShDR", c, k) /\ T[8] = Given(fam, "Ex1DR", c, k + 8)
  <2>1. k + 0 = k
    OBVIOUS
  <2> QED
    BY <2>1
<1> HIDE DEF T, bits
<1>5. Leads(Ready(T[0]), Spelled(mv), Ready(T[8]))
  BY <1>1, <1>3, SpelledLeads
<1>6. Leads(Held(T[0], 0), Spelled(mv), Ready(T[8]))
  BY <1>5 DEF Leads, Held
<1> QED
  BY <1>1, <1>4, <1>6 DEF bits

\* The shift commands of ShiftChunks: data bytes in the k-th, and what is done and what is to
\* come when i bytes have gone.
ChunkSize(n, m, k) == IF (k + 1) * m < n THEN m ELSE n - k * m
Sent(n, m, i) ==
  LET k == i \div (m + 1)
      r == i % (m + 1)
  IN  k * m + (IF r = 0 THEN 0 ELSE r - 1)
ToCome(n, m, i) ==
  LET k == i \div (m + 1)
      r == i % (m + 1)
  IN  IF r = 0 THEN 0 ELSE ChunkSize(n, m, k) - (r - 1)

LEMMA Quotient ==
  ASSUME NEW b \in 1 .. 64, NEW k \in Nat, NEW r \in 0 .. (b - 1)
  PROVE  (k * b + r) \div b = k /\ (k * b + r) % b = r
<1> DEFINE a == k * b + r
           d == a \div b
           e == a % b
<1>1. a \in Nat
  <2>1. \A x, y \in Nat : x * y \in Nat
    OBVIOUS
  <2> QED
    BY <2>1
<1>2. d \in Nat /\ e \in 0 .. (b - 1) /\ a = d * b + e
  <2>1. \A x \in Nat, y \in 1 .. 64 : (x \div y) \in Nat
    OBVIOUS
  <2>2. \A x \in Nat, y \in 1 .. 64 : (x % y) \in 0 .. (y - 1)
    OBVIOUS
  <2>3. \A x \in Nat, y \in 1 .. 64 : x = y * (x \div y) + (x % y)
    OBVIOUS
  <2>4. \A x, y \in Nat : x * y = y * x
    OBVIOUS
  <2> HIDE DEF a
  <2> QED
    BY <1>1, <2>1, <2>2, <2>3, <2>4
<1> HIDE DEF d, e
<1>3. k * b + r = d * b + e
  BY <1>2
<1>4. ~(d < k) /\ ~(k < d)
  <2>1. \A x, y \in Nat, z \in 1 .. 64 : x < y => x * z + z <= y * z
    <3> SUFFICES ASSUME NEW x \in Nat, NEW y \in Nat, NEW z \in 1 .. 64, x < y PROVE x * z + z <= y * z
      OBVIOUS
    <3>1. y = x + 1 + (y - x - 1) /\ y - x - 1 \in Nat
      OBVIOUS
    <3>2. \A u \in Nat : (x + 1 + u) * z = x * z + z + u * z /\ u * z \in Nat
      OBVIOUS
    <3> QED
      BY <3>1, <3>2
  <2>2. d < k => d * b + b <= k * b
    BY <1>2, <2>1
  <2>3. k < d => k * b + b <= d * b
    BY <1>2, <2>1
  <2>4. k * b \in Nat /\ d * b \in Nat
    BY <1>2
  <2> DEFINE x == k * b
             y == d * b
  <2>5. x \in Nat /\ y \in Nat /\ x + r = y + e /\ (d < k => y + b <= x) /\ (k < d => x + b <= y)
    BY <1>3, <2>2, <2>3, <2>4
  <2> HIDE DEF x, y
  <2> QED
    BY <1>2, <2>5
<1>5. d = k
  BY <1>2, <1>4
<1>6. e = r
  <2>1. k * b \in Nat
    BY <1>1
  <2> DEFINE x == k * b
  <2>2. x \in Nat /\ x + r = x + e
    BY <1>3, <1>5, <2>1
  <2> HIDE DEF x
  <2> QED
    BY <1>2, <2>2
<1> QED
  BY <1>5, <1>6 DEF d, e

\* The bytes of ShiftChunks one by one.
LEMMA ChunkStep ==
  ASSUME NEW n \in Nat, NEW m \in 1 .. 63, NEW i \in 1 .. (n + (n + m - 1) \div m)
  PROVE  LET k == (i - 1) \div (m + 1)
             r == (i - 1) % (m + 1)
         IN  /\ r = 0 => /\ ChunkSize(n, m, k) \in 1 .. 63 /\ Sent(n, m, i - 1) = Sent(n, m, i)
                         /\ ToCome(n, m, i - 1) = 0 /\ ToCome(n, m, i) = ChunkSize(n, m, k)
             /\ r # 0 => /\ ToCome(n, m, i - 1) \in 1 .. 63 /\ ToCome(n, m, i) = ToCome(n, m, i - 1) - 1
                         /\ Sent(n, m, i) = Sent(n, m, i - 1) + 1
                         /\ i - 1 - k = Sent(n, m, i - 1) + 1 /\ i - 1 - k \in 1 .. n
             /\ Sent(n, m, i - 1) \in Nat
             /\ i = n + (n + m - 1) \div m => Sent(n, m, i) = n /\ ToCome(n, m, i) = 0
<1> DEFINE c == (n + m - 1) \div m
           k == (i - 1) \div (m + 1)
           r == (i - 1) % (m + 1)
<1>1. c \in Nat /\ c * m <= n + m - 1 /\ n <= c * m
  <2>1. \A a \in Nat, b \in 1 .. 63 : (a \div b) \in Nat /\ (a \div b) * b <= a /\ a <= (a \div b) * b + b - 1
    OBVIOUS
  <2>2. c \in Nat /\ c * m <= n + m - 1 /\ n + m - 1 <= c * m + m - 1
    BY <2>1
  <2>3. c * m \in Nat
    BY <2>2
  <2> DEFINE z == c * m
  <2>4. z \in Nat /\ z <= n + m - 1 /\ n + m - 1 <= z + m - 1
    BY <2>2, <2>3
  <2> HIDE DEF z
  <2>5. z <= n + m - 1 /\ n <= z
    BY <2>4
  <2> QED
    BY <2>2, <2>5 DEF z
<1>2. k \in Nat /\ r \in 0 .. m /\ i - 1 = k * (m + 1) + r
  <2>1. \A x \in Nat, y \in 2 .. 64 : (x \div y) \in Nat
    OBVIOUS
  <2>2. \A x \in Nat, y \in 2 .. 64 : (x % y) \in 0 .. (y - 1)
    OBVIOUS
  <2>3. \A x \in Nat, y \in 2 .. 64 : x = y * (x \div y) + (x % y)
    OBVIOUS
  <2>4. \A x, y \in Nat : x * y = y * x
    OBVIOUS
  <2>5. m + 1 \in 2 .. 64 /\ i - 1 \in Nat
    BY <1>1
  <2> HIDE DEF c
  <2>6. k \in Nat /\ r \in 0 .. ((m + 1) - 1) /\ i - 1 = (m + 1) * k + r
    BY <2>1, <2>2, <2>3, <2>5
  <2> HIDE DEF k, r
  <2> QED
    BY <2>4, <2>5, <2>6
<1>3. i - 1 <= n + c - 1 /\ i - 1 \in Nat /\ (i = n + c <=> i - 1 = n + c - 1)
  BY <1>1
<1> HIDE DEF c
<1> DEFINE q == k * m
           z == c * m
           more == (k + 1) * m < n
<1>4. i - 1 = q + k + r /\ q \in Nat /\ (k + 1) * m = q + m /\ z <= n + m - 1 /\ n <= z /\ z \in Nat
  <2> HIDE DEF k, r
  <2>1. \A a \in Nat : a * (m + 1) = a * m + a /\ (a + 1) * m = a * m + m /\ a * m \in Nat
    OBVIOUS
  <2> QED
    BY <1>1, <1>2, <2>1
<1>5. z < q + m => c <= k
  <2> HIDE DEF k, r
  <2>1. \A a, b \in Nat : (a * m < b * m + m) => a <= b
    OBVIOUS
  <2> QED
    BY <1>1, <1>2, <2>1
<1>6. z < q + m + m => c <= k + 1
  <2> HIDE DEF k, r
  <2>1. \A a, b \in Nat : (a * m < b * m + m + m) => a <= b + 1
    OBVIOUS
  <2> QED
    BY <1>1, <1>2, <2>1
<1>7. c <= k => z <= q
  <2> HIDE DEF k, r
  <2>1. \A a, b \in Nat : a <= b => a * m <= b * m
    <3> SUFFICES ASSUME NEW a \in Nat, NEW b \in Nat, a <= b PROVE a * m <= b * m
      OBVIOUS
    <3>1. b = a + (b - a) /\ b - a \in Nat
      OBVIOUS
    <3>2. \A u \in Nat : (a + u) * m = a * m + u * m /\ u * m \in Nat
      OBVIOUS
    <3> QED
      BY <3>1, <3>2
  <2> QED
    BY <1>1, <1>2, <2>1
<1>8. c <= k + 1 => z <= q + m
  <2> HIDE DEF k, r
  <2>1. \A a, b \in Nat : a <= b + 1 => a * m <= b * m + m
    <3> SUFFICES ASSUME NEW a \in Nat, NEW b \in Nat, a <= b + 1 PROVE a * m <= b * m + m
      OBVIOUS
    <3>1. b + 1 = a + (b + 1 - a) /\ b + 1 - a \in Nat
      OBVIOUS
    <3>2. \A u \in Nat : (a + u) * m = a * m + u * m /\ u * m \in Nat
      OBVIOUS
    <3>3. (b + 1) * m = b * m + m
      OBVIOUS
    <3> QED
      BY <3>1, <3>2, <3>3
  <2> QED
    BY <1>1, <1>2, <2>1
<1>9. /\ r # m => i \div (m + 1) = k /\ i % (m + 1) = r + 1
      /\ r = m => i \div (m + 1) = k + 1 /\ i % (m + 1) = 0
  <2> HIDE DEF k, r
  <2>1. CASE r # m
    <3>1. r + 1 \in 0 .. ((m + 1) - 1) /\ m + 1 \in 1 .. 64
      BY <1>2, <2>1
    <3>2. i = k * (m + 1) + (r + 1)
      <4>1. k * (m + 1) \in Nat
        BY <1>2
      <4> QED
        BY <1>2, <4>1
    <3>3. (k * (m + 1) + (r + 1)) \div (m + 1) = k /\ (k * (m + 1) + (r + 1)) % (m + 1) = r + 1
      BY <1>2, <3>1, Quotient
    <3> QED
      BY <2>1, <3>2, <3>3
  <2>2. CASE r = m
    <3>1. 0 \in 0 .. ((m + 1) - 1) /\ m + 1 \in 1 .. 64 /\ k + 1 \in Nat
      BY <1>2
    <3>2. i = (k + 1) * (m + 1) + 0
      <4>1. (k + 1) * (m + 1) = k * (m + 1) + (m + 1) /\ k * (m + 1) \in Nat
        BY <1>2
      <4> QED
        BY <1>2, <2>2, <4>1
    <3>3. ((k + 1) * (m + 1) + 0) \div (m + 1) = k + 1 /\ ((k + 1) * (m + 1) + 0) % (m + 1) = 0
      BY <3>1, Quotient
    <3> QED
      BY <2>2, <3>2, <3>3
  <2> QED
    BY <2>1, <2>2
<1> DEFINE s == IF more THEN m ELSE n - q
<1>10. /\ Sent(n, m, i - 1) = q + (IF r = 0 THEN 0 ELSE r - 1)
       /\ ToCome(n, m, i - 1) = IF r = 0 THEN 0 ELSE s - (r - 1)
       /\ ChunkSize(n, m, k) = s
  BY DEF Sent, ToCome, ChunkSize
<1>11. /\ Sent(n, m, i) = IF r = m THEN q + m ELSE q + r
       /\ ToCome(n, m, i) = IF r = m THEN 0 ELSE s - r
  <2>1. CASE r = m
    <3>1. Sent(n, m, i) = (k + 1) * m + 0 /\ ToCome(n, m, i) = 0
      BY <1>9, <2>1 DEF Sent, ToCome
    <3> HIDE DEF k, r, q
    <3> QED
      BY <1>4, <2>1, <3>1
  <2>2. CASE r # m
    <3> HIDE DEF r
    <3>1. r + 1 # 0 /\ (r + 1) - 1 = r
      BY <1>2
    <3>2. Sent(n, m, i) = k * m + ((r + 1) - 1) /\ ToCome(n, m, i) = ChunkSize(n, m, k) - ((r + 1) - 1)
      BY <1>9, <2>2, <3>1 DEF Sent, ToCome
    <3> QED
      BY <1>10, <2>2, <3>1, <3>2
  <2> QED
    BY <2>1, <2>2
<1>12. more <=> q + m < n
  BY <1>4
<1> HIDE DEF k, r, q, z, more
<1>13. r = 0 => q < n
  BY <1>1, <1>2, <1>3, <1>4, <1>5
<1>14. r # 0 => q + r <= n
  BY <1>1, <1>2, <1>3, <1>4, <1>6
<1>15. s \in 1 .. 63 /\ (r # 0 => r <= s)
  BY <1>2, <1>4, <1>12, <1>13, <1>14
<1>16. i = n + c => r # 0 /\ (r = m => q + m = n) /\ (r # m => q + r = n /\ s = r)
  BY <1>1, <1>2, <1>3, <1>4, <1>7, <1>8, <1>12, <1>13, <1>14
<1> HIDE DEF s
<1>17. r = 0 => /\ ChunkSize(n, m, k) \in 1 .. 63 /\ Sent(n, m, i - 1) = Sent(n, m, i)
                /\ ToCome(n, m, i - 1) = 0 /\ ToCome(n, m, i) = ChunkSize(n, m, k)
  BY <1>2, <1>4, <1>10, <1>11, <1>15
<1>18. r # 0 => /\ ToCome(n, m, i - 1) \in 1 .. 63 /\ ToCome(n, m, i) = ToCome(n, m, i - 1) - 1
                /\ Sent(n, m, i) = Sent(n, m, i - 1) + 1
                /\ i - 1 - k = Sent(n, m, i - 1) + 1 /\ i - 1 - k \in 1 .. n
  <2>1. r = m => s = m
    BY <1>12, <1>14, <1>15, <1>2, <1>4 DEF s
  <2> QED
    BY <1>2, <1>4, <1>10, <1>11, <1>14, <1>15, <2>1
<1>19. Sent(n, m, i - 1) \in Nat
  BY <1>2, <1>4, <1>10
<1>20. i = n + c => Sent(n, m, i) = n /\ ToCome(n, m, i) = 0
  BY <1>2, <1>4, <1>11, <1>15, <1>16
<1> QED
  BY <1>17, <1>18, <1>19, <1>20 DEF k, r, c

\* From its q-th byte on the bit string c carries these bytes, lowest bit first.
Carries(c, q, bytes) ==
  \A p \in 0 .. (Len(bytes) - 1), i \in 1 .. 8 : c[8 * (q + p) + i] = ByteBits[bytes[p + 1]][i]

LEMMA ChunksLead ==
  ASSUME NEW fam \in Families, NEW c, NEW q \in Nat, NEW bytes \in Seq(Byte), Carries(c, q, bytes),
         NEW m \in 1 .. 63
  PROVE  Leads(Held(Given(fam, "ShDR", c, 8 * q), 0), ShiftChunks(bytes, m),
               Held(Given(fam, "ShDR", c, 8 * (q + Len(bytes))), 0))
<1> DEFINE n == Len(bytes)
           total == n + (n + m - 1) \div m
           rx == ShiftChunks(bytes, m)
           at(i) == (i - 1) \div (m + 1)
           T == [i \in 0 .. total |-> Shifts(Given(fam, "ShDR", c, 8 * (q + Sent(n, m, i))), ToCome(n, m, i))]
<1>1. n \in Nat /\ total \in Nat /\ total = n + (n + m - 1) \div m
  OBVIOUS
<1>2. rx \in Seq(Byte) /\ Len(rx) = total
  <2>1. rx \in Seq(Byte)
    BY ChunksType
  <2>2. DOMAIN rx = 1 .. total
    BY DEF ShiftChunks
  <2>3. Len(rx) \in Nat /\ DOMAIN rx = 1 .. Len(rx)
    <3> HIDE DEF rx
    <3> QED
      BY <2>1
  <2> HIDE DEF rx, total
  <2> QED
    BY <1>1, <2>1, <2>2, <2>3
<1>3. \A i \in 1 .. total :
        rx[i] = IF (i - 1) % (m + 1) = 0 THEN 128 + ChunkSize(n, m, at(i)) ELSE bytes[i - 1 - at(i)]
  BY DEF ShiftChunks, ChunkSize
<1>4. T[0] = Shifts(Given(fam, "ShDR", c, 8 * q), 0)
  <2>1. Sent(n, m, 0) = 0 /\ ToCome(n, m, 0) = 0
    <3>1. 0 \div (m + 1) = 0 /\ 0 % (m + 1) = 0
      OBVIOUS
    <3>2. 0 * m = 0
      OBVIOUS
    <3> QED
      BY <3>1, <3>2 DEF Sent, ToCome
  <2>2. 8 * (q + 0) = 8 * q /\ 0 \in 0 .. total
    <3> HIDE DEF total
    <3> QED
      BY <1>1
  <2> HIDE DEF n, total
  <2> QED
    BY <2>1, <2>2
<1>5. T[total] = Shifts(Given(fam, "ShDR", c, 8 * (q + n)), 0)
  <2>1. Sent(n, m, total) = n /\ ToCome(n, m, total) = 0
    <3>1. CASE total = 0
      <4>1. n = 0
        <5>1. (n + m - 1) \div m \in Nat
          BY <1>1
        <5> DEFINE x == (n + m - 1) \div m
        <5>2. x \in Nat /\ n + x = 0
          BY <3>1, <5>1
        <5> HIDE DEF x, n
        <5> QED
          BY <1>1, <5>2
      <4>2. 0 \div (m + 1) = 0 /\ 0 % (m + 1) = 0 /\ 0 * m = 0
        OBVIOUS
      <4> HIDE DEF n, total
      <4> QED
        BY <3>1, <4>1, <4>2 DEF Sent, ToCome
    <3>2. CASE total # 0
      <4> HIDE DEF n
      <4>1. total \in 1 .. (n + (n + m - 1) \div m)
        BY <1>1, <3>2
      <4>2. total = n + (n + m - 1) \div m
        OBVIOUS
      <4> HIDE DEF total
      <4> QED
        BY <1>1, <4>1, <4>2, ChunkStep
    <3> QED
      BY <3>1, <3>2
  <2>2. total \in 0 .. total
    <3> HIDE DEF total
    <3> QED
      BY <1>1
  <2> HIDE DEF n, total
  <2> QED
    BY <2>1, <2>2
<1> HIDE DEF rx
<1>6. ASSUME NEW i \in 1 .. total, NEW v \in T[i - 1] \cap Wires PROVE Fed(v, rx[i]) \in T[i]
  <2> DEFINE k == at(i)
             r == (i - 1) % (m + 1)
             s == Sent(n, m, i - 1)
             l == ToCome(n, m, i - 1)
             G(x) == Given(fam, "ShDR", c, 8 * (q + x))
  <2>1. /\ r = 0 => /\ ChunkSize(n, m, k) \in 1 .. 63 /\ s = Sent(n, m, i)
                    /\ l = 0 /\ ToCome(n, m, i) = ChunkSize(n, m, k)
        /\ r # 0 => /\ l \in 1 .. 63 /\ ToCome(n, m, i) = l - 1
                    /\ Sent(n, m, i) = s + 1
                    /\ i - 1 - k = s + 1 /\ i - 1 - k \in 1 .. n
        /\ s \in Nat
    <3>1. i \in 1 .. (n + (n + m - 1) \div m)
      OBVIOUS
    <3> HIDE DEF total, T, n
    <3> QED
      BY <1>1, <3>1, ChunkStep
  <2>2. i - 1 \in 0 .. total /\ i \in 0 .. total
    <3> HIDE DEF total, T
    <3> QED
      BY <1>1
  <2>3. v \in Shifts(G(s), l) /\ T[i] = Shifts(G(Sent(n, m, i)), ToCome(n, m, i))
    <3> HIDE DEF total
    <3> QED
      BY <1>6, <2>2
  <2>4. rx[i] = IF r = 0 THEN 128 + ChunkSize(n, m, k) ELSE bytes[i - 1 - k]
    BY <1>3
  <2> HIDE DEF T, k, r, s, l, total, at
  <2>5. CASE r = 0
    <3> DEFINE z == ChunkSize(n, m, k)
    <3>1. z \in 1 .. 63 /\ T[i] = Shifts(G(s), z) /\ v \in Shifts(G(s), 0) /\ rx[i] = 128 + z
      BY <2>1, <2>3, <2>4, <2>5
    <3> HIDE DEF z, G, n
    <3>2. Fed(v, 128 + z) \in Shifts(G(s), z)
      BY <3>1, CommandFed
    <3> QED
      BY <3>1, <3>2
  <2>6. CASE r # 0
    <3> DEFINE b == bytes[s + 1]
    <3>1. /\ l \in 1 .. 63 /\ T[i] = Shifts(G(s + 1), l - 1) /\ v \in Shifts(G(s), l) /\ rx[i] = b
          /\ s + 1 \in 1 .. n /\ s \in Nat
      BY <2>1, <2>3, <2>4, <2>6
    <3>2. b \in Byte
      BY <3>1, ElementOfSeq
    <3>3. ASSUME NEW x \in 1 .. 8 PROVE c[8 * (q + s) + x] = ByteBits[b][x]
      <4>1. s \in 0 .. (n - 1)
        BY <1>1, <3>1
      <4> QED
        BY <4>1 DEF Carries
    <3>4. 8 * (q + s) \in Nat /\ 8 * (q + s) + 8 = 8 * (q + (s + 1))
      BY <3>1
    <3> HIDE DEF b, n
    <3> DEFINE kk == 8 * (q + s)
    <3>5. v \in Shifts(Given(fam, "ShDR", c, kk), l) /\ T[i] = Shifts(Given(fam, "ShDR", c, kk + 8), l - 1)
          /\ kk \in Nat /\ \A x \in 1 .. 8 : c[kk + x] = ByteBits[b][x]
      BY <3>1, <3>3, <3>4
    <3> HIDE DEF kk, G
    <3>6. Fed(v, b) \in Shifts(Given(fam, "ShDR", c, kk + 8), l - 1)
      BY <3>1, <3>2, <3>5, ByteFed
    <3> QED
      BY <3>1, <3>5, <3>6
  <2> QED
    BY <2>5, <2>6
<1> HIDE DEF T, total
<1>7. Leads(T[0], rx, T[Len(rx)])
  BY <1>2, <1>6, LeadsStepwise
<1>8. Leads(Shifts(Given(fam, "ShDR", c, 8 * q), 0), rx, Shifts(Given(fam, "ShDR", c, 8 * (q + n)), 0))
  BY <1>2, <1>4, <1>5, <1>7
<1> HIDE DEF n
<1>9. Leads(Held(Given(fam, "ShDR", c, 8 * q), 0), rx, Held(Given(fam, "ShDR", c, 8 * (q + n)), 0))
  BY <1>8, HeldShifts, LeadsWithin
<1> QED
  BY <1>9 DEF rx, n

\* The last of the bytes goes behind the others, as levels.
LEMMA BodyLeads ==
  ASSUME NEW fam \in Families, NEW c, NEW q \in Nat, NEW bytes \in Seq(Byte), bytes # <<>>,
         Carries(c, q, bytes), NEW m \in 1 .. 63
  PROVE  LET n == Len(bytes)
         IN  Leads(Held(Given(fam, "ShDR", c, 8 * q), 0),
                   ShiftChunks(SubSeq(bytes, 1, n - 1), m) \o LastHigh(ByteBits[bytes[n]]),
                   Ready(Given(fam, "Ex1DR", c, 8 * (q + n))))
<1> DEFINE n == Len(bytes)
           front == SubSeq(bytes, 1, n - 1)
           b == bytes[n]
<1>1. n \in Nat \ {0} /\ n - 1 \in Nat /\ n \in 1 .. n /\ (n - 1) + 1 = n
  <2>1. n \in Nat /\ n # 0
    BY EmptySeq
  <2> HIDE DEF n
  <2> QED
    BY <2>1
<1>2. front \in Seq(Byte) /\ Len(front) = n - 1 /\ \A p \in 1 .. (n - 1) : front[p] = bytes[p]
  <2>1. \A i \in 1 .. (n - 1) : bytes[i] \in Byte
    <3>1. \A i \in 1 .. (n - 1) : i \in 1 .. n
      BY <1>1
    <3> QED
      BY <3>1, ElementOfSeq
  <2> DEFINE l == n - 1
  <2>2. l \in Nat /\ 1 \in Int /\ l \in Int
    BY <1>1
  <2> HIDE DEF l
  <2>3. /\ SubSeq(bytes, 1, l) \in Seq(Byte) /\ Len(SubSeq(bytes, 1, l)) = IF 1 <= l THEN l - 1 + 1 ELSE 0
        /\ \A i \in 1 .. l - 1 + 1 : SubSeq(bytes, 1, l)[i] = bytes[1 + i - 1]
    BY <2>1, <2>2, SubSeqProperties DEF l
  <2>4. (IF 1 <= l THEN l - 1 + 1 ELSE 0) = l /\ l - 1 + 1 = l /\ \A i \in 1 .. l : 1 + i - 1 = i
    BY <2>2
  <2> QED
    BY <2>3, <2>4 DEF l
<1>3. b \in Byte
  BY <1>1, ElementOfSeq
<1>4. \A p \in 0 .. (n - 1), i \in 1 .. 8 : c[8 * (q + p) + i] = ByteBits[bytes[p + 1]][i]
  BY DEF Carries
<1> HIDE DEF n, front
<1>5. Carries(c, q, front)
  <2>1. ASSUME NEW p \in 0 .. ((n - 1) - 1), NEW i \in 1 .. 8
        PROVE  c[8 * (q + p) + i] = ByteBits[front[p + 1]][i]
    <3>1. p \in 0 .. (n - 1) /\ p + 1 \in 1 .. (n - 1)
      BY <1>1
    <3> QED
      BY <1>2, <1>4, <3>1
  <2> QED
    BY <1>2, <2>1 DEF Carries
<1>6. Leads(Held(Given(fam, "ShDR", c, 8 * q), 0), ShiftChunks(front, m),
            Held(Given(fam, "ShDR", c, 8 * (q + (n - 1))), 0))
  BY <1>2, <1>5, ChunksLead
<1> DEFINE k == 8 * (q + (n - 1))
<1>7. k \in Nat /\ k + 8 = 8 * (q + n)
  BY <1>1
<1>8. \A i \in 1 .. 8 : c[k + i] = ByteBits[b][i]
  <2>1. n - 1 \in 0 .. (n - 1)
    BY <1>1
  <2> QED
    BY <1>1, <1>4, <2>1
<1> HIDE DEF k, b
<1>9. Leads(Held(Given(fam, "ShDR", c, k), 0), LastHigh(ByteBits[b]), Ready(Given(fam, "Ex1DR", c, k + 8)))
  BY <1>3, <1>7, <1>8, LastByteLeads
<1>10. Leads(Held(Given(fam, "ShDR", c, 8 * q), 0), ShiftChunks(front, m), Held(Given(fam, "ShDR", c, k), 0))
  BY <1>6 DEF k
<1>11. Leads(Held(Given(fam, "ShDR", c, 8 * q), 0), ShiftChunks(front, m) \o LastHigh(ByteBits[b]),
             Ready(Given(fam, "Ex1DR", c, k + 8)))
  BY <1>9, <1>10, LeadsOn
<1> QED
  BY <1>7, <1>11 DEF front, b, n

LEMMA CarriesWired ==
  ASSUME NEW bytes \in Seq(Byte), NEW from \in 0 .. Len(bytes), NEW to \in from .. Len(bytes)
  PROVE  Carries(Wired(bytes), from, SubSeq(bytes, from + 1, to))
<1> DEFINE piece == SubSeq(bytes, from + 1, to)
<1>1. Len(piece) = to - from /\ \A p \in 1 .. (to - from) : piece[p] = bytes[from + p]
  OBVIOUS
<1>2. Len(bytes) \in Nat
  OBVIOUS
<1> HIDE DEF piece
<1>3. ASSUME NEW p \in 0 .. ((to - from) - 1), NEW i \in 1 .. 8
      PROVE  Wired(bytes)[8 * (from + p) + i] = ByteBits[piece[p + 1]][i]
  <2> DEFINE x == from + p + 1
  <2>1. x \in 1 .. Len(bytes) /\ x - 1 = from + p /\ p + 1 \in 1 .. (to - from) /\ from + (p + 1) = x
    BY <1>2
  <2> HIDE DEF x
  <2>2. Wired(bytes)[8 * (x - 1) + i] = ByteBits[bytes[x]][i]
    BY <2>1, WiredType
  <2> QED
    BY <1>1, <2>1, <2>2
<1>4. Carries(Wired(bytes), from, piece)
  BY <1>1, <1>3 DEF Carries
<1> QED
  BY <1>4 DEF piece

\* All of the bits are given: the TAP holds exactly them.
LEMMA GivenNone ==
  ASSUME NEW fam, NEW c
  PROVE  \A t \in With(Configuring(fam), At(fam, "ShDR", Blank, <<>>)) : t \in Given(fam, "ShDR", c, 0)
BY DEF With, At, Given

LEMMA GivenAll ==
  ASSUME NEW fam, NEW tap, NEW c \in Seq(B01)
  PROVE  \A t \in Given(fam, tap, c, Len(c)) : t \in With(Configuring(fam), At(fam, tap, Blank, c))
<1> SUFFICES ASSUME NEW t \in Given(fam, tap, c, Len(c)) PROVE t \in With(Configuring(fam), At(fam, tap, Blank, c))
  OBVIOUS
<1>1. /\ t \in TapStates /\ t.fam = fam /\ t.tap = tap /\ t.instr = Configuring(fam) /\ t.core = Blank
      /\ Len(t.cfg) = Len(c) /\ \A i \in 1 .. Len(c) : t.cfg[i] = c[i]
  BY DEF Given
<1>2. t.cfg \in Seq(B01)
  BY <1>1 DEF TapStates
<1>3. t.cfg = c
  <2> DEFINE a == t.cfg
  <2>1. a \in Seq(B01) /\ Len(a) = Len(c) /\ \A i \in 1 .. Len(c) : a[i] = c[i]
    BY <1>1, <1>2
  <2> HIDE DEF a
  <2>2. a = c
    BY <2>1, SeqEqual
  <2> QED
    BY <2>2 DEF a
<1> QED
  BY <1>1, <1>3 DEF With, At

\* The instruction that erases the FPGA, whatever it ran and had been given.
LEMMA EraseLeads ==
  ASSUME NEW fam \in Families, NEW code \in Nat, Bits(code, fam.ir) = Erasing(fam), Erasing(fam) # Starting(fam)
  PROVE  Leads(Ready({t \in TapStates : t.fam = fam /\ t.tap = "RTI"}), scan_ir(fam, code),
               Ready(With(Erasing(fam), At(fam, "RTI", Blank, <<>>))))
<1> DEFINE Q == Ready(With(Erasing(fam), At(fam, "RTI", Blank, <<>>)))
<1>1. scan_ir(fam, code) \in Seq(Byte)
  BY ScanType DEF Families
<1>2. ASSUME NEW w \in Ready({t \in TapStates : t.fam = fam /\ t.tap = "RTI"}) \cap Wires
      PROVE  After(w, scan_ir(fam, code)) \in Q
  <2> DEFINE t == TapOf(w)
  <2>1. t \in TapStates /\ t.fam = fam /\ t.tap = "RTI" /\ Calm(w)
    BY DEF Ready
  <2> HIDE DEF t
  <2>2. t \in At(fam, "RTI", t.core, t.cfg)
    BY <2>1 DEF At
  <2>3. w \in Ready(At(fam, "RTI", t.core, t.cfg)) \cap Wires
    BY <2>1, <2>2 DEF Ready, t
  <2>4. Leads(Ready(At(fam, "RTI", t.core, t.cfg)), scan_ir(fam, code), Q)
    BY ScanLeads
  <2> HIDE DEF Q
  <2> QED
    BY <2>3, <2>4 DEF Leads
<1> HIDE DEF Q
<1> QED
  BY <1>1, <1>2 DEF Leads, Q

(***************************************************************************)
(* What the FPGA starts                                                    *)
(***************************************************************************)
\* An Artix has the bits of each byte the other way round.
Turned(bytes) == [i \in 1 .. Len(bytes) |-> BitsByte(Backwards(ByteBits[bytes[i]]))]

LEMMA TurnedByte ==
  ASSUME NEW b \in Byte
  PROVE  LET t == BitsByte(Backwards(ByteBits[b]))
         IN  t \in Byte /\ \A i \in 1 .. 8 : ByteBits[t][i] = ByteBits[b][9 - i]
<1> DEFINE f == ByteBits[b]
           s == Backwards(f)
<1>1. f \in Seq(B01) /\ Len(f) = 8
  BY ByteBitsType
<1> HIDE DEF f
<1>2. \A i \in 1 .. 8 : s[i] = f[9 - i] /\ f[9 - i] \in B01
  <2>1. \A i \in 1 .. 8 : 8 + 1 - i = 9 - i /\ 9 - i \in 1 .. 8
    OBVIOUS
  <2>2. \A i \in 1 .. 8 : f[i] \in B01
    BY <1>1, ElementOfSeq
  <2> QED
    BY <1>1, <2>1, <2>2 DEF Backwards
<1>3. s \in [1 .. 8 -> B01]
  <2>1. s = [i \in 1 .. 8 |-> s[i]]
    BY <1>1 DEF Backwards
  <2> HIDE DEF s
  <2> QED
    BY <1>2, <2>1
<1>4. s \in Seq(B01) /\ Len(s) = 8
  <2> HIDE DEF s
  <2>1. 8 \in Nat
    OBVIOUS
  <2> QED
    BY <1>3, <2>1, FunSeq
<1> HIDE DEF s
<1> DEFINE t == BitsByte(s)
<1>5. t \in Byte
  BY <1>4, BitsByteType
<1>6. \A i \in 1 .. 8 : ByteBits[t][i] = s[i]
  BY <1>4, ByteGivesBits
<1>7. t \in Byte /\ \A i \in 1 .. 8 : ByteBits[t][i] = f[9 - i]
  BY <1>2, <1>5, <1>6
<1> QED
  BY <1>7 DEF f, s, t

LEMMA TurnedType ==
  ASSUME NEW bytes \in Seq(Byte)
  PROVE  /\ Turned(bytes) \in Seq(Byte) /\ Len(Turned(bytes)) = Len(bytes)
         /\ \A p \in 1 .. Len(bytes), i \in 1 .. 8 : ByteBits[Turned(bytes)[p]][i] = ByteBits[bytes[p]][9 - i]
<1> DEFINE e(i) == BitsByte(Backwards(ByteBits[bytes[i]]))
           n == Len(bytes)
<1>1. n \in Nat /\ \A i \in 1 .. n : bytes[i] \in Byte
  BY ElementOfSeq
<1>2. \A p \in 1 .. n : e(p) \in Byte /\ \A i \in 1 .. 8 : ByteBits[e(p)][i] = ByteBits[bytes[p]][9 - i]
  BY <1>1, TurnedByte
<1>3. Turned(bytes) = [i \in 1 .. n |-> e(i)]
  BY DEF Turned
<1> HIDE DEF e, n
<1>4. Turned(bytes) \in [1 .. n -> Byte] /\ \A i \in 1 .. n : Turned(bytes)[i] = e(i)
  BY <1>2, <1>3
<1>5. Turned(bytes) \in Seq(Byte) /\ Len(Turned(bytes)) = n
  BY <1>1, <1>4, FunSeq
<1> QED
  BY <1>2, <1>4, <1>5 DEF n

LEMMA TurnedTells ==
  ASSUME NEW a \in Seq(Byte), NEW b \in Seq(Byte), Turned(a) = Turned(b) PROVE a = b
<1>1. Len(a) = Len(b)
  BY TurnedType
<1>2. ASSUME NEW p \in 1 .. Len(a) PROVE a[p] = b[p]
  <2>1. a[p] \in Byte /\ b[p] \in Byte /\ p \in 1 .. Len(b)
    BY <1>1, ElementOfSeq
  <2>2. ASSUME NEW i \in 1 .. 8 PROVE ByteBits[a[p]][i] = ByteBits[b[p]][i]
    <3> DEFINE x == 9 - i
    <3>1. x \in 1 .. 8 /\ 9 - x = i
      OBVIOUS
    <3> HIDE DEF x
    <3>2. ByteBits[Turned(a)[p]][x] = ByteBits[a[p]][9 - x]
      BY <3>1, TurnedType
    <3>3. ByteBits[Turned(b)[p]][x] = ByteBits[b[p]][9 - x]
      BY <2>1, <3>1, TurnedType
    <3> QED
      BY <3>1, <3>2, <3>3
  <2>3. BitsByte(ByteBits[a[p]]) = BitsByte(ByteBits[b[p]])
    <3> DEFINE f == ByteBits[a[p]]
               g == ByteBits[b[p]]
    <3>1. /\ f[1] = g[1] /\ f[2] = g[2] /\ f[3] = g[3] /\ f[4] = g[4]
          /\ f[5] = g[5] /\ f[6] = g[6] /\ f[7] = g[7] /\ f[8] = g[8]
      BY <2>2
    <3> HIDE DEF f, g
    <3> QED
      BY <3>1 DEF BitsByte, f, g
  <2> QED
    BY <2>1, <2>3, BitsGiveByte
<1> QED
  BY <1>1, <1>2, SeqEqual

\* The bytes as they are shifted into a family.
Shifted8(fam, bytes) == IF fam.reversed THEN Turned(bytes) ELSE bytes

LEMMA StreamIsWired ==
  ASSUME NEW fam \in Families, NEW bytes \in Seq(Byte)
  PROVE  Bitstream(fam, bytes) = Wired(Shifted8(fam, bytes))
<1> DEFINE n == Len(bytes)
<1>1. ASSUME NEW i \in 1 .. 8 * n
      PROVE  LET p == (i - 1) \div 8 + 1
                 x == (i - 1) % 8
             IN  p \in 1 .. n /\ x + 1 \in 1 .. 8 /\ 9 - (x + 1) = 8 - x
  <2>1. n \in Nat
    OBVIOUS
  <2> HIDE DEF n
  <2> QED
    BY <2>1
<1>2. CASE ~fam.reversed
  <2>1. Shifted8(fam, bytes) = bytes
    BY <1>2 DEF Shifted8
  <2> QED
    BY <1>2, <2>1 DEF Bitstream, Wired
<1>3. CASE fam.reversed
  <2>1. Shifted8(fam, bytes) = Turned(bytes) /\ Len(Turned(bytes)) = n
    BY <1>3, TurnedType DEF Shifted8
  <2>2. ASSUME NEW i \in 1 .. 8 * n
        PROVE  ByteBits[bytes[(i - 1) \div 8 + 1]][8 - ((i - 1) % 8)]
               = ByteBits[Turned(bytes)[(i - 1) \div 8 + 1]][((i - 1) % 8) + 1]
    <3> DEFINE p == (i - 1) \div 8 + 1
               x == (i - 1) % 8
    <3>1. p \in 1 .. n /\ x + 1 \in 1 .. 8 /\ 9 - (x + 1) = 8 - x
      BY <1>1
    <3> HIDE DEF p, x, n
    <3>2. ByteBits[Turned(bytes)[p]][x + 1] = ByteBits[bytes[p]][9 - (x + 1)]
      BY <3>1, TurnedType DEF n
    <3> QED
      BY <3>1, <3>2 DEF p, x
  <2>3. Bitstream(fam, bytes) = [i \in 1 .. 8 * n |-> ByteBits[bytes[(i - 1) \div 8 + 1]][8 - ((i - 1) % 8)]]
    BY <1>3 DEF Bitstream
  <2>4. Wired(Turned(bytes)) = [i \in 1 .. 8 * n |-> ByteBits[Turned(bytes)[(i - 1) \div 8 + 1]][((i - 1) % 8) + 1]]
    BY <2>1 DEF Wired
  <2> HIDE DEF n
  <2> QED
    BY <2>1, <2>2, <2>3, <2>4
<1> QED
  BY <1>2, <1>3

\* With the bits of an image the FPGA starts it, with others nothing.
LEMMA StartedRight ==
  ASSUME NEW fam \in Families, NEW bytes \in Seq(Byte)
  PROVE  LET hits == {img \in Images : FileBytes[img] = bytes}
         IN  Started(fam, Bitstream(fam, bytes)) \in (IF hits = {} THEN {Blank} ELSE hits)
<1> DEFINE hits == {img \in Images : FileBytes[img] = bytes}
<1>1. ASSUME NEW img \in Images
      PROVE  Bitstream(fam, FileBytes[img]) = Bitstream(fam, bytes) <=> FileBytes[img] = bytes
  <2> DEFINE b == FileBytes[img]
  <2>1. b \in Seq(Byte)
    BY BlasterAssumption DEF Byte
  <2> HIDE DEF b
  <2>2. ASSUME Bitstream(fam, b) = Bitstream(fam, bytes) PROVE b = bytes
    <3>1. Wired(Shifted8(fam, b)) = Wired(Shifted8(fam, bytes))
      BY <2>1, <2>2, StreamIsWired
    <3>2. Shifted8(fam, b) \in Seq(Byte) /\ Shifted8(fam, bytes) \in Seq(Byte)
      BY <2>1, TurnedType DEF Shifted8
    <3>3. Shifted8(fam, b) = Shifted8(fam, bytes)
      BY <3>1, <3>2, WiredTells
    <3> QED
      BY <2>1, <3>3, TurnedTells DEF Shifted8
  <2> QED
    BY <2>2 DEF b
<1> DEFINE same == {img \in Images : Bitstream(fam, FileBytes[img]) = Bitstream(fam, bytes)}
           x == Started(fam, Bitstream(fam, bytes))
<1>2. same = hits
  BY <1>1
<1>3. x = IF same = {} THEN Blank ELSE CHOOSE img \in same : TRUE
  BY DEF Started
<1> HIDE DEF hits, same, x
<1>4. x \in (IF same = {} THEN {Blank} ELSE same)
  <2>1. same # {} => (CHOOSE img \in same : TRUE) \in same
    OBVIOUS
  <2> QED
    BY <1>3, <2>1
<1>5. x \in (IF hits = {} THEN {Blank} ELSE hits)
  BY <1>2, <1>4
<1> QED
  BY <1>5 DEF hits, x

(***************************************************************************)
(* What leaves the TAP alone                                               *)
(***************************************************************************)
\* The engine never touches the family of the FPGA.
LEMMA AfterFam ==
  ASSUME NEW w \in Wires, NEW rx \in Seq(Byte)
  PROVE  After(w, rx) \in Wires /\ After(w, rx).fam = w.fam
<1> DEFINE n == Len(rx)
           T == [i \in 0 .. n |-> {v \in Wires : v.fam = w.fam}]
<1>1. PICK f : Trace(f, w, rx)
  BY AfterTraced
<1>2. After(w, rx) = f[n]
  BY <1>1, AfterTraced
<1>3. n \in Nat /\ \A i \in 1 .. n : rx[i] \in Byte /\ i - 1 \in 0 .. n /\ i \in 0 .. n
  BY ElementOfSeq
<1>4. f[0] = w /\ \A i \in 1 .. n : f[i] = Fed(f[i - 1], rx[i])
  BY <1>1 DEF Trace
<1> HIDE DEF n
<1>5. f[0] \in T[0]
  BY <1>3, <1>4
<1>6. ASSUME NEW i \in 1 .. n, f[i - 1] \in T[i - 1] PROVE f[i] \in T[i]
  <2> DEFINE s == [j |-> f[i - 1], tx |-> <<>>]
  <2>1. f[i - 1] \in Wires /\ f[i - 1].fam = w.fam
    BY <1>3, <1>6
  <2>2. s \in Runs /\ s.j = f[i - 1]
    BY <2>1 DEF Runs
  <2> HIDE DEF s, T
  <2>3. Fed(s.j, rx[i]) \in Wires /\ Fed(s.j, rx[i]).fam = s.j.fam
    BY <1>3, <2>2, FedAlone
  <2>4. f[i] \in Wires /\ f[i].fam = w.fam
    BY <1>4, <2>1, <2>2, <2>3
  <2> QED
    BY <1>3, <2>4 DEF T
<1> HIDE DEF T
<1>7. \A i \in 0 .. n : f[i] \in T[i]
  BY <1>3, <1>5, <1>6, LoopKeeps
<1>8. f[n] \in T[n] /\ n \in 0 .. n
  BY <1>3, <1>7
<1> QED
  BY <1>2, <1>8 DEF T

\* What blaster_reset and the read of CONF_DONE leave alone: no step of theirs raises TCK.
LEMMA SettleStill == ASSUME NEW i, NEW w, TckLine(w) = 0 PROVE Settle(i, w) = w
<1>1. TckLine(w) # 1
  BY DEF TckLine
<1> QED
  BY <1>1, Zenon DEF Settle

LEMMA LevelsStill ==
  ASSUME NEW w \in Wires, NEW tms \in B01, NEW tdi \in B01
  PROVE  LET l == Levels(w, 0, tms, tdi)
         IN  /\ l \in Wires /\ TapOf(l) = TapOf(w) /\ l.pio = w.pio
             /\ l.left = w.left /\ l.oe = w.oe /\ l.dirT = w.dirT /\ l.dirM = w.dirM /\ l.tck = 0
<1> DEFINE l == [w EXCEPT !.tck = 0, !.tms = tms, !.tdi = tdi]
<1>1. 0 \in B01
  BY DEF B01
<1>2. l \in Wires
  BY <1>1 DEF Wires
<1>3. TapOf(l) = TapOf(w)
  BY DEF Wires, TapOf
<1>4. /\ l.pio = w.pio /\ l.left = w.left /\ l.oe = w.oe /\ l.dirT = w.dirT /\ l.dirM = w.dirM /\ l.tck = 0
  BY DEF Wires
<1>5. Levels(w, 0, tms, tdi) = Settle(w, l)
  BY DEF Levels
<1> HIDE DEF l
<1>6. TckLine(l) = 0
  BY <1>4 DEF TckLine
<1>7. Settle(w, l) = l
  BY <1>6, SettleStill
<1> QED
  BY <1>2, <1>3, <1>4, <1>5, <1>7

LEMMA DirectionsStill ==
  ASSUME NEW w \in Wires, NEW on \in BOOLEAN, ~on \/ w.tck = 0
  PROVE  Directions(w, on) \in Wires /\ TapOf(Directions(w, on)) = TapOf(w)
<1> DEFINE l == [w EXCEPT !.dirT = on, !.dirM = on]
<1>1. l \in Wires
  BY DEF Wires
<1>2. TapOf(l) = TapOf(w)
  BY DEF Wires, TapOf
<1>3. TckLine(l) = 0
  BY DEF TckLine, Wires
<1>4. Directions(w, on) = Settle(w, l)
  BY DEF Directions
<1> HIDE DEF l
<1>5. Settle(w, l) = l
  BY <1>3, SettleStill
<1> QED
  BY <1>1, <1>2, <1>4, <1>5

\* blaster_reset releases the pins without a clock, whatever the engine was doing.
LEMMA ResetKeepsTap ==
  ASSUME NEW w \in Wires PROVE TapOf(blaster_reset(w)) = TapOf(w)
<1> DEFINE ready == IF w.init THEN w ELSE blaster_init(w)
           m == [ready EXCEPT !.left = 0]
           o == output_enable(m, FALSE)
<1>1. ready \in Wires /\ TapOf(ready) = TapOf(w)
  <2> DEFINE k == [w EXCEPT !.pio = FALSE, !.tck = 0, !.tms = 0, !.tdi = 0]
             d == Directions(k, TRUE)
  <2>1. k \in Wires /\ k.tck = 0
    BY DEF Wires, B01
  <2>2. TapOf(k) = TapOf(w)
    BY DEF Wires, TapOf
  <2> HIDE DEF k
  <2>3. d \in Wires /\ TapOf(d) = TapOf(w)
    BY <2>1, <2>2, DirectionsStill
  <2>4. blaster_init(w) = [d EXCEPT !.init = TRUE]
    BY DEF blaster_init, k
  <2> HIDE DEF d
  <2>5. [d EXCEPT !.init = TRUE] \in Wires
    BY <2>3 DEF Wires
  <2>6. TapOf([d EXCEPT !.init = TRUE]) = TapOf(d)
    BY <2>3 DEF Wires, TapOf
  <2> QED
    BY <2>3, <2>4, <2>5, <2>6
<1>2. blaster_reset(w) = Levels(o, 0, 0, 0)
  BY DEF blaster_reset
<1> HIDE DEF ready
<1>3. m \in Wires
  <2>1. 0 \in 0 .. 63
    OBVIOUS
  <2> QED
    BY <1>1, <2>1 DEF Wires
<1>4. TapOf(m) = TapOf(w)
  <2>1. TapOf(m) = TapOf(ready)
    BY <1>1 DEF Wires, TapOf
  <2> QED
    BY <1>1, <2>1
<1> HIDE DEF m
<1>5. o \in Wires /\ TapOf(o) = TapOf(m)
  <2> DEFINE k == [m EXCEPT !.oe = FALSE]
  <2>1. k \in Wires
    BY <1>3 DEF Wires
  <2>2. TapOf(k) = TapOf(m)
    BY <1>3 DEF Wires, TapOf
  <2>3. o = IF m.oe = FALSE THEN m ELSE Directions(k, FALSE)
    BY DEF output_enable
  <2> HIDE DEF k, o
  <2> QED
    BY <1>3, <2>1, <2>2, <2>3, DirectionsStill
<1> HIDE DEF o
<1>6. TapOf(Levels(o, 0, 0, 0)) = TapOf(o)
  BY <1>5, LevelsStill DEF B01
<1> QED
  BY <1>2, <1>4, <1>5, <1>6

\* A reset that finds the pins with the bit-banger leaves a calm engine and the TAP as it was.
LEMMA ResetReady ==
  ASSUME NEW w \in Wires, ~w.pio
  PROVE  blaster_reset(w) \in Ready({t \in TapStates : t.fam = w.fam})
<1> DEFINE r == blaster_reset(w)
<1>1. r \in Wires /\ r.fam = w.fam /\ ~r.pio /\ r.left = 0 /\ ~r.oe /\ r.tck = 0
  BY ResetType
<1> HIDE DEF r
<1>2. Calm(r)
  BY <1>1 DEF Calm
<1>3. TapOf(r) \in TapStates
  BY <1>1, TapOfType
<1>4. TapOf(r).fam = w.fam
  BY <1>1 DEF TapOf
<1>5. r \in Ready({t \in TapStates : t.fam = w.fam})
  BY <1>1, <1>2, <1>3, <1>4 DEF Ready
<1> QED
  BY <1>5 DEF r

\* The byte that reads CONF_DONE: TMS high, TCK low.
LEMMA DoneRead ==
  ASSUME NEW w \in Wires, Calm(w)
  PROVE  LET v == After(w, <<98>>)
         IN  v \in Wires /\ TapOf(v) = TapOf(w) /\ ~v.pio
<1> DEFINE s == [j |-> w, tx |-> <<>>]
           o == output_enable(w, TRUE)
           l == Levels(o, 0, 1, 0)
<1>1. /\ 98 \in Byte /\ 0 \in B01 /\ 1 \in B01
      /\ ~Flag(98, 128) /\ Flag(98, 32) = TRUE /\ Bit(98, 1) = 0 /\ Bit(98, 2) = 1 /\ Bit(98, 16) = 0
  BY DEF Byte, B01, Flag, Bit
<1>2. After(w, <<98>>) = Fed(w, 98)
  BY <1>1, AfterOne
<1>3. s.j = w /\ ~(s.j.left > 0)
  BY DEF Calm
<1> HIDE DEF s
<1>4. ProcessByte(s, 98) = bitbang(output_enable(s.j, Flag(98, 32)), 98, s.tx)
  BY <1>1, <1>3 DEF ProcessByte
<1>5. ProcessByte(s, 98) = bitbang(o, 98, s.tx)
  BY <1>1, <1>3, <1>4, Zenon
<1>6. o \in Wires /\ ~o.pio /\ TapOf(o) = TapOf(w)
  BY Enabled
<1> HIDE DEF o
<1>7. bitbang(o, 98, s.tx).j = Levels(o, Bit(98, 1), Bit(98, 2), Bit(98, 16))
  BY DEF bitbang
<1>8. bitbang(o, 98, s.tx).j = l
  BY <1>1, <1>7
<1>9. Fed(w, 98) = l
  BY <1>5, <1>8 DEF Fed, s
<1>10. l \in Wires /\ TapOf(l) = TapOf(o) /\ l.pio = o.pio
  BY <1>1, <1>6, LevelsStill
<1> QED
  BY <1>2, <1>6, <1>9, <1>10
=============================================================================
