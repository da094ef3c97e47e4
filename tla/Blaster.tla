------------------------------ MODULE Blaster ------------------------------
(***************************************************************************)
(* The JTAG side of the supervisor: blaster.c (the USB-Blaster protocol    *)
(* engine), jtag.c (the IDCODE reader), the four wires they share, and the *)
(* TAP of the FPGA at their other end (external).                          *)
(*                                                                         *)
(* One record j holds all of it.  Every operator below takes a record and  *)
(* gives the next one; a change of the wires that makes TCK rise steps the *)
(* TAP.  FpgaConfig composes them.                                         *)
(***************************************************************************)
EXTENDS Integers, Sequences

CONSTANTS
  IdCode,         \* the bits of the FPGA's IDCODE, first bit first (32 of them)
  Images,         \* the bitstreams the FPGA accepts
  FileBytes,      \* file -> its bytes; the images are files
  StartTicks      \* clocks of Run-Test/Idle the FPGA needs to start up

ASSUME BlasterAssumption ==
  /\ IdCode \in Seq({0, 1}) /\ IdCode # <<>>
  /\ FileBytes \in [DOMAIN FileBytes -> Seq(0..255)]
  /\ Images \subseteq DOMAIN FileBytes /\ \A img \in Images : FileBytes[img] # <<>>
  /\ StartTicks \in Nat \ {0}

Blank == "blank"        \* the FPGA runs nothing
Factory == "factory"    \* the FPGA runs what its own configuration flash has

Bits(n, width) == [i \in 1..width |-> (n \div 2^(i - 1)) % 2]
ByteBits == [b \in 0..255 |-> Bits(b, 8)]
BitsByte(s) == s[1] + 2*s[2] + 4*s[3] + 8*s[4] + 16*s[5] + 32*s[6] + 64*s[7] + 128*s[8]
Backwards(s) == [i \in 1..Len(s) |-> s[Len(s) + 1 - i]]

(***************************************************************************)
(* The TAP.  Two families of FPGA: `ir' is the length of its instruction   *)
(* register and the codes of the three instructions that configure it.     *)
(***************************************************************************)
Cyclone == [ir |-> 10, config |-> 2, check |-> 4, startup |-> 3, bypass |-> 1023,
            reversed |-> FALSE]
Artix   == [ir |-> 6, program |-> 11, config |-> 5, startup |-> 12, bypass |-> 63,
            reversed |-> TRUE]
Family(board) == IF board = "wukong" THEN Artix ELSE Cyclone

TapNext ==
  [TLR   |-> <<"RTI", "TLR">>,     RTI   |-> <<"RTI", "SelDR">>,
   SelDR |-> <<"CapDR", "SelIR">>, CapDR |-> <<"ShDR", "Ex1DR">>,
   ShDR  |-> <<"ShDR", "Ex1DR">>,  Ex1DR |-> <<"PauDR", "UpdDR">>,
   PauDR |-> <<"PauDR", "Ex2DR">>, Ex2DR |-> <<"ShDR", "UpdDR">>,
   UpdDR |-> <<"RTI", "SelDR">>,   SelIR |-> <<"CapIR", "TLR">>,
   CapIR |-> <<"ShIR", "Ex1IR">>,  ShIR  |-> <<"ShIR", "Ex1IR">>,
   Ex1IR |-> <<"PauIR", "UpdIR">>, PauIR |-> <<"PauIR", "Ex2IR">>,
   Ex2IR |-> <<"ShIR", "UpdIR">>,  UpdIR |-> <<"RTI", "SelDR">>]

IdcodeIr == <<>>        \* the instruction after Test-Logic-Reset

\* The bits of a file as the configuration logic of the family expects them.
Bitstream(fam, bytes) ==
  [i \in 1..8 * Len(bytes) |->
     LET bits == ByteBits[bytes[(i - 1) \div 8 + 1]]
     IN  IF fam.reversed THEN bits[8 - ((i - 1) % 8)] ELSE bits[((i - 1) % 8) + 1]]

\* What the FPGA starts with the bits it was given: the image they are, or nothing.
Started(fam, bits) ==
  LET hits == {img \in Images : Bitstream(fam, FileBytes[img]) = bits}
  IN  IF hits = {} THEN Blank ELSE CHOOSE img \in hits : TRUE

\* What entering a state does.  A new instruction takes effect in Update-IR: the
\* one that configures a Cyclone, and JPROGRAM for an Artix, erases the FPGA.
Enter(j, s) ==
  CASE s = "TLR" -> [j EXCEPT !.tap = s, !.instr = IdcodeIr]
    [] s = "UpdIR" ->
         LET erases == j.reg = Bits(IF j.fam.reversed THEN j.fam.program ELSE j.fam.config, j.fam.ir)
         IN  [j EXCEPT !.tap = s, !.instr = j.reg, !.ticks = 0,
                       !.core = IF erases THEN Blank ELSE @,
                       !.cfg = IF erases THEN << >> ELSE @]
    [] s = "CapIR" -> [j EXCEPT !.tap = s, !.reg = [i \in 1..j.fam.ir |-> IF i = 1 THEN 1 ELSE 0]]
    [] s = "CapDR" -> [j EXCEPT !.tap = s, !.reg = IF j.instr = IdcodeIr THEN IdCode ELSE <<0>>]
    [] s = "RTI" /\ j.instr = Bits(j.fam.startup, j.fam.ir) /\ j.ticks < StartTicks ->
         [j EXCEPT !.tap = s, !.ticks = @ + 1,
                   !.core = IF j.ticks + 1 = StartTicks /\ @ = Blank
                            THEN Started(j.fam, j.cfg) ELSE @]
    [] OTHER -> [j EXCEPT !.tap = s]

\* A rising edge of TCK with these levels of TMS and TDI.
Clock(j, tms, tdi) ==
  LET shifted ==
        IF j.tap = "ShDR" /\ j.instr = Bits(j.fam.config, j.fam.ir) THEN [j EXCEPT !.cfg = Append(@, tdi)]
        ELSE IF j.tap \in {"ShDR", "ShIR"} THEN [j EXCEPT !.reg = Append(Tail(@), tdi)]
        ELSE j
  IN  Enter(shifted, TapNext[j.tap][tms + 1])

\* TDO is driven only while shifting; otherwise the pull-up of the pin decides.
TDO(j) == IF j.tap \in {"ShDR", "ShIR"} THEN Head(j.reg) ELSE 1

(***************************************************************************)
(* The wires.  TCK and TDI belong to the SIO block or to a PIO state       *)
(* machine (pio), which keeps TCK low between bytes; a pin that nobody     *)
(* drives is held by the FPGA's pull resistor: TCK low, TMS and TDI high.  *)
(***************************************************************************)
TckLine(j) == IF j.pio \/ ~j.dirT THEN 0 ELSE j.tck
TmsLine(j) == IF j.dirM THEN j.tms ELSE 1
TdiLine(j) == IF j.dirT THEN j.tdi ELSE 1

Settle(before, after) ==
  IF TckLine(before) = 0 /\ TckLine(after) = 1
    THEN Clock(after, TmsLine(after), TdiLine(after)) ELSE after

Levels(j, tck, tms, tdi) == Settle(j, [j EXCEPT !.tck = tck, !.tms = tms, !.tdi = tdi])
Directions(j, on) == Settle(j, [j EXCEPT !.dirT = on, !.dirM = on])

(***************************************************************************)
(* blaster.c                                                               *)
(***************************************************************************)
\* The supervisor restarts; the FPGA, and with it the state of its TAP, stays.
Restarted(j) ==
  [j EXCEPT !.pio = FALSE, !.dirT = FALSE, !.dirM = FALSE, !.tck = 0, !.tms = 0,
            !.tdi = 0, !.oe = FALSE, !.left = 0, !.rd = FALSE, !.init = FALSE,
            !.jinit = FALSE]

\* A board is switched on: the FPGA loads its own flash.
PoweredOn(board, pioOk) ==
  [fam |-> Family(board), tap |-> "TLR", instr |-> IdcodeIr, reg |-> <<0>>, cfg |-> << >>,
   ticks |-> 0, core |-> Factory, pio |-> FALSE, dirT |-> FALSE, dirM |-> FALSE, tck |-> 0,
   tms |-> 0, tdi |-> 0, oe |-> FALSE, left |-> 0, rd |-> FALSE, init |-> FALSE,
   jinit |-> FALSE, pioOk |-> pioOk]

\* gpio_init makes the pins inputs of the SIO block at level 0, then they are driven.
\* Placing the PIO program hands the pins to the PIO and takes them back.
blaster_init(j) ==
  [Directions([j EXCEPT !.pio = FALSE, !.tck = 0, !.tms = 0, !.tdi = 0], TRUE)
     EXCEPT !.init = TRUE]

output_enable(j, on) ==
  IF j.oe = on THEN j ELSE Directions([j EXCEPT !.oe = on], on)

shift_exit_pio(j) == [j EXCEPT !.pio = FALSE, !.dirT = TRUE]

blaster_reset(j) ==
  LET ready == IF j.init THEN j ELSE blaster_init(j)
  IN  Levels(output_enable([ready EXCEPT !.left = 0], FALSE), 0, 0, 0)

Flag(b, bit) == (b \div bit) % 2 = 1
Bit(b, bit) == (b \div bit) % 2

\* One data byte: eight clocks, lowest bit first.  The PIO drives TCK and TDI itself, and
\* shifts into nothing once jtag.c has taken the pins; the fallback goes through the pins
\* of the SIO block as they are.
ShiftBit(j, bit) ==
  IF j.pioOk THEN (IF j.pio THEN Clock(j, TmsLine(j), bit) ELSE j)
  ELSE Levels(Levels([j EXCEPT !.tdi = bit], 1, j.tms, bit), 0, j.tms, bit)

\* A run of the engine: its state, and the bits or bytes read so far.
Shifted(s, bit) == [j |-> ShiftBit(s.j, bit), in |-> Append(s.in, TDO(s.j))]
shift_byte(j, b) ==
  LET after[i \in 0..8] ==
        IF i = 0 THEN [j |-> j, in |-> <<>>] ELSE Shifted(after[i - 1], ByteBits[b][i])
  IN  after[8]

\* A data byte, a command to shift, and a command of levels.
EndByte(j) == IF j.left = 1 /\ j.pioOk THEN shift_exit_pio([j EXCEPT !.left = 0])
              ELSE [j EXCEPT !.left = @ - 1]
DataByte(r, tx) == [j |-> EndByte(r.j), tx |-> IF r.j.rd THEN Append(tx, BitsByte(r.in)) ELSE tx]
shift_enter(j, b) ==
  [Levels(j, 0, j.tms, j.tdi) EXCEPT !.rd = Flag(b, 64), !.left = b % 64, !.pio = j.pioOk]
bitbang(j, b, tx) ==
  [j |-> Levels(j, Bit(b, 1), Bit(b, 2), Bit(b, 16)),
   tx |-> IF Flag(b, 64) THEN Append(tx, TDO(j)) ELSE tx]

\* One protocol byte; s.tx collects what is read back.
ProcessByte(s, b) ==
  IF s.j.left > 0 THEN DataByte(shift_byte(s.j, b), s.tx)
  ELSE IF Flag(b, 128) THEN [j |-> shift_enter(s.j, b), tx |-> s.tx]
  ELSE bitbang(output_enable(s.j, Flag(b, 32)), b, s.tx)

\* The bytes rx[from + 1 .. to], in order.  (The first conjunct holds: it makes TLC evaluate s.)
Run(s, rx, from, to) ==
  LET after[i \in from..to] == IF i = from THEN s ELSE ProcessByte(after[i - 1], rx[i])
  IN  IF s.j.left \in 0..63 /\ from < to THEN after[to] ELSE s

\* All of them; the runs of eight are for TLC, whose stack is short.
blaster_process(j, rx) ==
  LET upto[k \in 0..(Len(rx) \div 8 + 1)] ==
        IF k = 0 THEN [j |-> j, tx |-> <<>>]
        ELSE Run(upto[k - 1], rx, 8 * (k - 1), IF 8 * k < Len(rx) THEN 8 * k ELSE Len(rx))
  IN  upto[Len(rx) \div 8 + 1]

(***************************************************************************)
(* jtag.c: the console's J.  It has its own initialisation, done once.     *)
(***************************************************************************)
jtag_init(j) ==
  IF j.jinit THEN j
  ELSE [Levels(Directions([j EXCEPT !.pio = FALSE, !.tck = 0, !.tms = 1, !.tdi = 0], TRUE),
               0, 1, 0) EXCEPT !.jinit = TRUE]

jtag_pulse(j, tms) ==
  Levels(Levels(Levels(j, j.tck, tms, 0), 1, tms, 0), 0, tms, 0)

jtag_tms_seq(j, bits) ==
  LET after[i \in 0..Len(bits)] == IF i = 0 THEN j ELSE jtag_pulse(after[i - 1], bits[i])
  IN  after[Len(bits)]

\* (mutant) one clock fewer than Test-Logic-Reset takes from Shift-DR
TlrSeqShort == <<1, 1, 1, 1>>
TlrSeq == <<1, 1, 1, 1, 1>>

\* The bits of the register, the last with TMS high.
ReadBit(s, last) == [j |-> jtag_pulse(s.j, IF last THEN 1 ELSE 0), id |-> Append(s.id, TDO(s.j))]
ReadId(j) ==
  LET after[i \in 0..Len(IdCode)] ==
        IF i = 0 THEN [j |-> j, id |-> <<>>] ELSE ReadBit(after[i - 1], i = Len(IdCode))
  IN  after[Len(IdCode)]
Park(r) == [r EXCEPT !.j = jtag_tms_seq(@, <<1, 0>> \o TlrSeq)]

\* The TAP it leaves behind and the bits it read.
jtag_read_idcode(j) == Park(ReadId(jtag_tms_seq(jtag_init(j), TlrSeq \o <<0, 1, 0, 0>>)))

(***************************************************************************)
(* The byte strings that fpga_config.c feeds to blaster_process.           *)
(***************************************************************************)
\* A clock is a byte with TCK low and one with TCK high.
Half(tms, tdi, i) == 32 + 2 * tms + 16 * tdi + ((i + 1) % 2)
Ticks(tms, n) == [i \in 1..2 * n |-> Half(tms, 0, i)]

\* (mutant) one clock fewer
jtag_resetShort == Ticks(1, 4) \o Ticks(0, 1)
jtag_reset == Ticks(1, 5) \o Ticks(0, 1)

tck_rti(n) == Ticks(0, n)

\* The last of the bits is clocked with TMS high, to leave Shift-IR or Shift-DR.
LastHigh(bits) ==
  [i \in 1..2 * Len(bits) |->
     Half(IF (i + 1) \div 2 = Len(bits) THEN 1 ELSE 0, bits[(i + 1) \div 2], i)]

scan_ir(fam, code) ==
  Ticks(1, 2) \o Ticks(0, 2) \o LastHigh(Bits(code, fam.ir)) \o Ticks(1, 1) \o Ticks(0, 1)

enter_shift_dr == Ticks(1, 1) \o Ticks(0, 2)
exit_shift_dr  == Ticks(1, 1) \o Ticks(0, 1)

\* Whole bytes go as shift commands of at most `most' (63) bytes each.
ShiftChunks(bytes, most) ==
  LET n == Len(bytes)
      size(k) == IF (k + 1) * most < n THEN most ELSE n - k * most
      at(i) == (i - 1) \div (most + 1)
  IN  [i \in 1..n + (n + most - 1) \div most |->
         IF (i - 1) % (most + 1) = 0 THEN 128 + size(at(i)) ELSE bytes[i - 1 - at(i)]]

=============================================================================
