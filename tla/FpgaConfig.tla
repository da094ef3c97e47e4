----------------------------- MODULE FpgaConfig -----------------------------
(***************************************************************************)
(* How the FPGA gets its core.  At power-on the supervisor copies the      *)
(* image of the card into its own flash if it changed (FpgaStage), then    *)
(* feeds it through the blaster engine (Blaster) into the FPGA's TAP.      *)
(* Later the same engine serves Quartus over USB, the console's F          *)
(* configures again, and J reads the IDCODE over the same wires.  On the   *)
(* Wukong board nothing is staged: the image is streamed from the card.    *)
(*                                                                         *)
(* Models fpga_config.c, the boot of main.c as far as it concerns the      *)
(* FPGA, the vendor (FTDI) endpoints of main.c, and the console's F and J. *)
(* The host, the card's owner and the mains are the environment, with      *)
(* MaxOps actions between them.                                            *)
(***************************************************************************)
EXTENDS Blaster, FpgaStage

CONSTANTS
  Packet,         \* bytes of a USB packet (64)
  ShiftMax,       \* data bytes of a shift command (63)
  ReadBuf,        \* bytes fpga_config_from_sd reads at a time (4096)
  ClearTicks,     \* clocks after the instruction that clears the FPGA (6000, 10000)
  QueuePackets,   \* packets the vendor OUT endpoint holds
  HostImages,     \* the images a host sends
  MaxOps          \* bound: actions of the environment, faults included

ASSUME FpgaAssumption ==
  /\ Packet \in 3..64 /\ ShiftMax \in 1..63 /\ ReadBuf \in Nat \ {0}
  /\ ClearTicks \in Nat /\ QueuePackets \in Nat \ {0} /\ MaxOps \in Nat
  /\ HostImages \subseteq Images

VARIABLES
  board,          \* which build of the firmware ("qmtech" | "wukong")
  phase,          \* where main is
  j,              \* the wires, the engine and the TAP: see Blaster
  flash,          \* the staging region
  card,           \* the file at the core's path and its time; 0: written by the firmware
  written,        \* bytes of it staged so far
  g_fpga_staged,
  script,         \* what the host has still to send
  queue,          \* packets in the OUT endpoint
  tx,             \* tx_buf without its two status bytes
  flight,         \* the IN packet the host has not read
  got,            \* what the host has read
  answers,        \* everything read back since the device was plugged in
  home,           \* history: what was on the card when staging last succeeded
  last,           \* history: the last thing the firmware did with the FPGA itself
  ops

vars == <<board, phase, j, flash, card, written, g_fpga_staged, script, queue, tx,
          flight, got, answers, home, last, ops>>
usb == <<script, queue, tx, flight, got, answers>>
stage == <<flash, written, g_fpga_staged, home>>

Files == DOMAIN FileBytes
NoCard == [file |-> "none", mtime |-> 0]
Size(file) == Len(FileBytes[file])
CardBytes == FileBytes[card.file]

Nothing == [op |-> "none"]
Configured(bytes, ok, clean) == [op |-> "config", bytes |-> bytes, ok |-> ok, clean |-> clean]
Identified(id, first) == [op |-> "idcode", id |-> id, first |-> first]

(***************************************************************************)
(* The byte strings that configure an FPGA.                                *)
(***************************************************************************)
AllButLast(bytes) == ShiftChunks(SubSeq(bytes, 1, Len(bytes) - 1), ShiftMax)
LastByte(bytes) == LastHigh(ByteBits[bytes[Len(bytes)]])

CycloneBytes(bytes) ==
  jtag_reset \o scan_ir(Cyclone, Cyclone.config) \o tck_rti(ClearTicks) \o enter_shift_dr
  \o AllButLast(bytes) \o LastByte(bytes) \o exit_shift_dr
  \o scan_ir(Cyclone, Cyclone.check) \o tck_rti(StartTicks)
  \o scan_ir(Cyclone, Cyclone.startup) \o tck_rti(StartTicks) \o scan_ir(Cyclone, Cyclone.bypass)

\* The CONF_DONE read: what TDO is when the TAP is back in Run-Test/Idle.
ReadConfDone == <<98>>

\* Gives the engine afterwards and what the function returns.
WithConfDone(r) == [j |-> r.j, ok |-> r.tx[1] = 1]
fpga_config_from_flash(m, bytes) ==
  WithConfDone(blaster_process(
    blaster_process(blaster_reset(m), CycloneBytes(bytes)).j, ReadConfDone))

reverse_byte(b) == BitsByte(Backwards(ByteBits[b]))

\* The stream of a .bit file, read ReadBuf bytes at a time; `good' of its bytes can be read.
Upto(bytes, n) == IF n < Len(bytes) THEN n ELSE Len(bytes)
Piece(bytes, k) == SubSeq(bytes, k * ReadBuf + 1, Upto(bytes, (k + 1) * ReadBuf))
SentPiece(piece, final) ==
  IF final THEN AllButLast(piece) \o LastByte(piece) ELSE ShiftChunks(piece, ShiftMax)
ArtixBody(bytes, good) ==
  LET reversed == [i \in 1..Len(bytes) |-> reverse_byte(bytes[i])]
      pieces == IF good < Len(bytes) THEN good \div ReadBuf
                ELSE (Len(bytes) + ReadBuf - 1) \div ReadBuf
      sent[k \in 0..pieces] ==
        IF k = 0 THEN <<>>
        ELSE sent[k - 1] \o SentPiece(Piece(reversed, k - 1), k * ReadBuf >= Len(bytes))
  IN  sent[pieces]

\* A read error leaves through exit_shift_dr.
ArtixBytes(bytes, good) ==
  jtag_reset \o scan_ir(Artix, Artix.program) \o tck_rti(ClearTicks) \o scan_ir(Artix, Artix.config)
  \o enter_shift_dr \o ArtixBody(bytes, good) \o exit_shift_dr
  \o IF good < Len(bytes) THEN <<>>
     ELSE scan_ir(Artix, Artix.startup) \o tck_rti(StartTicks) \o scan_ir(Artix, Artix.bypass)
          \o tck_rti(StartTicks) \o jtag_reset

\* A file without a data field fails before anything reaches the wires.
fpga_config_from_sd(m, bytes, good) ==
  IF bytes = <<>> THEN [j |-> m, ok |-> FALSE]
  ELSE [j |-> blaster_process(blaster_reset(m), ArtixBytes(bytes, good)).j,
        ok |-> good = Len(bytes)]

(***************************************************************************)
(* Start of main.                                                          *)
(***************************************************************************)
Init ==
  /\ board \in {"qmtech", "wukong"}
  /\ \E pioOk \in BOOLEAN : j = PoweredOn(board, pioOk)
  /\ phase = IF board = "wukong" THEN "stream" ELSE "stage"
  /\ flash = ErasedFlash
  /\ card \in {NoCard} \union [file : Files, mtime : {0}]
  /\ written = 0 /\ g_fpga_staged = 0 /\ home = NoCard /\ last = Nothing
  /\ script = <<>> /\ queue = <<>> /\ tx = <<>> /\ flight = <<>>
  /\ got = <<>> /\ answers = <<>>
  /\ ops = 0

\* No card could be mounted within the deadline, or the configuration names no core.
StageSkipped ==
  /\ phase = "stage" /\ ops < MaxOps
  /\ phase' = "config" /\ ops' = ops + 1
  /\ UNCHANGED <<board, j, card, stage, usb, last>>

\* fpga_stage_if_changed: a path to no file keeps what is staged.
StageCheck ==
  /\ phase = "stage"
  /\ IF card = NoCard
     THEN phase' = "config" /\ g_fpga_staged' = fpga_staged_len(flash)
     ELSE IF Unchanged(flash, Size(card.file), card.mtime)
     THEN phase' = "config" /\ g_fpga_staged' = Size(card.file)
     ELSE /\ phase' = IF Size(card.file) \in 1..StageMax THEN "erase" ELSE "config"
          /\ g_fpga_staged' = 0
  /\ UNCHANGED <<board, j, card, usb, ops, flash, written, home, last>>

StageErase ==
  /\ phase = "erase"
  /\ flash' = Erase(flash, Size(card.file))
  /\ phase' = "program" /\ written' = 0 /\ home' = NoCard
  /\ UNCHANGED <<board, j, card, g_fpga_staged, usb, ops, last>>

\* The bytes of the next sector; the rest of its last page is programmed with erased bytes.
NextSector == SubSeq(CardBytes, written + 1, Upto(CardBytes, written + FlashSector))

StageSector ==
  /\ phase = "program" /\ written < Size(card.file)
  /\ flash' = Program(flash, written, NextSector)
  /\ written' = written + Len(NextSector)
  /\ UNCHANGED <<board, phase, j, card, g_fpga_staged, home, usb, ops, last>>

\* A read error: fpga_stage_rbf returns 0.
StageReadFails ==
  /\ phase = "program" /\ written < Size(card.file) /\ ops < MaxOps
  /\ phase' = "config" /\ ops' = ops + 1
  /\ UNCHANGED <<board, j, card, stage, usb, last>>

StageHeader ==
  /\ phase = "program" /\ written = Size(card.file)
  /\ flash' = ProgramHeader(flash, Size(card.file), Sum(CardBytes), card.mtime)
  /\ g_fpga_staged' = Size(card.file) /\ home' = card
  /\ phase' = "config"
  /\ UNCHANGED <<board, j, card, written, usb, ops, last>>

\* Up to two attempts to configure; the pins are left idle before the main loop.
TryAgain(first, bytes) == IF first.ok THEN first ELSE fpga_config_from_flash(first.j, bytes)
ConfigureDone(r, bytes, clean) ==
  j' = blaster_reset(r.j) /\ last' = Configured(bytes, r.ok, clean)
Configure ==
  /\ phase = "config"
  /\ phase' = "run"
  /\ IF g_fpga_staged = 0
     THEN j' = blaster_reset(j) /\ UNCHANGED last
     ELSE ConfigureDone(TryAgain(fpga_config_from_flash(j, Staged(flash)), Staged(flash)),
                        Staged(flash), ~j.pio)
  /\ UNCHANGED <<board, card, stage, usb, ops>>

\* How much of the image can be read: all of it, or less if the card fails.
Readable(b) ==
  {Len(b)} \union (IF ops < MaxOps THEN {k * ReadBuf : k \in 0..((Len(b) - 1) \div ReadBuf)} ELSE {})
Faults(good) == ops' = ops + (IF good < Size(card.file) THEN 1 ELSE 0)

\* The Wukong streams instead.
Stream ==
  /\ phase = "stream"
  /\ phase' = "run"
  /\ IF card = NoCard
     THEN j' = blaster_reset(j) /\ UNCHANGED <<ops, last>>
     ELSE \E good \in Readable(CardBytes) :
            /\ ConfigureDone(fpga_config_from_sd(j, CardBytes, good), CardBytes, ~j.pio)
            /\ Faults(good)
  /\ UNCHANGED <<board, card, stage, usb>>

(***************************************************************************)
(* The main loop: USB host, console, card.                                 *)
(***************************************************************************)
Env == phase = "run" /\ ops < MaxOps /\ ops' = ops + 1 /\ UNCHANGED <<board, phase>>

Packets(bytes) ==
  [k \in 1..((Len(bytes) + Packet - 1) \div Packet) |->
     SubSeq(bytes, (k - 1) * Packet + 1, Upto(bytes, k * Packet))]

\* What a host does with a blaster: read the IDCODE and beyond, or configure an image.
ReadData == Packet - 1
ReadSession ==
  jtag_reset \o enter_shift_dr \o <<192 + ReadData>> \o [i \in 1..ReadData |-> 2 * i] \o <<193, 0>>
SendImage(img) ==
  IF board = "wukong" THEN ArtixBytes(FileBytes[img], Size(img)) ELSE CycloneBytes(FileBytes[img])

\* A host opens the device, which may break off the work of another one:
\* FTDI_SIO_RESET resets the engine, what is queued or read back stays.
HostOpen ==
  /\ Env
  /\ \/ script' = Packets(ReadSession)
     \/ \E img \in HostImages : script' = Packets(SendImage(img))
  /\ j' = blaster_reset(j) /\ last' = Nothing
  /\ UNCHANGED <<card, stage, queue, tx, flight, got, answers>>

HostSend ==
  /\ phase = "run" /\ script # <<>> /\ Len(queue) < QueuePackets
  /\ queue' = Append(queue, Head(script))
  /\ script' = Tail(script)
  /\ UNCHANGED <<board, phase, j, card, stage, tx, flight, got, answers, ops, last>>

HostRead ==
  /\ flight # <<>>
  /\ got' = got \o flight /\ flight' = <<>>
  /\ UNCHANGED <<board, phase, j, card, stage, script, queue, tx, answers, ops, last>>

\* The device is unplugged from the host (not from its power).
Unplug ==
  /\ Env /\ (script # <<>> \/ queue # <<>> \/ tx # <<>> \/ flight # <<>>)
  /\ script' = <<>> /\ queue' = <<>> /\ tx' = <<>> /\ flight' = <<>>
  /\ got' = <<>> /\ answers' = <<>>
  /\ UNCHANGED <<j, card, stage, last>>

\* Whether there is room in tx_buf for the answers to another packet.
\* (mutant) not looked at.
RoomIgnored(buf) == TRUE
Room(buf) == Len(buf) <= Packet

\* The loop of blaster_vendor_task: the state after the first i packets were looked at.
Took(s, r) == [j |-> r.j, tx |-> s.tx \o r.tx, left |-> Tail(s.left), new |-> s.new \o r.tx]
TakePacket(s) == IF Room(s.tx) THEN Took(s, blaster_process(s.j, Head(s.left))) ELSE s
TakePackets ==
  LET after[i \in 0..Len(queue)] ==
        IF i = 0 THEN [j |-> j, tx |-> tx, left |-> queue, new |-> <<>>] ELSE TakePacket(after[i - 1])
  IN  after[Len(queue)]

\* What stays behind a packet of n bytes moves to the front.  The code says memcpy
\* (main.c:1022), which is undefined when the two ranges overlap, as they do once more
\* than n bytes stay: this is what a copy from the front upwards gives.
\* (mutant) it stays where it is.
KeepUnmoved(buf, n) == SubSeq(buf, 1, Len(buf) - n)
Keep(buf, n) == SubSeq(buf, n + 1, Len(buf))

\* An IN packet goes out once the one before it has been read; an empty one carries only
\* the status bytes and is not modelled.
SendPacket(s, n) ==
  /\ s.left # queue \/ (flight = <<>> /\ n > 0)
  /\ j' = s.j /\ queue' = s.left /\ answers' = answers \o s.new
  /\ last' = IF s.left = queue THEN last ELSE Nothing
  /\ IF flight = <<>>
     THEN flight' = SubSeq(s.tx, 1, n) /\ tx' = Keep(s.tx, n)
     ELSE tx' = s.tx /\ UNCHANGED flight

SentNow(s) == SendPacket(s, Upto(s.tx, Packet - 2))
blaster_vendor_task ==
  /\ phase = "run"
  /\ SentNow(TakePackets)
  /\ UNCHANGED <<board, phase, card, stage, script, got, ops>>

\* The console's F.
Again(r, bytes) == j' = r.j /\ last' = Configured(bytes, r.ok, ~j.pio)
F ==
  /\ Env
  /\ IF board = "wukong"
     THEN /\ card # NoCard
          /\ \E good \in Readable(CardBytes) : Again(fpga_config_from_sd(j, CardBytes, good), CardBytes)
     ELSE /\ fpga_staged_len(flash) > 0
          /\ Again(fpga_config_from_flash(j, Staged(flash)), Staged(flash))
  /\ UNCHANGED <<card, stage, usb>>

\* The console's J.
Read(r) == j' = r.j /\ last' = Identified(r.id, ~j.jinit)
J ==
  /\ Env
  /\ Read(jtag_read_idcode(j))
  /\ UNCHANGED <<card, stage, usb>>

\* Another file at the core's path: the firmware writes it (upload, push) with a constant
\* time, a computer with its own time, later than any before.
NewImage ==
  /\ Env
  /\ \E file \in Files, t \in {0, ops + 2} :
       /\ card' = [file |-> file, mtime |-> t]
       /\ card' # card
  /\ UNCHANGED <<j, stage, usb, last>>

RemoveImage ==
  /\ Env /\ card # NoCard
  /\ card' = NoCard
  /\ UNCHANGED <<j, stage, usb, last>>

(***************************************************************************)
(* The supervisor starts again: with the whole board, in the middle of     *)
(* anything, or alone while the FPGA stays on.                             *)
(***************************************************************************)
Restart ==
  /\ ops < MaxOps /\ ops' = ops + 1
  /\ j' \in {Restarted(j), PoweredOn(board, j.pioOk)}
  /\ flash' \in CASE phase = "erase" -> TornErase(flash, Size(card.file))
                  [] phase = "program" /\ written < Size(card.file) ->
                       TornProgram(flash, written, NextSector)
                  [] OTHER -> {flash}
  /\ phase' = IF board = "wukong" THEN "stream" ELSE "stage"
  /\ home' = IF phase = "erase" THEN NoCard ELSE home
  /\ g_fpga_staged' = 0 /\ written' = 0 /\ last' = Nothing
  /\ script' = <<>> /\ queue' = <<>> /\ tx' = <<>> /\ flight' = <<>>
  /\ got' = <<>> /\ answers' = <<>>
  /\ UNCHANGED <<board, card>>

Next ==
  \/ StageSkipped \/ StageCheck \/ StageErase \/ StageSector \/ StageReadFails \/ StageHeader
  \/ Configure \/ Stream
  \/ HostOpen \/ HostSend \/ HostRead \/ Unplug \/ blaster_vendor_task
  \/ F \/ J \/ NewImage \/ RemoveImage \/ Restart

Spec == Init /\ [][Next]_vars

(***************************************************************************)
(* Properties.                                                             *)
(***************************************************************************)
\* The answers waiting in tx_buf never outgrow it.
TypeOK ==
  /\ phase \in {"stage", "erase", "program", "stream", "config", "run"}
  /\ card \in {NoCard} \union [file : Files, mtime : 0..(MaxOps + 1)]
  /\ written \in 0..StageMax /\ g_fpga_staged \in 0..StageMax
  /\ Len(tx) <= 2 * Packet /\ Len(queue) <= QueuePackets /\ Len(flight) <= Packet - 2
  /\ j.core \in {Blank, Factory} \union Images /\ j.left \in 0..63
  /\ ops \in 0..MaxOps

\* Whatever the host asked to read back reaches it once and in order, however the packets
\* of the two directions interleave.
ReadbackInOrder == answers = got \o flight \o tx

\* What the region's header vouches for is a whole file that was on the card, whenever the
\* power failed while it was erased or programmed.
StagedIsWhole ==
  fpga_staged_len(flash) # 0 => \E file \in Files : Staged(flash) = FileBytes[file]

\* The core about to be configured is the one on the card, if its file has a time of its own.
StagedIsNewest ==
  (phase = "config" /\ g_fpga_staged # 0 /\ card # NoCard /\ card.mtime # 0)
    => Staged(flash) = CardBytes

\* Flash is not worn: the region is not erased for the file it was last staged from.
NoNeedlessErase == [][phase = "erase" /\ phase' = "program" => home # card]_vars

\* An image shifted into the FPGA runs: of every configuration that starts with the pins in
\* the hands of the bit-banger and whose bytes are an image, whatever was in the FPGA before
\* and wherever a host left its TAP, what the FPGA runs afterwards is that image.  Nothing is
\* said of bytes that are no image: main.c:1122-1123 has them leave the EPCS bitstream
\* running, and they do not (README, "What the passing runs leave open").
FileRun(bytes) == {img \in Images : FileBytes[img] = bytes}
FlashConfigures ==
  (last.op = "config" /\ last.ok /\ last.clean /\ FileRun(last.bytes) # {})
    => j.core \in FileRun(last.bytes)

\* The first IDCODE read after a restart is the FPGA's, wherever its TAP was left.
FirstIdcodeGenuine == (last.op = "idcode" /\ last.first) => last.id = IdCode
=============================================================================
