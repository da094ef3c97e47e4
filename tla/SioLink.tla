------------------------------- MODULE SioLink -------------------------------
(***************************************************************************)
(* The SIO disk path: the Atari's serial port, the SioBridge in the FPGA   *)
(* (SioBridge.scala: tagged RX FIFO, TX FIFO, serializer) and the disk     *)
(* emulator in the supervisor (sio.c: sio_poll and its command handlers),  *)
(* which reaches the bridge one register access at a time over SPI.        *)
(*                                                                         *)
(* Every step is one register access of the supervisor, one byte on the    *)
(* serial line, an edge of COMMAND, or the machine's reset going on or     *)
(* off.  A serial byte is named by the command frame it belongs to and its *)
(* place in it; what a frame asks for matters only once the firmware has   *)
(* assembled it, so it is chosen there.                                    *)
(***************************************************************************)
EXTENDS Naturals, Sequences

CONSTANTS
  FrameLen,     \* bytes of a command frame (5)
  RxDepth,      \* entries of the RX FIFO (16)
  TxDepth,      \* entries of the TX FIFO (16)
  Drives,       \* D1: .. D4:
  OtherDevice,  \* any device id that is not a drive's
  SectorLens,   \* lengths a sector can have (128, 256)
  MaxFrames,    \* bound: command frames the Atari begins
  MaxResets     \* bound: machine resets

ASSUME SioAssumption ==
  /\ FrameLen \in Nat /\ FrameLen > 1
  /\ RxDepth \in Nat /\ RxDepth >= FrameLen
  /\ TxDepth \in Nat \ {0}
  /\ OtherDevice \notin Drives
  /\ SectorLens \subseteq Nat
  /\ MaxFrames \in Nat
  /\ MaxResets \in Nat

VARIABLES
  \* the Atari and the line
  cmdLow,       \* COMMAND is asserted (low)
  frames,       \* command frames begun so far
  \* SioBridge
  held,         \* the machine, SioBridge included, is held in reset
  resets,       \* resets so far
  cmdByteCount, \* index the next received byte is tagged with
  rx,           \* RX FIFO: [idx, f] per byte, f the frame it was sent in
  tx,           \* TX FIFO
  p2s,          \* the byte in the serializer: <<>> or <<byte>>
  txEnable,     \* txEnableReg
  \* sio.c
  mounted,      \* the drives with an image
  pc,           \* where the firmware is in sio_poll
  total,        \* entries drained by this sio_poll
  frame,        \* the assembled bytes, each by the frame it was sent in
  todo,         \* bytes of the answer not yet written to TX_DATA
  \* history
  arrived,      \* bytes received since this drain's first pop
  served,       \* the frame last answered
  heard         \* bytes the serializer has put on the line for this answer

line  == <<cmdLow, frames, cmdByteCount>>
txv   == <<tx, p2s, txEnable>>
ghost == <<arrived, served, heard>>
sw    == <<mounted, pc, total, frame, todo>>
vars  == <<line, held, resets, rx, txv, sw, ghost>>

-----------------------------------------------------------------------------
(* The bytes of an answer, and the answers sio.c gives. *)

Byte == {"ack", "nak", "complete", "error", "data", "sum"}

Data(n) == [i \in 1 .. n |-> "data"]
Block(n) == <<"ack", "complete">> \o Data(n) \o <<"sum">>

Commands == [dev   : Drives \cup {OtherDevice},
             kind  : {"read", "status", "speed", "other"},
             sumOk : BOOLEAN]

\* The sector's number, or the file under it, may be bad: then ERROR.
ReadAnswers == {<<"ack", "error">>} \cup {Block(n) : n \in SectorLens}

\* What the handler chosen by the dispatch of sio_poll sends, <<>> when the
\* frame is not for a mounted drive.
AnswersTo(c) ==
  CASE c.dev \notin mounted -> {<<>>}
    [] c.dev \in mounted /\ ~c.sumOk -> {<<"nak">>}
    [] c.dev \in mounted /\ c.sumOk /\ c.kind = "read" -> ReadAnswers
    [] c.dev \in mounted /\ c.sumOk /\ c.kind = "status" -> {Block(4)}
    [] c.dev \in mounted /\ c.sumOk /\ c.kind = "speed" -> {Block(1)}
    [] OTHER -> {<<"nak">>}

SentAnswers == ReadAnswers \cup {<<"nak">>, Block(4), Block(1)}

\* Mutant of RawLen: room for more entries than the FIFO holds.
RawLenLong == RxDepth + 2

\* raw[16]: as many entries as the RX FIFO holds.
RawLen == RxDepth

-----------------------------------------------------------------------------
(* The Atari and the receiving half of the bridge. *)

\* One pass of the drain loop (two register reads, 0.49 ms on the 1 MHz SPI
\* link) is shorter than a byte on the line (10 bits at 19200 baud, 0.52 ms),
\* so from a drain's first pop on, no more bytes arrive than have been popped.
DrainKeepsUp == pc = "drain" /\ total > 0 => arrived < total

\* Mutant of RxPush: pushed into a full FIFO as well.
RxPushBlind(idx) ==
  /\ DrainKeepsUp
  /\ rx' = Append(rx, [idx |-> idx, f |-> frames])
  /\ arrived' = IF pc = "drain" /\ total > 0 THEN arrived + 1 ELSE 0

\* A received byte is pushed with the current index; a full FIFO drops it.
RxPush(idx) ==
  /\ DrainKeepsUp
  /\ rx' = IF Len(rx) < RxDepth THEN Append(rx, [idx |-> idx, f |-> frames]) ELSE rx
  /\ arrived' = IF pc = "drain" /\ total > 0 THEN arrived + 1 ELSE 0

\* COMMAND falls: a command frame begins.
CommandFall ==
  /\ ~held /\ ~cmdLow
  /\ frames < MaxFrames
  /\ cmdLow' = TRUE
  /\ frames' = frames + 1
  /\ cmdByteCount' = 0
  /\ UNCHANGED <<held, resets, rx, txv, sw, ghost>>

\* A byte of the command frame; the index counts it even if the FIFO drops it.
CommandByte ==
  /\ ~held /\ cmdLow
  /\ cmdByteCount < FrameLen
  /\ RxPush(cmdByteCount)
  /\ cmdByteCount' = cmdByteCount + 1
  /\ UNCHANGED <<cmdLow, frames, held, resets, txv, sw, served, heard>>

\* COMMAND rises, after the whole frame or when the Atari gives it up.
CommandRise ==
  /\ cmdLow
  /\ cmdLow' = FALSE
  /\ UNCHANGED <<frames, cmdByteCount, held, resets, rx, txv, sw, ghost>>

\* A byte of a data frame that follows a whole command frame (a write):
\* COMMAND is high, so the index stays where the command frame left it.
DataByte ==
  /\ ~held /\ ~cmdLow
  /\ cmdByteCount = FrameLen
  /\ RxPush(cmdByteCount)
  /\ UNCHANGED <<line, held, resets, txv, sw, served, heard>>

-----------------------------------------------------------------------------
(* The sending half of the bridge. *)

\* The idle serializer takes the next byte of the TX FIFO, if enabled.
SerializerLoad ==
  /\ txEnable /\ p2s = <<>> /\ tx # <<>>
  /\ p2s' = <<Head(tx)>>
  /\ tx' = Tail(tx)
  /\ UNCHANGED <<line, held, resets, rx, txEnable, sw, ghost>>

\* It has shifted its byte out: the Atari hears it if the output is gated on.
SerializerDone ==
  /\ p2s # <<>>
  /\ heard' = IF txEnable THEN heard \o p2s ELSE heard
  /\ p2s' = <<>>
  /\ UNCHANGED <<line, held, resets, rx, tx, txEnable, sw, arrived, served>>

-----------------------------------------------------------------------------
(* The machine's reset: the console button, or F8 and the control frame by  *)
(* way of rpHold.  It clears the bridge and stops the Atari; the supervisor *)
(* runs on.  While it lasts a register reads 0 and a write is lost.         *)

Reset ==
  /\ ~held
  /\ resets < MaxResets
  /\ held' = TRUE
  /\ resets' = resets + 1
  /\ cmdLow' = FALSE
  /\ cmdByteCount' = 0
  /\ rx' = <<>>
  /\ tx' = <<>>
  /\ p2s' = <<>>
  /\ txEnable' = FALSE
  /\ UNCHANGED <<frames, sw, ghost>>

Release ==
  /\ held
  /\ held' = FALSE
  /\ UNCHANGED <<line, resets, rx, txv, sw, ghost>>

-----------------------------------------------------------------------------
(* sio.c.  The main loop calls sio_poll while a drive is mounted; boot_run  *)
(* mounts and unmounts between two calls.                                   *)

\* sio_mount: a mounted image is closed first; opening the new one may fail.
Mount ==
  /\ pc = "idle"
  /\ \E d \in Drives : mounted' \in {mounted \cup {d}, mounted \ {d}}
  /\ UNCHANGED <<line, held, resets, rx, txv, pc, total, frame, todo, ghost>>

UnmountAll ==
  /\ pc = "idle"
  /\ mounted' = {}
  /\ UNCHANGED <<line, held, resets, rx, txv, pc, total, frame, todo, ghost>>

\* RX_STATUS shows a frame's worth of entries: drain the FIFO.
PollBegin ==
  /\ pc = "idle" /\ mounted # {}
  /\ ~held /\ Len(rx) >= FrameLen
  /\ pc' = "drain"
  /\ total' = 0
  /\ frame' = <<>>
  /\ UNCHANGED <<line, held, resets, rx, txv, mounted, todo, ghost>>

\* The frame after one more raw entry: index 0 starts it afresh, the index
\* it is waiting for extends it, any other entry is passed over.
Assemble(e) ==
  IF e.idx = 0 THEN <<e.f>>
  ELSE IF frame # <<>> /\ e.idx = Len(frame) /\ Len(frame) < FrameLen
       THEN Append(frame, e.f)
       ELSE frame

\* One pass of the drain loop: the FIFO is not empty, its head is popped.
\* The loop over raw that assembles the frame takes the entries in the order
\* they were popped and touches nothing else, so its passes are joined to
\* the pops.
DrainPop ==
  /\ pc = "drain" /\ total < RawLen
  /\ ~held /\ rx # <<>>
  /\ rx' = Tail(rx)
  /\ total' = total + 1
  /\ frame' = Assemble(Head(rx))
  /\ arrived' = IF total = 0 THEN 0 ELSE arrived
  /\ UNCHANGED <<line, held, resets, txv, mounted, pc, todo, served, heard>>

\* A pass while the bridge is held in reset: RX_STATUS reads 0, not empty,
\* and RX_DATA reads 0, an entry of index 0 that belongs to no frame.
DrainZero ==
  /\ pc = "drain" /\ total < RawLen
  /\ held
  /\ total' = total + 1
  /\ frame' = Assemble([idx |-> 0, f |-> 0])
  /\ arrived' = IF total = 0 THEN 0 ELSE arrived
  /\ UNCHANGED <<line, held, resets, rx, txv, mounted, pc, todo, served, heard>>

DrainDone ==
  /\ pc = "drain"
  /\ total = RawLen \/ (~held /\ rx = <<>>)

\* No whole frame among the entries: they are gone, sio_poll returns.
PollNothing ==
  /\ DrainDone
  /\ Len(frame) < FrameLen
  /\ pc' = "idle"
  /\ UNCHANGED <<line, held, resets, rx, txv, mounted, total, frame, todo, ghost>>

\* A whole frame: pick the handler, or return if the frame is not for us.
Dispatch ==
  /\ DrainDone
  /\ Len(frame) = FrameLen
  /\ \E c \in Commands : todo' \in AnswersTo(c)
  /\ pc' = IF todo' = <<>> THEN "idle" ELSE "enable"
  /\ served' = IF todo' = <<>> THEN served ELSE frame[1]
  /\ heard' = <<>>
  /\ UNCHANGED <<line, held, resets, rx, txv, mounted, total, frame, arrived>>

\* Mutant of TxEnable: the enable bit is left as it was.
TxEnableSkipped ==
  /\ pc = "enable"
  /\ pc' = "send"
  /\ UNCHANGED <<line, held, resets, rx, txv, mounted, total, frame, todo, ghost>>

\* tx_enable, after the T2 delay.
TxEnable ==
  /\ pc = "enable"
  /\ txEnable' = ~held
  /\ pc' = "send"
  /\ UNCHANGED <<line, held, resets, rx, tx, p2s, mounted, total, frame, todo, ghost>>

\* tx_byte: wait for TX_STATUS to show room, write TX_DATA.
TxByte ==
  /\ pc = "send" /\ todo # <<>>
  /\ held \/ Len(tx) < TxDepth
  /\ tx' = IF held THEN tx ELSE Append(tx, Head(todo))
  /\ todo' = Tail(todo)
  /\ UNCHANGED <<line, held, resets, rx, p2s, txEnable, mounted, pc, total, frame, ghost>>

\* tx_wait_done: first the TX FIFO empty, then the serializer idle.
TxFifoEmpty ==
  /\ pc = "send" /\ todo = <<>>
  /\ ~held /\ tx = <<>>
  /\ pc' = "busy"
  /\ UNCHANGED <<line, held, resets, rx, txv, mounted, total, frame, todo, ghost>>

\* Mutant of TxIdle: the byte in the serializer is not waited for.
TxIdleEarly ==
  /\ pc = "busy"
  /\ pc' = "disable"
  /\ UNCHANGED <<line, held, resets, rx, txv, mounted, total, frame, todo, ghost>>

TxIdle ==
  /\ pc = "busy"
  /\ held \/ p2s = <<>>
  /\ pc' = "disable"
  /\ UNCHANGED <<line, held, resets, rx, txv, mounted, total, frame, todo, ghost>>

\* tx_disable, and sio_poll returns.
TxDisable ==
  /\ pc = "disable"
  /\ txEnable' = FALSE
  /\ pc' = "idle"
  /\ UNCHANGED <<line, held, resets, rx, tx, p2s, mounted, total, frame, todo, ghost>>

-----------------------------------------------------------------------------
Init ==
  /\ cmdLow = FALSE /\ frames = 0 /\ cmdByteCount = 0
  /\ held = FALSE /\ resets = 0
  /\ rx = <<>> /\ tx = <<>> /\ p2s = <<>> /\ txEnable = FALSE
  /\ mounted = {}
  /\ pc = "idle" /\ total = 0 /\ frame = <<>> /\ todo = <<>>
  /\ arrived = 0 /\ served = 0 /\ heard = <<>>

Atari == CommandFall \/ CommandByte \/ CommandRise \/ DataByte
Serializer == SerializerLoad \/ SerializerDone
Poll == \/ PollBegin \/ DrainPop \/ DrainZero \/ PollNothing \/ Dispatch
        \/ TxEnable \/ TxByte \/ TxFifoEmpty \/ TxIdle \/ TxDisable

Next == Atari \/ Serializer \/ Reset \/ Release \/ Mount \/ UnmountAll \/ Poll

Spec == Init /\ [][Next]_vars

\* The baud generator and the supervisor's main loop never stop, and a reset
\* is let go of.  The Atari owes nobody a byte.
Fairness == WF_vars(Serializer) /\ WF_vars(Poll) /\ WF_vars(Release)

FairSpec == Spec /\ Fairness

-----------------------------------------------------------------------------
Entry == [idx : 0 .. FrameLen, f : Nat]

\* The FIFOs stay within their depths and the variables within their types.
TypeOK ==
  /\ cmdLow \in BOOLEAN /\ frames \in Nat /\ cmdByteCount \in 0 .. FrameLen
  /\ held \in BOOLEAN /\ resets \in Nat
  /\ rx \in Seq(Entry) /\ Len(rx) <= RxDepth
  /\ tx \in Seq(Byte) /\ Len(tx) <= TxDepth
  /\ p2s \in Seq(Byte) /\ Len(p2s) <= 1
  /\ txEnable \in BOOLEAN
  /\ mounted \subseteq Drives
  /\ pc \in {"idle", "drain", "enable", "send", "busy", "disable"}
  /\ total \in 0 .. RawLen
  /\ frame \in Seq(Nat) /\ Len(frame) <= FrameLen
  /\ todo \in Seq(Byte)
  /\ arrived \in Nat /\ served \in Nat
  /\ heard \in Seq(Byte)

\* The bytes sio_poll assembles into one command frame were all sent in one
\* command frame, although the FIFO drops bytes when it is full and an entry
\* carries only its index.
NoForgedFrame == \A i, j \in DOMAIN frame : frame[i] = frame[j]

\* sio_poll, once it has begun to drain, returns to the main loop.
PollReturns == (pc # "idle") ~> (pc = "idle")

\* It does whenever the machine is not reset: none of the three loops it spins
\* in waits for ever.
PollReturnsUnlessReset == [](resets = 0) => PollReturns

\* sio_poll and the bridge together are the disk service of SioService: the
\* frames are answered in the order they were sent, none twice, and each
\* answer is heard whole unless the machine is reset under it.
Answering == pc = "enable" \/ (pc \in {"send", "busy", "disable"} /\ txEnable)

Service == INSTANCE SioService WITH
  Answers <- SentAnswers,
  sent    <- frames,
  answer  <- IF Answering THEN heard \o p2s \o tx \o todo ELSE <<>>,
  heard   <- IF Answering THEN heard ELSE <<>>,
  down    <- held

ServiceSpec == Service!Spec

-----------------------------------------------------------------------------
(* The inductive invariant. *)

\* Byte b can be received some time after byte a with no byte of a frame
\* between them lost but the tail of one that was given up.
CanFollow(a, b) ==
  \/ b.idx = 0 /\ b.f > a.f
  \/ b.idx = a.idx + 1 /\ b.f = a.f
  \/ b.idx = FrameLen /\ a.idx = FrameLen /\ b.f = a.f

\* The byte the bridge receives next, whenever that is, can follow a.
LineFollows(a) ==
  /\ a.f <= frames
  /\ cmdByteCount > 0 => CanFollow(a, [idx |-> cmdByteCount, f |-> frames])
  /\ cmdByteCount = 0 /\ cmdLow => a.f < frames

Popped == IF pc = "drain" THEN total ELSE 0

\* Counted from the first entry of the drain (or, outside one, from the head
\* of the FIFO), bytes are missing after entry RxDepth at most: a full FIFO
\* drops bytes only before the first pop, and by then it holds RxDepth.
GapsAtDepth ==
  /\ \A i \in 1 .. Len(rx) - 1 : Popped + i # RxDepth => CanFollow(rx[i], rx[i + 1])
  /\ rx # <<>> /\ Popped + Len(rx) # RxDepth => LineFollows(rx[Len(rx)])

\* A drain frees the places the arriving bytes take.
DrainCredit ==
  pc = "drain" /\ total > 0 => arrived <= total /\ Len(rx) + total <= RxDepth + arrived

\* A frame still being assembled waits for the very byte that comes next.
PendingFrame ==
  pc = "drain" /\ total < RawLen /\ frame # <<>> /\ Len(frame) < FrameLen =>
    LET last == [idx |-> Len(frame) - 1, f |-> frame[Len(frame)]]
    IN IF rx = <<>> THEN LineFollows(last) ELSE CanFollow(last, rx[1])

\* A machine held in reset sends and receives nothing.
HeldIsQuiet ==
  held => /\ ~cmdLow /\ cmdByteCount = 0
          /\ rx = <<>> /\ tx = <<>> /\ p2s = <<>> /\ ~txEnable

\* Frame g is over before the byte e: e is of a later frame, or a byte of g
\* that does not begin it.
Before(g, e) == g <= e.f /\ (e.idx = 0 => g < e.f)

\* The line is in a frame after g, or in g past its first byte.
BeforeLine(g) == g <= frames /\ (cmdLow /\ cmdByteCount = 0 => g < frames)

\* Bytes stay in the order they were sent, through the FIFO, the frame being
\* assembled and the frames answered.
FramesInOrder ==
  /\ cmdLow \/ cmdByteCount > 0 => frames > 0
  /\ \A i \in 1 .. Len(rx) : rx[i].f > 0 /\ BeforeLine(rx[i].f) /\ Before(served, rx[i])
  /\ \A i, j \in 1 .. Len(rx) : i < j => Before(rx[i].f, rx[j])
  /\ BeforeLine(served)
  /\ \A k \in 1 .. Len(frame) : BeforeLine(frame[k])
  /\ pc = "drain" =>
       /\ \A k \in 1 .. Len(frame), i \in 1 .. Len(rx) : Before(frame[k], rx[i])
       /\ frame = <<>> \/ frame = <<0>> \/ frame[1] > served

\* Nothing of an answer is left in the bridge when the next one begins.
AnswerStages ==
  /\ pc \in {"idle", "drain", "enable"} => tx = <<>> /\ p2s = <<>> /\ ~txEnable
  /\ pc \in {"busy", "disable"} => tx = <<>> /\ todo = <<>>
  /\ pc = "disable" => p2s = <<>>
  /\ ~txEnable => p2s = <<>>
  /\ pc = "enable" => heard = <<>> /\ Len(frame) = FrameLen
  /\ Answering => heard \o p2s \o tx \o todo \in SentAnswers

IInv ==
  /\ TypeOK /\ NoForgedFrame
  /\ GapsAtDepth /\ DrainCredit /\ PendingFrame
  /\ HeldIsQuiet /\ FramesInOrder /\ AnswerStages
=============================================================================
