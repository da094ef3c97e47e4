----------------------------- MODULE VideoFbWrite -----------------------------
(***************************************************************************)
(* VideoFbWrite.scala: captures the Atari's picture into one of three       *)
(* buffers in SDRAM, row by row, four pixels (a quad) at a time. Quads are  *)
(* queued with their address; the drain side joins quads of consecutive     *)
(* addresses into one wide write, and writes what it cannot join singly.    *)
(*                                                                          *)
(* The colours are left out: what a cell holds is only compared with the    *)
(* place it was captured for. "new" is a quad of the capture its buffer had *)
(* last, "old" of an earlier one, "black" of the clearing sweep, "bad" of a *)
(* capture that did not begin at a vertical sync.                           *)
(***************************************************************************)
EXTENDS Naturals, Sequences, SdramArbiter

CONSTANTS
  SrcH,       \* rows of a buffer (288)
  RowQuads,   \* quads of a row (96)
  BatchLen,   \* quads of a wide access (8)
  FifoDepth,  \* entries of the queue (512)
  XStart,     \* hStart: the first quad captured of a row (1)
  VSkip,      \* vSkip: lines skipped after a vertical sync (21)
  CoreLines   \* bound: lines of the core where the sweep ends, the menu opens and closes

ASSUME WriterAssumption ==
  /\ SrcH \in Nat \ {0} /\ FifoDepth \in Nat \ {0} /\ VSkip \in Nat
  /\ BatchLen \in Nat \ {0} /\ RowQuads \in Nat \ {0} /\ RowQuads % BatchLen = 0
  /\ XStart \in 0 .. RowQuads - 1
  /\ CoreLines \subseteq 0 .. VSkip + SrcH

Buffers == 0 .. 2
Rows    == 0 .. SrcH - 1
Quads   == 0 .. RowQuads - 1
Tags    == {"black", "new", "old", "bad"}

VARIABLES
  mem,        \* the three buffers in SDRAM
  ready,      \* reset_client_n of the SDRAM controller
  menu,       \* supDisplay: the supervisor's screen is shown
  x, y, skipCnt, armed, clearing, clearBuf, writeBuf, readyBuf,
  fifo,
  batch,      \* batch(0 .. batchCnt - 1): the quads, each with its address
  flushing, flushIdx,
  flight,     \* inFlight and wideFly: "none", "single" or "wide"
  line,       \* the core's own line in its frame
  framed      \* history: this capture began at a vertical sync, undisturbed

capture == <<x, y, skipCnt, armed, clearing, clearBuf, writeBuf, readyBuf>>
drain   == <<batch, flushing, flushIdx, flight>>
writer  == <<capture, fifo, drain, line, framed>>

Cell  == [buf : Buffers, row : Rows, quad : Quads]
Entry == [at : Cell, tag : Tags]

WriterType ==
  /\ mem \in [Buffers -> [Rows -> [Quads -> Tags]]]
  /\ ready \in BOOLEAN /\ menu \in BOOLEAN
  /\ x \in 0 .. RowQuads /\ y \in Rows /\ skipCnt \in 0 .. VSkip
  /\ armed \in BOOLEAN /\ clearing \in BOOLEAN
  /\ clearBuf \in Buffers /\ writeBuf \in Buffers /\ readyBuf \in Buffers
  /\ fifo \in Seq(Entry) /\ Len(fifo) <= FifoDepth
  /\ batch \in Seq(Entry) /\ Len(batch) <= BatchLen
  /\ flushing \in BOOLEAN /\ flushIdx \in 0 .. BatchLen - 1
  /\ flight \in {"none", "single", "wide"}
  /\ line \in 0 .. VSkip + SrcH /\ framed \in BOOLEAN

Unknown == [b \in Buffers |-> [r \in Rows |-> [q \in Quads |-> "bad"]]]

\* The machine's reset: what SDRAM holds is not told apart any more, the
\* sweep starts over.
WriterReset ==
  /\ ready' = FALSE /\ menu' = FALSE
  /\ x' = 0 /\ y' = 0 /\ skipCnt' = 0 /\ armed' = TRUE
  /\ clearing' = TRUE /\ clearBuf' = 0 /\ writeBuf' = 0 /\ readyBuf' = 0
  /\ fifo' = <<>> /\ batch' = <<>> /\ flushing' = FALSE /\ flushIdx' = 0
  /\ flight' = "none" /\ line' = 0 /\ framed' = FALSE /\ mem' = Unknown

WriterInit ==
  /\ mem = Unknown
  /\ ready = FALSE /\ menu = FALSE
  /\ x = 0 /\ y = 0 /\ skipCnt = 0 /\ armed = TRUE
  /\ clearing = TRUE /\ clearBuf = 0 /\ writeBuf = 0 /\ readyBuf = 0
  /\ fifo = <<>> /\ batch = <<>> /\ flushing = FALSE /\ flushIdx = 0
  /\ flight = "none" /\ line = 0 /\ framed = FALSE

enable == ready /\ ~menu
RoomOffByOne == Len(fifo) <= FifoDepth
Room   == Len(fifo) < FifoDepth

CanPop  == enable /\ flight = "none" /\ ~flushing /\ Len(batch) < BatchLen
CanSend == enable /\ flight = "none" /\ (flushing \/ Len(batch) = BatchLen)

\* The drain side takes a quad or sends a request in a cycle, quads come at
\* least four cycles apart: it is done before the next one.
Prompt == ~(CanPop /\ fifo # <<>>) /\ ~(CanSend /\ ~CanServe)

\* The supervisor's screen comes up: the capture holds at x = y = 0, the
\* queue keeps what it has.
Spoilt(entries) == [i \in DOMAIN entries |-> [entries[i] EXCEPT !.tag = "bad"]]
Freeze ==
  /\ menu' = TRUE /\ x' = 0 /\ y' = 0 /\ framed' = FALSE
  /\ fifo' = Spoilt(fifo) /\ batch' = Spoilt(batch)
  /\ UNCHANGED <<mem, ready, skipCnt, armed, clearing, clearBuf, writeBuf, readyBuf,
                 flushing, flushIdx, flight, line>>

(***************************************************************************)
(* Capture side                                                             *)
(***************************************************************************)
Pushed(buf, tag) ==
  Append(fifo, [at |-> [buf |-> buf, row |-> y, quad |-> x], tag |-> tag])

\* A quad of the black sweep; the sweep waits while the queue is full. The
\* core's syncs leave no trace meanwhile: where it stands in its frame is
\* chosen when the sweep ends.
Sweep ==
  /\ Prompt /\ enable /\ clearing /\ Room
  /\ fifo' = Pushed(clearBuf, "black")
  /\ x' = (x + 1) % RowQuads
  /\ y' = IF x = RowQuads - 1 THEN (y + 1) % SrcH ELSE y
  /\ IF x = RowQuads - 1 /\ y = SrcH - 1
     THEN IF clearBuf # 2
          THEN clearBuf' = clearBuf + 1 /\ UNCHANGED <<clearing, armed, line>>
          ELSE /\ clearing' = FALSE /\ armed' = TRUE /\ UNCHANGED clearBuf
               /\ line' \in CoreLines
     ELSE UNCHANGED <<clearBuf, clearing, armed, line>>
  /\ UNCHANGED <<mem, ready, menu, skipCnt, writeBuf, readyBuf, drain, framed, arbiter>>

\* Four pixels of the line; a quad that finds the queue full is dropped.
Pixels ==
  /\ Prompt /\ enable /\ ~clearing /\ skipCnt = 0 /\ line > 0 /\ x < RowQuads
  /\ fifo' = IF Room THEN Pushed(writeBuf, IF framed THEN "new" ELSE "bad") ELSE fifo
  /\ x' = x + 1
  /\ framed' = (framed /\ Room)
  /\ UNCHANGED <<mem, ready, menu, y, skipCnt, armed, clearing, clearBuf, writeBuf, readyBuf,
                 drain, line, arbiter>>

\* A line of the core is over. It is at least as long as a row, and long
\* enough (64 us) for the drain side to write what was captured.
LineOver ==
  enable => /\ line > 0 /\ skipCnt = 0 => x = RowQuads
            /\ fifo = <<>> /\ batch = <<>> /\ flight = "none"

HSync ==
  /\ ~clearing /\ line < VSkip + SrcH /\ LineOver
  /\ line' = line + 1
  /\ skipCnt' = IF skipCnt # 0 THEN skipCnt - 1 ELSE 0
  /\ armed' = (armed /\ skipCnt > 1)
  /\ x' = IF enable THEN XStart ELSE 0
  /\ y' = IF ~enable THEN 0
          ELSE IF skipCnt = 0 /\ ~armed /\ y # SrcH - 1 THEN y + 1 ELSE y
  /\ UNCHANGED <<mem, ready, menu, clearing, clearBuf, writeBuf, readyBuf, fifo, drain,
                 framed, arbiter>>

NextBufOfTwo(b) == IF b = 0 THEN 1 ELSE 0
NextBuf(b) == IF b = 2 THEN 0 ELSE b + 1

\* The cells of the buffer that capture turns to become those of an old one;
\* what a disturbed capture left is not told apart.
Aged(row)  == [q \in Quads |-> IF row[q] = "new" THEN "old" ELSE row[q]]
Blurred(row) == [q \in Quads |-> IF q >= XStart THEN "bad" ELSE row[q]]
Turned(b) == [r \in Rows |-> IF b = NextBuf(writeBuf) THEN Aged(mem[b][r])
                             ELSE IF b = writeBuf /\ ~framed THEN Blurred(mem[b][r])
                             ELSE mem[b][r]]

VSync ==
  /\ ~clearing /\ line = VSkip + SrcH /\ LineOver
  /\ line' = 0
  /\ x' = IF enable THEN XStart ELSE 0
  /\ y' = 0 /\ armed' = TRUE /\ skipCnt' = VSkip
  /\ readyBuf' = writeBuf
  /\ writeBuf' = NextBuf(writeBuf)
  /\ mem' = [b \in Buffers |-> Turned(b)]
  /\ framed' = enable
  /\ UNCHANGED <<clearing, clearBuf, ready, menu, fifo, drain, arbiter>>

(***************************************************************************)
(* Drain side                                                               *)
(***************************************************************************)
BatchBase == batch[1].at
ExpAddr(at) == /\ at.buf = BatchBase.buf /\ at.row = BatchBase.row
               /\ at.quad = BatchBase.quad + Len(batch)
Aligned(at) == at.quad % BatchLen = 0

PopFirst ==
  /\ CanPop /\ fifo # <<>> /\ batch = <<>>
  /\ batch' = <<Head(fifo)>>
  /\ fifo' = Tail(fifo)
  /\ flushing' = ~Aligned(Head(fifo).at) /\ flushIdx' = 0
  /\ UNCHANGED <<mem, ready, menu, capture, flight, line, framed, arbiter>>

PopNext ==
  /\ CanPop /\ fifo # <<>> /\ batch # <<>> /\ ExpAddr(Head(fifo).at)
  /\ batch' = Append(batch, Head(fifo))
  /\ fifo' = Tail(fifo)
  /\ UNCHANGED <<mem, ready, menu, capture, flushing, flushIdx, flight, line, framed, arbiter>>

\* A gap in the addresses, or a queue idle for 127 cycles: no quads come.
FlushPartial ==
  /\ CanPop /\ batch # <<>>
  /\ IF fifo # <<>> THEN ~ExpAddr(Head(fifo).at)
                    ELSE ~clearing /\ (x = RowQuads \/ line = 0 \/ skipCnt # 0)
  /\ flushing' = TRUE /\ flushIdx' = 0
  /\ UNCHANGED <<mem, ready, menu, capture, fifo, batch, flight, line, framed, arbiter>>

WriteRequest ==
  /\ CanSend
  /\ flight' = IF flushing THEN "single" ELSE "wide"
  /\ Request("b")
  /\ UNCHANGED <<mem, ready, menu, capture, fifo, batch, flushing, flushIdx, line, framed>>

\* wrWide while the transaction is served: held, not a pulse.
wrWidePulse == flight = "wide" /\ active # "b"
wrWide == flight = "wide"

\* What the controller writes: at the address of the batch or of the quad
\* being flushed, one quad, or BatchLen of them in ascending order.
Written ==
  LET first == IF wrWide THEN 0 ELSE flushIdx
      count == IF wrWide THEN BatchLen ELSE 1
      quad  == BatchBase.quad + first
      tag(q) == LET e == batch[q - BatchBase.quad + 1]
                IN IF e.at.row = BatchBase.row /\ e.at.quad = q THEN e.tag ELSE "bad"
  IN [mem EXCEPT ![BatchBase.buf][BatchBase.row] =
        [q \in Quads |-> IF q \in quad .. quad + count - 1 THEN tag(q) ELSE @[q]]]

WriteDone ==
  /\ Complete("b")
  /\ mem' = Written
  /\ flight' = "none"
  /\ IF flight = "wide" \/ flushIdx = Len(batch) - 1
     THEN batch' = <<>> /\ flushing' = FALSE /\ flushIdx' = 0
     ELSE flushIdx' = flushIdx + 1 /\ UNCHANGED <<batch, flushing>>
  /\ UNCHANGED <<ready, menu, capture, fifo, line, framed>>
=============================================================================
