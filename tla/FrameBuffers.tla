----------------------------- MODULE FrameBuffers -----------------------------
(***************************************************************************)
(* The video path of Atari800Rp2040HdmiLgTop.scala: VideoFbWrite and        *)
(* VideoFbRead2 share three buffers in SDRAM through SdramArbiter3, with    *)
(* the loader on the third port. Capture runs at the Atari's 50 frames a    *)
(* second, the display at 60, without any handshake: what keeps them apart  *)
(* is the rotation of the buffers and the timing named below.               *)
(***************************************************************************)
EXTENDS VideoFbRead2

CONSTANTS
  Faults,     \* bound: the disturbances that strike a settled picture
  ResetLines  \* bound: lines of the display in which the button is pressed

ASSUME FaultAssumption ==
  /\ Faults \subseteq {"menu", "reset", "drop", "late", "mix", "load"}
  /\ ResetLines \subseteq Nat

VARIABLES
  settled,   \* a frame was shown since readyBuf last changed and settled
  owed,      \* a write waited when the last read was done
  behind,    \* the line before ended before its row fetch
  calm,      \* history: vertical syncs since the last disturbance, up to Calm
  prevDisp   \* history: the buffer shown before readBufDisp

vars    == <<mem, ready, menu, writer, arbiter, reader, settled, owed, behind, calm, prevDisp>>

\* A capture that began well fills each buffer and reaches the display.
Calm == 4

\* Bound: disturbances come one at a time, each to a calm picture, while
\* buffer 0 is captured and buffer 2 shown (the others differ by a rotation).
Strikes(f) ==
  /\ f \in Faults /\ calm = Calm
  /\ writeBuf = 0 /\ (readBufDisp = 2 \/ f = "mix")

Init ==
  /\ WriterInit /\ ReaderInit /\ ArbiterInit
  /\ settled = TRUE /\ owed = FALSE /\ behind = FALSE
  /\ calm = 0 /\ prevDisp = 0

(***************************************************************************)
(* The writer in its surroundings                                           *)
(***************************************************************************)
Capture ==
  /\ Pixels
  /\ IF Room THEN UNCHANGED calm ELSE Strikes("drop") /\ calm' = 0
  /\ UNCHANGED <<reader, settled, owed, behind, prevDisp>>

\* Timing: a frame of the Atari (20 ms) is longer than one of the display
\* (16.7 ms), so a frame boundary lies between two changes of readyBuf.
FrameCaptured ==
  /\ VSync
  /\ settled /\ settled' = FALSE /\ crossing' = TRUE
  /\ calm' = IF enable /\ calm < Calm THEN calm + 1 ELSE calm
  /\ UNCHANGED <<scan, dispBank, ring, readBufDisp, reqEdge, ackEdge, fetching, owed, behind,
                 prevDisp>>

Write ==
  \/ Sweep \/ HSync \/ PopFirst \/ PopNext \/ FlushPartial \/ WriteRequest
Writing == Write /\ UNCHANGED <<reader, settled, owed, behind, calm, prevDisp>>

WriteServed ==
  /\ Serve("b")
  /\ UNCHANGED <<mem, ready, menu, writer, reader, settled, owed, behind, calm, prevDisp>>

WriteEnds ==
  /\ WriteDone /\ owed' = FALSE
  /\ UNCHANGED <<reader, settled, behind, calm, prevDisp>>

(***************************************************************************)
(* The reader in its surroundings                                           *)
(***************************************************************************)
\* Timing: a row is fetched within an output line, two if it is late,
\* and the blank lines suffice to fill the ring before the frame ends.
InTime == ~fetchBusy /\ (ringFull \/ ~(dispHasWant \/ nxtHasWant))

Line ==
  /\ LineEnd
  /\ InTime \/ ~ready \/ (Strikes("late") /\ ~lastLine /\ ~behind)
  /\ behind' = ~(InTime \/ ~ready)
  /\ settled' = (settled \/ (lastLine /\ ~crossing))
  /\ prevDisp' = IF lastLine THEN readBufDisp ELSE prevDisp
  /\ IF lastLine /\ readBufDisp' \notin {readyBuf, PrevBuf(readyBuf)}
     THEN Strikes("mix") /\ calm' = 0
     ELSE UNCHANGED calm
  /\ UNCHANGED owed

Ring == (Prefetch \/ Fetched) /\ UNCHANGED <<settled, owed, behind, calm, prevDisp>>

\* Timing: unloading 32 bytes outlasts the write that waited for the read.
Reading ==
  /\ \/ StartFetch
     \/ ReadServed
     \/ ~owed /\ (ReadMore \/ RowDone)
  /\ UNCHANGED <<settled, owed, behind, calm, prevDisp>>

ReadEnds ==
  /\ ReadDone
  /\ owed' = ("b" \in pending)
  /\ UNCHANGED <<settled, behind, calm, prevDisp>>

(***************************************************************************)
(* The loader, the menu, the reset button                                   *)
(***************************************************************************)
LoaderRequest ==
  /\ Strikes("load") /\ "d" \notin pending /\ active # "d"
  /\ Request("d")
  /\ UNCHANGED <<mem, ready, menu, writer, reader, settled, owed, behind, calm, prevDisp>>

LoaderServed ==
  /\ Serve("d")
  /\ UNCHANGED <<mem, ready, menu, writer, reader, settled, owed, behind, calm, prevDisp>>

LoaderDone ==
  /\ Complete("d")
  /\ UNCHANGED <<mem, ready, menu, writer, reader, settled, owed, behind, calm, prevDisp>>

\* The SDRAM controller has initialised its chip.
Ready ==
  /\ ~ready /\ ready' = TRUE
  /\ UNCHANGED <<mem, menu, writer, reader, arbiter, settled, owed, behind, calm, prevDisp>>

\* The supervisor's screen freezes the capture.
MenuOpens ==
  /\ Strikes("menu") /\ line \in CoreLines /\ ~menu /\ Freeze
  /\ calm' = 0
  /\ UNCHANGED <<reader, arbiter, settled, owed, behind, prevDisp>>

MenuCloses ==
  /\ menu /\ menu' = FALSE
  /\ writeBuf = 0 /\ line \in CoreLines
  /\ UNCHANGED <<mem, ready, writer, reader, arbiter, settled, owed, behind, calm, prevDisp>>

\* The button resets the writer, the arbiter and the controller; the reader
\* lives in a domain of its own and only loses its enable.
Reset ==
  /\ Strikes("reset") /\ vc \in ResetLines
  /\ WriterReset /\ ArbiterReset /\ ReaderAbort
  /\ owed' = FALSE /\ settled' = FALSE /\ behind' = FALSE /\ calm' = 0
  /\ UNCHANGED prevDisp

Next ==
  \/ Capture \/ FrameCaptured \/ Writing \/ WriteServed \/ WriteEnds
  \/ Line \/ Ring \/ Reading \/ ReadEnds
  \/ LoaderRequest \/ LoaderServed \/ LoaderDone
  \/ Ready \/ MenuOpens \/ MenuCloses \/ Reset

Spec == Init /\ [][Next]_vars

(***************************************************************************)
(* Properties                                                               *)
(***************************************************************************)
\* The registers of the three units keep their ranges: the queue and the
\* batch never hold more than they have room for, and the row number the
\* reader's DDA arrives at stays within a buffer.
TypeOK == WriterType /\ ReaderType /\ ArbiterType

\* A line that the artifact meter (VideoFbRead2.scala:215) does not count as
\* late shows its row: every quad was captured for the row that the scaling
\* asks for, in one capture, and comes from the buffer latched at the frame
\* boundary. The first NumBanks rows of a frame are the exception: they were
\* prefetched before the boundary, from the buffer shown before. The margin
\* left of XStart is black, except in row 0: a capture that resumes does so at
\* x = 0, and no later one reaches what it leaves there. It holds once Calm
\* frames were captured without a reset, a menu, a lost quad or a mixed
\* sample of the buffer number.
Tagged == vc < VActive /\ bankOk[dispBank] /\ bankY[dispBank] = curSrcY
ShownRowIsRight ==
  Tagged /\ calm = Calm =>
    LET row == (vc * SrcH) \div VActive
    IN \E buf \in {readBufDisp} \cup (IF row < NumBanks THEN {prevDisp} ELSE {}) :
         \A q \in Quads :
           LET c == cache[dispBank][q]
           IN /\ c.buf = buf /\ c.row = row
              /\ IF q >= XStart THEN c.tag = "new" ELSE c.tag = "black" \/ row = 0

\* No access of the reader is served from the buffer the capture is filling,
\* which is what the third buffer is for (VideoFbWrite.scala:133-137).
ReadsFinishedCaptures ==
  active = "c" /\ calm = Calm => readFrom # writeBuf

\* A port waits for a bounded number of transactions: the display's for the
\* one under way, the capture's for one read more, the loader's for a read
\* and a write besides (SdramArbiter3.scala:157-160: with B first, continuous
\* writes starve C for ever), with accesses back to back as Request has them.
NoPortStarves == ahead["c"] = 0 /\ ahead["b"] <= 1 /\ ahead["d"] <= 2
=============================================================================
