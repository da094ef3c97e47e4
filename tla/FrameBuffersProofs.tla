------------------------- MODULE FrameBuffersProofs -------------------------
(***************************************************************************)
(* Proofs about FrameBuffers: no port of the arbiter starves, the reader   *)
(* never reads the buffer being captured, the registers keep their ranges, *)
(* and the rows shown are those of one finished capture.                   *)
(*                                                                         *)
(* The five invariants build on one another: ArbiterInv is about the       *)
(* arbiter and who has asked it, RotationInv about the three buffers,      *)
(* RangeInv about the registers, PictureInv about what the buffers in      *)
(* SDRAM hold and what is on its way there, and CacheInv about the rows    *)
(* the display has fetched.                                                *)
(***************************************************************************)
EXTENDS FrameBuffers, SequenceTheorems, TLAPS

(***************************************************************************)
(* The arbiter                                                             *)
(***************************************************************************)
\* A port has asked, or is served, exactly while its unit waits for it.
Asking ==
  /\ ("c" \in pending \/ active = "c") <=> fetch = "read"
  /\ ("b" \in pending \/ active = "b") <=> flight # "none"
  /\ \A p \in Ports : ~(p \in pending /\ active = p)

\* The reader is held back only while it has something to unload and a write is to come.
Held == owed => fetch = "unload" /\ flight # "none"

\* A write that waits has seen one read at most, and none when another may still pass it.
WriteWaits ==
  /\ ahead["b"] <= 1
  /\ ("b" \in pending /\ (active = "d" \/ (active = Nobody /\ "c" \in pending))) => ahead["b"] = 0

\* What may still pass the loader: a read and a write, a write, nothing.
LoaderWaits ==
  /\ ahead["d"] <= 2
  /\ "d" \in pending =>
       /\ active = "c" => ahead["d"] <= 1
       /\ active = "b" => ahead["d"] = 0 \/ owed
       /\ (active = Nobody /\ "c" \in pending) => ahead["d"] = 0 /\ "b" \notin pending
       /\ (active = Nobody /\ "b" \in pending) => owed /\ ahead["d"] <= 1

ArbiterInv ==
  /\ ArbiterType
  /\ Asking /\ Held
  /\ \A p \in Ports : p \notin pending => ahead[p] = 0
  /\ ahead["c"] = 0 /\ WriteWaits /\ LoaderWaits

units == <<pending, active, ahead, fetch, flight, owed>>

\* What a step does to the arbiter and to the units that ask it.
ArbiterCases ==
  \/ UNCHANGED units
  \/ Request("b") /\ flight = "none" /\ flight' # "none" /\ UNCHANGED <<fetch, owed>>
  \/ Request("c") /\ fetch # "read" /\ fetch' = "read" /\ ~owed /\ UNCHANGED <<flight, owed>>
  \/ Request("d") /\ "d" \notin pending /\ active # "d" /\ UNCHANGED <<fetch, flight, owed>>
  \/ \E p \in Ports : Serve(p) /\ UNCHANGED <<fetch, flight, owed>>
  \/ Complete("b") /\ flight' = "none" /\ owed' = FALSE /\ UNCHANGED fetch
  \/ Complete("c") /\ fetch' = "unload" /\ owed' = ("b" \in pending) /\ UNCHANGED flight
  \/ Complete("d") /\ UNCHANGED <<fetch, flight, owed>>
  \/ UNCHANGED <<pending, active, ahead, flight, owed>> /\ fetch = "unload" /\ ~owed /\ fetch' = "idle"
  \/ ArbiterReset /\ flight' = "none" /\ fetch' = "idle" /\ owed' = FALSE

LEMMA ArbiterStepCases == ArbiterInv /\ [Next]_vars => ArbiterCases
<1> SUFFICES ASSUME ArbiterInv, [Next]_vars PROVE ArbiterCases
  OBVIOUS
<1>1. CASE Capture
  BY <1>1 DEF Capture, Pixels, reader, fetching, drain, arbiter, ArbiterCases, units
<1>2. CASE FrameCaptured
  BY <1>2 DEF FrameCaptured, VSync, fetching, drain, arbiter, ArbiterCases, units
<1>3. CASE Writing
  <2>1. UNCHANGED <<fetch, owed>>
    BY <1>3 DEF Writing, reader, fetching
  <2>2. CASE Sweep \/ HSync \/ PopFirst \/ PopNext \/ FlushPartial
    BY <2>1, <2>2 DEF Sweep, HSync, PopFirst, PopNext, FlushPartial, drain, arbiter, ArbiterCases, units
  <2>3. CASE WriteRequest
    BY <2>1, <2>3 DEF WriteRequest, CanSend, ArbiterCases
  <2> QED
    BY <1>3, <2>2, <2>3 DEF Writing, Write
<1>4. CASE WriteServed \/ LoaderServed
  BY <1>4 DEF WriteServed, LoaderServed, writer, drain, reader, fetching, Ports, ArbiterCases
<1>5. CASE WriteEnds
  BY <1>5 DEF WriteEnds, WriteDone, reader, fetching, ArbiterCases
<1>6. CASE Line
  BY <1>6 DEF Line, LineEnd, writer, drain, fetching, arbiter, ArbiterCases, units
<1>7. CASE Ring
  BY <1>7 DEF Ring, Prefetch, Fetched, writer, drain, fetching, arbiter, ArbiterCases, units
<1>8. CASE Reading
  <2>1. UNCHANGED <<flight, owed>>
    BY <1>8 DEF Reading, StartFetch, ReadServed, ReadMore, RowDone, writer, drain
  <2>2. CASE StartFetch
    <3>1. ~owed
      BY <2>2 DEF StartFetch, ArbiterInv, Held
    <3> QED
      BY <2>1, <2>2, <3>1 DEF StartFetch, ArbiterCases
  <2>3. CASE ReadServed
    BY <2>1, <2>3 DEF ReadServed, Ports, ArbiterCases
  <2>4. CASE ~owed /\ ReadMore
    BY <2>1, <2>4 DEF ReadMore, ArbiterCases
  <2>5. CASE ~owed /\ RowDone
    BY <2>1, <2>5 DEF RowDone, arbiter, ArbiterCases
  <2> QED
    BY <1>8, <2>2, <2>3, <2>4, <2>5 DEF Reading
<1>9. CASE ReadEnds
  BY <1>9 DEF ReadEnds, ReadDone, writer, drain, ArbiterCases
<1>10. CASE LoaderRequest
  BY <1>10 DEF LoaderRequest, writer, drain, reader, fetching, ArbiterCases
<1>11. CASE LoaderDone
  BY <1>11 DEF LoaderDone, writer, drain, reader, fetching, ArbiterCases
<1>12. CASE Ready \/ MenuOpens \/ MenuCloses
  BY <1>12 DEF Ready, MenuOpens, MenuCloses, Freeze, writer, drain, reader, fetching, arbiter,
               ArbiterCases, units
<1>13. CASE Reset
  BY <1>13 DEF Reset, WriterReset, ReaderAbort, ArbiterCases
<1>14. CASE UNCHANGED vars
  BY <1>14 DEF vars, writer, drain, reader, fetching, arbiter, ArbiterCases, units
<1> QED
  BY <1>1, <1>2, <1>3, <1>4, <1>5, <1>6, <1>7, <1>8, <1>9, <1>10, <1>11, <1>12, <1>13, <1>14 DEF Next

\* A request of a port that has not asked.
LEMMA RequestType ==
  ASSUME ArbiterInv, NEW p \in Ports, Request(p)
  PROVE  /\ ArbiterType' /\ UNCHANGED <<active, ahead>> /\ pending' = pending \cup {p}
         /\ active # Nobody \/ pending = {}
BY DEF ArbiterInv, ArbiterType, Request, CanServe

LEMMA ArbiterStep == ArbiterInv /\ ArbiterCases => ArbiterInv'
<1> SUFFICES ASSUME ArbiterInv, ArbiterCases PROVE ArbiterInv'
  OBVIOUS
<1> USE DEF Ports, Nobody
<1>0. /\ pending \subseteq Ports /\ active \in Ports \cup {Nobody} /\ ahead \in [Ports -> Nat]
      /\ ahead["b"] \in Nat /\ ahead["c"] \in Nat /\ ahead["d"] \in Nat
  BY DEF ArbiterInv, ArbiterType
<1>1. CASE UNCHANGED units
  BY <1>1 DEF units, ArbiterInv, ArbiterType, Asking, Held, WriteWaits, LoaderWaits
<1>2. CASE Request("b") /\ flight = "none" /\ flight' # "none" /\ UNCHANGED <<fetch, owed>>
  <2>1. /\ ArbiterType' /\ UNCHANGED <<active, ahead>> /\ pending' = pending \cup {"b"}
        /\ active # Nobody \/ pending = {}
    BY <1>2, RequestType
  <2>2. "b" \notin pending /\ active # "b" /\ ~owed /\ ahead["b"] = 0
    BY <1>2 DEF ArbiterInv, Asking, Held
  <2> QED
    BY <1>0, <1>2, <2>1, <2>2 DEF ArbiterInv, Asking, Held, WriteWaits, LoaderWaits
<1>3. CASE Request("c") /\ fetch # "read" /\ fetch' = "read" /\ ~owed /\ UNCHANGED <<flight, owed>>
  <2>1. /\ ArbiterType' /\ UNCHANGED <<active, ahead>> /\ pending' = pending \cup {"c"}
        /\ active # Nobody \/ pending = {}
    BY <1>3, RequestType
  <2>2. "c" \notin pending /\ active # "c" /\ ahead["c"] = 0
    BY <1>3 DEF ArbiterInv, Asking
  <2> QED
    BY <1>0, <1>3, <2>1, <2>2 DEF ArbiterInv, Asking, Held, WriteWaits, LoaderWaits
<1>4. CASE Request("d") /\ "d" \notin pending /\ active # "d" /\ UNCHANGED <<fetch, flight, owed>>
  <2>1. /\ ArbiterType' /\ UNCHANGED <<active, ahead>> /\ pending' = pending \cup {"d"}
        /\ active # Nobody \/ pending = {}
    BY <1>4, RequestType
  <2>2. ahead["d"] = 0
    BY <1>4 DEF ArbiterInv
  <2> QED
    BY <1>0, <1>4, <2>1, <2>2 DEF ArbiterInv, Asking, Held, WriteWaits, LoaderWaits
<1>5. ASSUME NEW p \in Ports, Serve(p), UNCHANGED <<fetch, flight, owed>> PROVE ArbiterInv'
  <2>1. /\ active = Nobody /\ p \in pending /\ pending' = pending \ {p} /\ active' = p
        /\ \A q \in pending : ~Before(q, p)
    BY <1>5 DEF Serve, CanServe
  <2>2. /\ ahead' \in [Ports -> Nat]
        /\ \A q \in Ports : ahead'[q] = IF q \in pending \ {p} THEN ahead[q] + 1 ELSE 0
    BY <1>0, <1>5 DEF Serve
  <2>3. "c" \in pending => p = "c"
    BY <2>1 DEF Before
  <2>4. "b" \in pending => p \in {"b", "c"}
    BY <2>1 DEF Before
  <2>5. ArbiterType' /\ Asking' /\ Held'
    BY <1>0, <1>5, <2>1, <2>2 DEF ArbiterInv, ArbiterType, Asking, Held
  <2>6. \A q \in Ports : q \notin pending' => ahead'[q] = 0
    BY <2>1, <2>2
  <2>7. ahead'["c"] = 0
    BY <2>2, <2>3
  <2>8. WriteWaits'
    BY <1>0, <2>1, <2>2, <2>3, <2>4 DEF ArbiterInv, WriteWaits
  <2>9. LoaderWaits'
    <3>1. CASE p = "c"
      BY <1>0, <2>1, <2>2, <3>1 DEF ArbiterInv, LoaderWaits
    <3>2. CASE p = "b"
      BY <1>0, <1>5, <2>1, <2>2, <2>3, <3>2 DEF ArbiterInv, LoaderWaits
    <3>3. CASE p = "d"
      BY <1>0, <2>1, <2>2, <3>3 DEF ArbiterInv, LoaderWaits
    <3> QED
      BY <3>1, <3>2, <3>3
  <2> QED
    BY <2>5, <2>6, <2>7, <2>8, <2>9 DEF ArbiterInv
<1>6. CASE Complete("b") /\ flight' = "none" /\ owed' = FALSE /\ UNCHANGED fetch
  <2>1. active = "b" /\ active' = Nobody /\ UNCHANGED <<pending, ahead>> /\ "b" \notin pending
    BY <1>6 DEF Complete, ArbiterInv, Asking
  <2> QED
    BY <1>0, <1>6, <2>1 DEF ArbiterInv, ArbiterType, Asking, Held, WriteWaits, LoaderWaits
<1>7. CASE Complete("c") /\ fetch' = "unload" /\ owed' = ("b" \in pending) /\ UNCHANGED flight
  <2>1. active = "c" /\ active' = Nobody /\ UNCHANGED <<pending, ahead>> /\ "c" \notin pending
    BY <1>7 DEF Complete, ArbiterInv, Asking
  <2> QED
    BY <1>0, <1>7, <2>1 DEF ArbiterInv, ArbiterType, Asking, Held, WriteWaits, LoaderWaits
<1>8. CASE Complete("d") /\ UNCHANGED <<fetch, flight, owed>>
  <2>1. active = "d" /\ active' = Nobody /\ UNCHANGED <<pending, ahead>> /\ "d" \notin pending
    BY <1>8 DEF Complete, ArbiterInv, Asking
  <2> QED
    BY <1>0, <1>8, <2>1 DEF ArbiterInv, ArbiterType, Asking, Held, WriteWaits, LoaderWaits
<1>9. CASE UNCHANGED <<pending, active, ahead, flight, owed>> /\ fetch = "unload" /\ ~owed /\ fetch' = "idle"
  BY <1>0, <1>9 DEF ArbiterInv, ArbiterType, Asking, Held, WriteWaits, LoaderWaits
<1>10. CASE ArbiterReset /\ flight' = "none" /\ fetch' = "idle" /\ owed' = FALSE
  <2>1. pending' = {} /\ active' = Nobody /\ ahead' \in [Ports -> Nat] /\ \A p \in Ports : ahead'[p] = 0
    BY <1>10 DEF ArbiterReset
  <2> QED
    BY <1>10, <2>1 DEF ArbiterInv, ArbiterType, Asking, Held, WriteWaits, LoaderWaits
<1> QED
  BY <1>1, <1>2, <1>3, <1>4, <1>5, <1>6, <1>7, <1>8, <1>9, <1>10 DEF ArbiterCases

LEMMA ArbiterInvariant == Spec => []ArbiterInv
<1>1. Init => ArbiterInv
  BY DEF Init, WriterInit, ReaderInit, ArbiterInit, ArbiterInv, ArbiterType, Asking, Held, WriteWaits,
         LoaderWaits, Ports, Nobody
<1>2. ArbiterInv /\ [Next]_vars => ArbiterInv'
  BY ArbiterStepCases, ArbiterStep
<1> QED
  BY <1>1, <1>2, PTL DEF Spec

\* No port of SdramArbiter3 starves: the display waits for the transaction under way, the capture
\* for one read more, the loader for a read and a write besides.
THEOREM Served == Spec => []NoPortStarves
<1>1. ArbiterInv => NoPortStarves
  BY DEF ArbiterInv, NoPortStarves, WriteWaits, LoaderWaits
<1> QED
  BY <1>1, ArbiterInvariant, PTL

(***************************************************************************)
(* The buffers                                                             *)
(***************************************************************************)
\* A row is asked for, fetched or acknowledged, never two at once, and the display waits for it.
Handshake ==
  /\ (reqEdge \/ fetch # "idle" \/ ackEdge) => fetchBusy
  /\ fetch # "idle" => ready /\ ~reqEdge /\ ~ackEdge
  /\ ~(reqEdge /\ ackEdge)

\* Capture is one buffer ahead once a frame was captured; the display shows the one before
\* it, or the one before that until the next frame boundary. No boundary of the display falls in
\* a row being fetched, so an access is served from the buffer on show.
Rotation ==
  /\ writeBuf \in Buffers /\ readyBuf \in Buffers /\ calm \in 0 .. Calm
  /\ crossing => ~settled
  /\ settled => readBufDisp = readyBuf
  /\ writeBuf \in {readyBuf, NextBuf(readyBuf)}
  /\ calm > 0 => /\ writeBuf = NextBuf(readyBuf)
                 /\ readBufDisp \in {readyBuf, PrevBuf(readyBuf)}
  /\ active = "c" => readFrom = readBufDisp

RotationInv == Handshake /\ Rotation

shake == <<reqEdge, fetch, ackEdge, fetchBusy, ready>>

LEMMA HandshakeStep == ArbiterInv /\ Handshake /\ [Next]_vars => Handshake'
<1> SUFFICES ASSUME ArbiterInv, Handshake, [Next]_vars PROVE Handshake'
  OBVIOUS
<1>1. CASE UNCHANGED shake
  BY <1>1 DEF shake, Handshake
<1>2. CASE Capture \/ FrameCaptured \/ Writing \/ WriteServed \/ WriteEnds
  <2>1. UNCHANGED shake
    BY <1>2 DEF Capture, Pixels, FrameCaptured, VSync, Writing, Write, Sweep, HSync, PopFirst, PopNext,
                FlushPartial, WriteRequest, WriteServed, WriteEnds, WriteDone, reader, ring, fetching, shake
  <2> QED
    BY <1>1, <2>1
<1>3. CASE Line
  <2>1. UNCHANGED <<fetch, ackEdge, ready>>
    BY <1>3 DEF Line, LineEnd, fetching
  <2>2. UNCHANGED <<reqEdge, fetchBusy>> \/ (~fetchBusy /\ reqEdge' = TRUE /\ fetchBusy' = TRUE)
    BY <1>3 DEF Line, LineEnd, Restart, ring
  <2> QED
    BY <2>1, <2>2 DEF Handshake
<1>4. CASE Ring
  <2>1. CASE Prefetch
    BY <2>1 DEF Prefetch, fetching, Handshake
  <2>2. CASE Fetched
    BY <2>2 DEF Fetched, fetching, Handshake
  <2> QED
    BY <1>4, <2>1, <2>2 DEF Ring
<1>5. CASE Reading
  <2>1. UNCHANGED <<fetchBusy, ready>>
    BY <1>5 DEF Reading, StartFetch, ReadServed, ReadMore, RowDone, ring
  <2>2. CASE StartFetch
    BY <2>1, <2>2 DEF StartFetch, Handshake
  <2>3. CASE ReadServed
    BY <2>1, <2>3 DEF ReadServed, Handshake
  <2>4. CASE ReadMore
    BY <2>1, <2>4 DEF ReadMore, Handshake
  <2>5. CASE RowDone
    BY <2>1, <2>5 DEF RowDone, Handshake
  <2> QED
    BY <1>5, <2>2, <2>3, <2>4, <2>5 DEF Reading
<1>6. CASE ReadEnds
  <2>1. fetch = "read"
    BY <1>6 DEF ReadEnds, ReadDone, Complete, ArbiterInv, Asking
  <2> QED
    BY <1>6, <2>1 DEF ReadEnds, ReadDone, ring, Handshake
<1>7. CASE LoaderRequest \/ LoaderServed \/ LoaderDone \/ MenuCloses
  <2>1. UNCHANGED shake
    BY <1>7 DEF LoaderRequest, LoaderServed, LoaderDone, MenuCloses, reader, ring, fetching, shake
  <2> QED
    BY <1>1, <2>1
<1>8. CASE Ready
  BY <1>8 DEF Ready, reader, ring, fetching, Handshake
<1>9. CASE MenuOpens
  BY <1>9 DEF MenuOpens, Freeze, reader, ring, fetching, Handshake
<1>10. CASE Reset
  BY <1>10 DEF Reset, ReaderAbort, WriterReset, Handshake
<1>11. CASE UNCHANGED vars
  <2>1. UNCHANGED shake
    BY <1>11 DEF vars, reader, ring, fetching, shake
  <2> QED
    BY <1>1, <2>1
<1> QED
  BY <1>2, <1>3, <1>4, <1>5, <1>6, <1>7, <1>8, <1>9, <1>10, <1>11 DEF Next

turn == <<writeBuf, readyBuf, calm, crossing, settled, readBufDisp, active, readFrom>>

LEMMA RotationStep == ArbiterInv /\ RotationInv /\ [Next]_vars => Rotation'
<1> SUFFICES ASSUME ArbiterInv, RotationInv, [Next]_vars PROVE Rotation'
  OBVIOUS
<1> USE DEF Buffers, Calm
<1>0. /\ writeBuf \in 0 .. 2 /\ readyBuf \in 0 .. 2 /\ calm \in 0 .. 4
      /\ NextBuf(readyBuf) \in 0 .. 2
  BY DEF RotationInv, Rotation, NextBuf
<1>1. CASE UNCHANGED turn
  BY <1>1 DEF turn, RotationInv, Rotation, NextBuf, PrevBuf
<1>2. CASE Capture \/ MenuOpens
  <2>1. UNCHANGED <<writeBuf, readyBuf, crossing, settled, readBufDisp, active, readFrom>> /\ (calm' = calm \/ calm' = 0)
    BY <1>2 DEF Capture, Pixels, MenuOpens, Freeze, reader, fetching, arbiter
  <2> QED
    BY <1>0, <2>1 DEF RotationInv, Rotation, NextBuf, PrevBuf
<1>3. CASE FrameCaptured
  <2>1. /\ readyBuf' = writeBuf /\ writeBuf' = NextBuf(writeBuf)
        /\ settled /\ ~settled' /\ calm' \in 0 .. 4 /\ UNCHANGED <<readBufDisp, active, readFrom>>
    BY <1>0, <1>3 DEF FrameCaptured, VSync, fetching, arbiter
  <2>2. readBufDisp = readyBuf /\ writeBuf \in {readyBuf, NextBuf(readyBuf)}
    BY <2>1 DEF RotationInv, Rotation
  <2>3. readBufDisp \in {readyBuf', PrevBuf(readyBuf')}
    BY <1>0, <2>1, <2>2 DEF NextBuf, PrevBuf
  <2>4. writeBuf' = NextBuf(readyBuf') /\ writeBuf' \in 0 .. 2 /\ readyBuf' \in 0 .. 2
    BY <1>0, <2>1 DEF NextBuf
  <2>5. (active = "c" => readFrom = readBufDisp)
    BY DEF RotationInv, Rotation
  <2> QED
    BY <2>1, <2>3, <2>4, <2>5 DEF Rotation
<1>4. CASE Line
  <2>1. UNCHANGED <<writeBuf, readyBuf, active, readFrom>> /\ crossing' = FALSE
    BY <1>4 DEF Line, LineEnd, writer, capture, arbiter, fetching
  <2>2. CASE ~lastLine
    <3>1. UNCHANGED <<readBufDisp, calm>> /\ (settled' => settled)
      BY <1>4, <2>2 DEF Line, LineEnd, RotationInv, Rotation
    <3> QED
      BY <1>0, <2>1, <3>1 DEF RotationInv, Rotation, NextBuf, PrevBuf
  <2>3. CASE lastLine
    <3>1. readBufDisp' \in Sampled /\ settled' = (settled \/ ~crossing)
      BY <1>4, <2>3 DEF Line, LineEnd
    <3>2. settled' => readBufDisp' = readyBuf
      BY <3>1 DEF Sampled, RotationInv, Rotation
    <3>3. calm' = 0 \/ (calm' = calm /\ readBufDisp' \in {readyBuf, PrevBuf(readyBuf)})
      BY <1>4, <2>1, <2>3 DEF Line, PrevBuf
    <3>4. active # "c"
      <4>1. SUFFICES ASSUME active = "c" PROVE FALSE
        OBVIOUS
      <4>2. fetch = "read"
        BY <4>1 DEF ArbiterInv, Asking
      <4>3. fetchBusy /\ ready
        BY <4>2 DEF RotationInv, Handshake
      <4> QED
        BY <1>4, <2>3, <4>3 DEF Line, InTime
    <3> QED
      BY <1>0, <2>1, <3>2, <3>3, <3>4 DEF RotationInv, Rotation, NextBuf, PrevBuf
  <2> QED
    BY <2>2, <2>3
<1>5. CASE Writing \/ WriteEnds \/ Ring \/ ReadEnds \/ LoaderRequest \/ LoaderServed \/ LoaderDone \/ WriteServed
  <2>1. UNCHANGED <<writeBuf, readyBuf, calm, crossing, settled, readBufDisp, readFrom>>
    <3>1. CASE Writing
      BY <3>1 DEF Writing, Write, Sweep, HSync, PopFirst, PopNext, FlushPartial, WriteRequest,
                  reader, fetching, capture
    <3>2. CASE WriteEnds \/ ReadEnds
      BY <3>2 DEF WriteEnds, WriteDone, ReadEnds, ReadDone, reader, fetching, writer, capture
    <3>3. CASE Ring
      BY <3>3 DEF Ring, Prefetch, Fetched, fetching, writer, capture
    <3>4. CASE LoaderRequest \/ LoaderServed \/ LoaderDone \/ WriteServed
      BY <3>4 DEF LoaderRequest, LoaderServed, LoaderDone, WriteServed, reader, fetching, writer, capture
    <3> QED
      BY <1>5, <3>1, <3>2, <3>3, <3>4
  <2>2. active' = "c" => active = "c"
    <3>1. CASE Writing
      BY <3>1 DEF Writing, Write, Sweep, HSync, PopFirst, PopNext, FlushPartial, WriteRequest, Request, arbiter
    <3>2. CASE WriteEnds \/ ReadEnds \/ LoaderDone
      BY <3>2 DEF WriteEnds, WriteDone, ReadEnds, ReadDone, LoaderDone, Complete, Nobody
    <3>3. CASE Ring
      BY <3>3 DEF Ring, Prefetch, Fetched, arbiter
    <3>4. CASE LoaderRequest \/ LoaderServed \/ WriteServed
      BY <3>4 DEF LoaderRequest, LoaderServed, WriteServed, Request, Serve
    <3> QED
      BY <1>5, <3>1, <3>2, <3>3, <3>4
  <2> QED
    BY <1>0, <2>1, <2>2 DEF RotationInv, Rotation, NextBuf, PrevBuf
<1>6. CASE Reading
  <2>1. UNCHANGED <<writeBuf, readyBuf, calm, crossing, settled, readBufDisp>>
    BY <1>6 DEF Reading, StartFetch, ReadServed, ReadMore, RowDone, writer, capture
  <2>2. active' = "c" => readFrom' = readBufDisp'
    <3>1. CASE ReadServed
      BY <3>1 DEF ReadServed
    <3>2. CASE StartFetch \/ ReadMore \/ RowDone
      BY <3>2 DEF StartFetch, ReadMore, RowDone, Request, arbiter, RotationInv, Rotation
    <3> QED
      BY <1>6, <3>1, <3>2 DEF Reading
  <2> QED
    BY <1>0, <2>1, <2>2 DEF RotationInv, Rotation, NextBuf, PrevBuf
<1>7. CASE Ready \/ MenuCloses \/ UNCHANGED vars
  <2>1. UNCHANGED turn
    BY <1>7 DEF Ready, MenuCloses, vars, turn, reader, fetching, writer, capture, arbiter
  <2> QED
    BY <1>1, <2>1
<1>8. CASE Reset
  <2>1. /\ writeBuf' = 0 /\ readyBuf' = 0 /\ calm' = 0 /\ settled' = FALSE /\ active' = Nobody
    BY <1>8 DEF Reset, WriterReset, ArbiterReset
  <2> QED
    BY <2>1 DEF Rotation, Nobody
<1> QED
  BY <1>2, <1>3, <1>4, <1>5, <1>6, <1>7, <1>8 DEF Next

LEMMA RotationInvariant == Spec => []RotationInv
<1>1. Init => RotationInv
  BY DEF Init, WriterInit, ReaderInit, ArbiterInit, RotationInv, Handshake, Rotation, Buffers, Calm,
         Nobody, NextBuf
<1>2. ArbiterInv /\ RotationInv /\ [Next]_vars => RotationInv'
  BY HandshakeStep, RotationStep DEF RotationInv
<1> QED
  BY <1>1, <1>2, ArbiterInvariant, PTL DEF Spec

\* No access of VideoFbRead2 is served from the buffer that VideoFbWrite is filling, once the
\* rotation has settled, whatever the geometry and wherever the two frame boundaries fall.
THEOREM ThreeBuffersSuffice == Spec => []ReadsFinishedCaptures
<1>1. RotationInv => ReadsFinishedCaptures
  BY DEF RotationInv, Rotation, ReadsFinishedCaptures, Buffers, Calm, NextBuf, PrevBuf
<1> QED
  BY <1>1, RotationInvariant, PTL

(***************************************************************************)
(* The registers                                                           *)
(***************************************************************************)
CaptureRange ==
  /\ ready \in BOOLEAN /\ menu \in BOOLEAN
  /\ x \in 0 .. RowQuads /\ y \in Rows /\ skipCnt \in 0 .. VSkip
  /\ armed \in BOOLEAN /\ clearing \in BOOLEAN
  /\ clearBuf \in Buffers /\ writeBuf \in Buffers /\ readyBuf \in Buffers
  /\ line \in 0 .. VSkip + SrcH /\ framed \in BOOLEAN
  /\ clearing => x < RowQuads

\* A flush walks a batch that is not empty; a wide access has a whole one.
QueueRange ==
  /\ fifo \in Seq(Entry) /\ Len(fifo) <= FifoDepth
  /\ batch \in Seq(Entry) /\ Len(batch) <= BatchLen
  /\ flushing \in BOOLEAN /\ flushIdx \in 0 .. BatchLen - 1
  /\ flight \in {"none", "single", "wide"}
  /\ flushing => flushIdx < Len(batch)
  /\ flight = "single" => flushing
  /\ flight = "wide" => Len(batch) = BatchLen

CellsRange == mem \in [Buffers -> [Rows -> [Quads -> Tags]]]

\* The DDA's accumulator is what the division leaves: it arrives at no row beyond the last.
ScanRange ==
  /\ vc \in 0 .. VTotal - 1 /\ vAcc \in 0 .. VActive - 1 /\ curSrcY \in Rows
  /\ vc < VActive => curSrcY * VActive + vAcc = vc * SrcH

RingRange ==
  /\ dispBank \in Banks /\ bankY \in [Banks -> Rows] /\ bankOk \in [Banks -> BOOLEAN]
  /\ fY \in Rows /\ wrB \in Banks /\ fetchBusy \in BOOLEAN
  /\ want \in [row : Rows, bank : Banks]
  /\ reqEdge \in BOOLEAN /\ ackEdge \in BOOLEAN /\ crossing \in BOOLEAN

FetchRange ==
  /\ snap \in [row : Rows, bank : Banks]
  /\ readBufDisp \in 0 .. 3 /\ readFrom \in 0 .. 3
  /\ fetch \in {"idle", "read", "unload"} /\ fx \in Quads
  /\ cache \in [Banks -> [Quads -> [buf : 0 .. 3, row : Rows, tag : Tags]]]

RangeInv == CaptureRange /\ QueueRange /\ CellsRange /\ ScanRange /\ RingRange /\ FetchRange

(* Arithmetic *)
LEMMA ModRange == ASSUME NEW a \in Nat, NEW n \in Nat \ {0} PROVE a % n \in 0 .. n - 1
OBVIOUS

LEMMA ModSmall == ASSUME NEW a \in Nat, NEW n \in Nat \ {0}, a < n PROVE a % n = a
OBVIOUS

LEMMA ModOnce == ASSUME NEW a \in Nat, NEW n \in Nat \ {0}, n <= a, a < 2 * n PROVE a % n = a - n
OBVIOUS

LEMMA Distributes == ASSUME NEW a \in Nat, NEW n \in Nat PROVE (a + 1) * n = a * n + n
OBVIOUS

LEMMA Cancels ==
  ASSUME NEW a \in Nat, NEW n \in Nat \ {0}, NEW s \in Nat \ {0}, NEW c \in Nat, c < n, a * n <= c * s
  PROVE  a < s
<1>1. c * s < n * s
  OBVIOUS
<1>2. s <= a => s * n <= a * n
  OBVIOUS
<1> QED
  BY <1>1, <1>2

\* A row that the DDA steps to is one of the buffer's: the last line that steps is before VActive.
LEMMA StepsWithin ==
  ASSUME NEW v \in Nat, NEW acc \in 0 .. VActive - 1, NEW row \in Rows,
         v < VActive, row * VActive + acc = v * SrcH, v + 1 < VActive, acc + SrcH >= VActive
  PROVE  /\ row + 1 \in Rows
         /\ (row + 1) * VActive + ((acc + SrcH) % VActive) = (v + 1) * SrcH
<1> USE WriterAssumption, ReaderAssumption DEF Rows
<1>1. SrcH \in Nat \ {0} /\ VActive \in Nat \ {0} /\ 2 * SrcH <= VActive /\ row \in Nat /\ acc \in Nat
  OBVIOUS
<1>2. (acc + SrcH) % VActive = acc + SrcH - VActive
  <2>1. acc + SrcH \in Nat /\ VActive <= acc + SrcH /\ acc + SrcH < 2 * VActive
    BY <1>1
  <2>2. \A a \in Nat : VActive <= a /\ a < 2 * VActive => a % VActive = a - VActive
    BY <1>1, ModOnce
  <2> QED
    BY <2>1, <2>2
<1>3. (row + 1) * VActive = row * VActive + VActive /\ (v + 1) * SrcH = v * SrcH + SrcH
  BY <1>1, Distributes
<1>4. row * VActive \in Nat /\ v * SrcH \in Nat
  BY <1>1
<1>5. (row + 1) * VActive + (acc + SrcH - VActive) = (v + 1) * SrcH
  BY <1>1, <1>3, <1>4
<1>6. (row + 1) * VActive <= (v + 1) * SrcH
  BY <1>1, <1>3, <1>4
<1>7. row + 1 < SrcH
  BY <1>1, <1>6, Cancels
<1> QED
  BY <1>1, <1>2, <1>5, <1>7

\* The row that a line asks for is one of the buffer's.
LEMMA NextRowIsARow ==
  ASSUME NEW v \in Nat, NEW acc \in 0 .. VActive - 1, NEW row \in Rows,
         v < VActive => row * VActive + acc = v * SrcH
  PROVE  NextSrcY(v, acc, row) \in Rows
<1>1. 0 \in Rows /\ VActive \in Nat
  BY WriterAssumption, ReaderAssumption DEF Rows
<1>2. CASE v + 1 < VActive /\ acc + SrcH >= VActive
  BY <1>1, <1>2, StepsWithin DEF NextSrcY
<1>3. CASE ~(v + 1 < VActive /\ acc + SrcH >= VActive)
  BY <1>1, <1>3 DEF NextSrcY
<1> QED
  BY <1>2, <1>3

LEMMA Ranges ==
  /\ 0 \in Rows /\ 0 \in Banks /\ 0 \in Quads /\ 0 \in Buffers
  /\ \A r \in Rows : NextRow(r) \in Rows
  /\ \A b \in Banks : NextBank(b) \in Banks
  /\ \A b \in Buffers : NextBuf(b) \in Buffers
BY WriterAssumption, ReaderAssumption, ModRange
   DEF Rows, Banks, Quads, Buffers, NextRow, NextBank, NextBuf

(* One lemma for each part of RangeInv *)
LEMMA CaptureStep == RangeInv /\ [Next]_vars => CaptureRange'
<1> SUFFICES ASSUME RangeInv, [Next]_vars PROVE CaptureRange'
  OBVIOUS
<1> USE WriterAssumption DEF Rows, Buffers
<1>0. CaptureRange
  BY DEF RangeInv
<1>1. CASE UNCHANGED <<capture, line, framed, ready, menu>>
  BY <1>0, <1>1 DEF CaptureRange, capture
<1>2. CASE Capture
  BY <1>0, <1>2 DEF Capture, Pixels, CaptureRange, Room
<1>3. CASE FrameCaptured
  BY <1>0, <1>3, Ranges DEF FrameCaptured, VSync, enable, CaptureRange
<1>4. CASE Writing
  <2>1. CASE Sweep
    <3>1. /\ x < RowQuads /\ x' = (x + 1) % RowQuads /\ x \in Nat /\ RowQuads \in Nat \ {0}
          /\ UNCHANGED <<ready, menu, skipCnt, writeBuf, readyBuf, framed>>
      BY <1>0, <2>1 DEF Sweep, CaptureRange
    <3>2. x' \in 0 .. RowQuads /\ x' < RowQuads
      BY <3>1, ModRange
    <3>3. y' \in Rows
      BY <1>0, <2>1, ModRange DEF Sweep, CaptureRange
    <3>4. /\ clearBuf' = clearBuf \/ (clearBuf # 2 /\ clearBuf' = clearBuf + 1)
          /\ clearing' = clearing \/ clearing' = FALSE
          /\ armed' = armed \/ armed' = TRUE
          /\ line' = line \/ line' \in CoreLines
      BY <2>1 DEF Sweep
    <3>5. line' \in 0 .. VSkip + SrcH
      BY <1>0, <3>4 DEF CaptureRange
    <3>6. clearBuf' \in Buffers
      BY <1>0, <3>4 DEF CaptureRange
    <3>7. clearing' \in BOOLEAN /\ armed' \in BOOLEAN
      BY <1>0, <3>4, Zenon DEF CaptureRange
    <3>8. skipCnt' \in 0 .. VSkip /\ ready' \in BOOLEAN /\ menu' \in BOOLEAN /\ framed' \in BOOLEAN
      BY <1>0, <3>1 DEF CaptureRange
    <3>9. writeBuf' \in Buffers /\ readyBuf' \in Buffers
      BY <1>0, <3>1 DEF CaptureRange
    <3> HIDE DEF Rows, Buffers
    <3> QED
      BY <3>2, <3>3, <3>5, <3>6, <3>7, <3>8, <3>9 DEF CaptureRange
  <2>2. CASE HSync
    BY <1>0, <2>2 DEF HSync, CaptureRange
  <2>3. CASE PopFirst \/ PopNext \/ FlushPartial \/ WriteRequest
    BY <1>1, <2>3 DEF PopFirst, PopNext, FlushPartial, WriteRequest
  <2> QED
    BY <1>4, <2>1, <2>2, <2>3 DEF Writing, Write
<1>5. CASE WriteServed \/ WriteEnds \/ Line \/ Ring \/ Reading \/ ReadEnds
  BY <1>1, <1>5 DEF WriteServed, WriteEnds, WriteDone, Line, LineEnd, Ring, Prefetch, Fetched, Reading,
     StartFetch, ReadServed, ReadMore, RowDone, ReadEnds, ReadDone, writer
<1>6. CASE LoaderRequest \/ LoaderServed \/ LoaderDone \/ UNCHANGED vars
  BY <1>1, <1>6 DEF LoaderRequest, LoaderServed, LoaderDone, writer, vars
<1>7. CASE Ready \/ MenuCloses
  <2>1. /\ UNCHANGED <<capture, line, framed>>
        /\ ready' = ready \/ ready' = TRUE
        /\ menu' = menu \/ menu' = FALSE
    BY <1>7 DEF Ready, MenuCloses, writer
  <2> QED
    BY <1>0, <2>1 DEF CaptureRange, capture
<1>8. CASE MenuOpens
  <2>1. /\ menu' = TRUE /\ x' = 0 /\ y' = 0 /\ framed' = FALSE
        /\ UNCHANGED <<ready, skipCnt, armed, clearing, clearBuf, writeBuf, readyBuf, line>>
    BY <1>8 DEF MenuOpens, Freeze
  <2>2. 0 \in Rows /\ 0 \in 0 .. RowQuads /\ 0 < RowQuads
    OBVIOUS
  <2> QED
    BY <1>0, <2>1, <2>2 DEF CaptureRange
<1>9. CASE Reset
  <2>1. /\ ready' = FALSE /\ menu' = FALSE
        /\ x' = 0 /\ y' = 0 /\ skipCnt' = 0 /\ armed' = TRUE
        /\ clearing' = TRUE /\ clearBuf' = 0 /\ writeBuf' = 0 /\ readyBuf' = 0
        /\ line' = 0 /\ framed' = FALSE
    BY <1>9 DEF Reset, WriterReset
  <2>2. /\ 0 \in Rows /\ 0 \in 0 .. RowQuads /\ 0 < RowQuads /\ 0 \in 0 .. VSkip
        /\ 0 \in 0 .. VSkip + SrcH /\ 0 \in Buffers
    OBVIOUS
  <2> QED
    BY <2>1, <2>2 DEF CaptureRange
<1> QED
  BY <1>2, <1>3, <1>4, <1>5, <1>6, <1>7, <1>8, <1>9 DEF Next

\* An empty queue and an empty batch.
LEMMA EmptyInRange ==
  /\ <<>> \in Seq(Entry) /\ Len(<<>>) = 0
  /\ 0 <= FifoDepth /\ 0 <= BatchLen /\ 0 \in 0 .. BatchLen - 1
BY WriterAssumption

LEMMA SpoiltType ==
  ASSUME NEW s \in Seq(Entry)
  PROVE  Spoilt(s) \in Seq(Entry) /\ Len(Spoilt(s)) = Len(s)
<1>1. \A i \in 1 .. Len(s) : s[i] \in Entry
  OBVIOUS
<1>2. \A i \in 1 .. Len(s) : [s[i] EXCEPT !.tag = "bad"] \in Entry
  BY <1>1 DEF Entry, Tags
<1>3. DOMAIN s = 1 .. Len(s) /\ Len(s) \in Nat
  OBVIOUS
<1> QED
  BY <1>2, <1>3 DEF Spoilt

\* A quad of the capture side fits the queue.
LEMMA PushedType ==
  ASSUME CaptureRange, QueueRange, Room, x < RowQuads, NEW b \in Buffers, NEW t \in Tags
  PROVE  Pushed(b, t) \in Seq(Entry) /\ Len(Pushed(b, t)) <= FifoDepth
<1>1. [at |-> [buf |-> b, row |-> y, quad |-> x], tag |-> t] \in Entry
  BY WriterAssumption DEF CaptureRange, Entry, Cell, Quads
<1>2. Len(fifo) + 1 <= FifoDepth
  BY WriterAssumption DEF QueueRange, Room
<1> QED
  BY <1>1, <1>2 DEF Pushed, QueueRange

LEMMA QueueStep == ArbiterInv /\ RangeInv /\ [Next]_vars => QueueRange'
<1> SUFFICES ASSUME ArbiterInv, RangeInv, [Next]_vars PROVE QueueRange'
  OBVIOUS
<1> USE WriterAssumption
<1>0. CaptureRange /\ QueueRange
  BY DEF RangeInv
<1>1. CASE UNCHANGED <<fifo, drain>>
  BY <1>0, <1>1 DEF QueueRange, drain
<1>2. CASE Capture
  <2>1. fifo' \in Seq(Entry) /\ Len(fifo') <= FifoDepth
    BY <1>0, <1>2, PushedType DEF Capture, Pixels, CaptureRange, QueueRange, Tags
  <2> QED
    BY <1>0, <1>2, <2>1 DEF Capture, Pixels, QueueRange, drain
<1>3. CASE Writing
  <2>1. CASE Sweep
    <3>1. fifo' \in Seq(Entry) /\ Len(fifo') <= FifoDepth
      BY <1>0, <2>1, PushedType DEF Sweep, CaptureRange, Tags
    <3> QED
      BY <1>0, <2>1, <3>1 DEF Sweep, QueueRange, drain
  <2>2. CASE HSync
    BY <1>1, <2>2 DEF HSync
  <2>3. CASE PopFirst
    <3>1. Head(fifo) \in Entry /\ Tail(fifo) \in Seq(Entry) /\ Len(Tail(fifo)) <= FifoDepth
      BY <1>0, <2>3 DEF PopFirst, QueueRange
    <3>2. <<Head(fifo)>> \in Seq(Entry) /\ Len(<<Head(fifo)>>) = 1
      BY <3>1
    <3>3. /\ fifo' = Tail(fifo) /\ batch' = <<Head(fifo)>> /\ flushing' \in BOOLEAN /\ flushIdx' = 0
          /\ flight = "none" /\ flight' = flight
      BY <2>3 DEF PopFirst, CanPop
    <3> QED
      BY <3>1, <3>2, <3>3 DEF QueueRange
  <2>4. CASE PopNext
    <3>1. Head(fifo) \in Entry /\ Tail(fifo) \in Seq(Entry) /\ Len(Tail(fifo)) <= FifoDepth
      BY <1>0, <2>4 DEF PopNext, QueueRange
    <3>2. batch' \in Seq(Entry) /\ Len(batch') = Len(batch) + 1
      BY <1>0, <2>4, <3>1 DEF PopNext, QueueRange
    <3>3. /\ fifo' = Tail(fifo) /\ UNCHANGED <<flushing, flushIdx, flight>>
          /\ flight = "none" /\ Len(batch) < BatchLen
      BY <2>4 DEF PopNext, CanPop
    <3> QED
      BY <1>0, <3>1, <3>2, <3>3 DEF QueueRange
  <2>5. CASE FlushPartial
    <3>1. batch # <<>> /\ flushing' = TRUE /\ flushIdx' = 0 /\ UNCHANGED <<fifo, batch, flight>>
      BY <2>5 DEF FlushPartial
    <3>2. 0 < Len(batch)
      BY <1>0, <3>1 DEF QueueRange
    <3> QED
      BY <1>0, <3>1, <3>2 DEF QueueRange
  <2>6. CASE WriteRequest
    BY <1>0, <2>6 DEF WriteRequest, CanSend, QueueRange
  <2> QED
    BY <1>3, <2>1, <2>2, <2>3, <2>4, <2>5, <2>6 DEF Writing, Write
<1>4. CASE WriteEnds
  <2>1. flight # "none"
    BY <1>4 DEF WriteEnds, WriteDone, Complete, ArbiterInv, Asking
  <2>2. fifo' = fifo /\ flight' = "none"
    BY <1>4 DEF WriteEnds, WriteDone
  <2>3. CASE flight = "wide" \/ flushIdx = Len(batch) - 1
    <3>1. batch' = <<>> /\ flushing' = FALSE /\ flushIdx' = 0
      BY <1>4, <2>3 DEF WriteEnds, WriteDone
    <3> QED
      BY <1>0, <2>2, <3>1, EmptyInRange DEF QueueRange
  <2>4. CASE ~(flight = "wide" \/ flushIdx = Len(batch) - 1)
    <3>1. flushIdx' = flushIdx + 1 /\ UNCHANGED <<batch, flushing>>
      BY <1>4, <2>4 DEF WriteEnds, WriteDone
    <3>2. flushing /\ flushIdx < Len(batch)
      BY <1>0, <2>1, <2>4 DEF QueueRange
    <3>3. Len(batch) \in Nat /\ Len(batch) <= BatchLen /\ flushIdx \in Nat
      BY <1>0 DEF QueueRange
    <3>4. flushIdx + 1 < Len(batch) /\ flushIdx + 1 \in 0 .. BatchLen - 1
      BY <2>4, <3>2, <3>3
    <3> QED
      BY <1>0, <2>2, <3>1, <3>4 DEF QueueRange
  <2> QED
    BY <2>3, <2>4
<1>5. CASE FrameCaptured \/ WriteServed \/ Line \/ Ring \/ Reading \/ ReadEnds
  BY <1>1, <1>5 DEF FrameCaptured, VSync, WriteServed, Line, LineEnd, Ring, Prefetch, Fetched, Reading,
     StartFetch, ReadServed, ReadMore, RowDone, ReadEnds, ReadDone, writer
<1>6. CASE LoaderRequest \/ LoaderServed \/ LoaderDone \/ Ready \/ MenuCloses \/ UNCHANGED vars
  BY <1>1, <1>6 DEF LoaderRequest, LoaderServed, LoaderDone, Ready, MenuCloses, writer, vars
<1>7. CASE MenuOpens
  <2>1. /\ fifo' = Spoilt(fifo) /\ batch' = Spoilt(batch) /\ UNCHANGED <<flushing, flushIdx, flight>>
    BY <1>7 DEF MenuOpens, Freeze
  <2>2. /\ fifo' \in Seq(Entry) /\ Len(fifo') = Len(fifo)
        /\ batch' \in Seq(Entry) /\ Len(batch') = Len(batch)
    BY <1>0, <2>1, SpoiltType DEF QueueRange
  <2> QED
    BY <1>0, <2>1, <2>2 DEF QueueRange
<1>8. CASE Reset
  <2>1. fifo' = <<>> /\ batch' = <<>> /\ flushing' = FALSE /\ flushIdx' = 0 /\ flight' = "none"
    BY <1>8 DEF Reset, WriterReset
  <2> QED
    BY <2>1, EmptyInRange DEF QueueRange
<1> QED
  BY <1>2, <1>3, <1>4, <1>5, <1>6, <1>7, <1>8 DEF Next

\* What the controller writes are quads of the batch: a single one at flushIdx, or all of a whole one.
LEMMA WrittenType ==
  ASSUME QueueRange, CellsRange, flight # "none"
  PROVE  Written \in [Buffers -> [Rows -> [Quads -> Tags]]]
<1> USE WriterAssumption
<1>1. Len(batch) \in Nat /\ 0 < Len(batch) /\ \A i \in 1 .. Len(batch) : batch[i] \in Entry
  BY DEF QueueRange
<1>2. batch[1] \in Entry
  BY <1>1
<1>3. BatchBase \in Cell
  BY <1>2 DEF BatchBase, Entry
<1> DEFINE first == IF wrWide THEN 0 ELSE flushIdx
           count == IF wrWide THEN BatchLen ELSE 1
           quad  == BatchBase.quad + first
           tag(q) == LET e == batch[q - BatchBase.quad + 1]
                     IN IF e.at.row = BatchBase.row /\ e.at.quad = q THEN e.tag ELSE "bad"
           row == [q \in Quads |-> IF q \in quad .. quad + count - 1 THEN tag(q)
                                   ELSE mem[BatchBase.buf][BatchBase.row][q]]
<1>4. /\ BatchBase.quad \in Nat /\ first \in Nat /\ count \in Nat /\ first + count <= Len(batch)
  <2>1. BatchBase.quad \in Nat
    BY <1>3 DEF Cell, Quads
  <2>2. flight = "wide" => Len(batch) = BatchLen
    BY DEF QueueRange
  <2>3. flight # "wide" => flushIdx < Len(batch) /\ flushIdx \in Nat
    BY DEF QueueRange
  <2> QED
    BY <1>1, <2>1, <2>2, <2>3 DEF wrWide
<1>5. ASSUME NEW q \in Quads, q \in quad .. quad + count - 1 PROVE tag(q) \in Tags
  <2>1. q - BatchBase.quad + 1 \in 1 .. Len(batch)
    <3>1. ASSUME NEW b \in Nat, NEW f \in Nat, NEW c \in Nat, NEW l \in Nat, f + c <= l, NEW r \in Nat,
                 r \in (b + f) .. (b + f + c - 1)
          PROVE  r - b + 1 \in 1 .. l
      BY <3>1
    <3>2. q \in Nat
      BY DEF Quads
    <3> HIDE DEF first, count
    <3> QED
      BY <1>1, <1>4, <1>5, <3>1, <3>2
  <2>2. batch[q - BatchBase.quad + 1] \in Entry
    BY <1>1, <2>1
  <2> QED
    BY <2>2 DEF Entry, Tags
<1>6. BatchBase.buf \in Buffers /\ BatchBase.row \in Rows
  BY <1>3 DEF Cell
<1>7. mem[BatchBase.buf][BatchBase.row] \in [Quads -> Tags]
  BY <1>6 DEF CellsRange
<1>8. row \in [Quads -> Tags]
  <2> HIDE DEF tag, quad, count
  <2> QED
    BY <1>5, <1>7
<1>9. Written = [mem EXCEPT ![BatchBase.buf] = [mem[BatchBase.buf] EXCEPT ![BatchBase.row] = row]]
  BY <1>6 DEF Written, CellsRange
<1> HIDE DEF row
<1>10. [mem[BatchBase.buf] EXCEPT ![BatchBase.row] = row] \in [Rows -> [Quads -> Tags]]
  BY <1>6, <1>8 DEF CellsRange
<1> QED
  BY <1>6, <1>9, <1>10 DEF CellsRange

LEMMA TurnedType ==
  ASSUME CellsRange
  PROVE  [b \in Buffers |-> Turned(b)] \in [Buffers -> [Rows -> [Quads -> Tags]]]
<1>1. ASSUME NEW b \in Buffers PROVE Turned(b) \in [Rows -> [Quads -> Tags]]
  <2>1. ASSUME NEW r \in Rows
        PROVE  /\ mem[b][r] \in [Quads -> Tags]
               /\ Aged(mem[b][r]) \in [Quads -> Tags]
               /\ Blurred(mem[b][r]) \in [Quads -> Tags]
    <3>1. mem[b][r] \in [Quads -> Tags]
      BY <1>1, <2>1 DEF CellsRange
    <3> QED
      BY <3>1 DEF Aged, Blurred, Tags
  <2> QED
    BY <2>1 DEF Turned
<1> QED
  BY <1>1

LEMMA CellsStep == ArbiterInv /\ RangeInv /\ [Next]_vars => CellsRange'
<1> SUFFICES ASSUME ArbiterInv, RangeInv, [Next]_vars PROVE CellsRange'
  OBVIOUS
<1>0. QueueRange /\ CellsRange
  BY DEF RangeInv
<1>1. CASE mem' = mem
  BY <1>0, <1>1 DEF CellsRange
<1>2. CASE FrameCaptured
  <2>1. mem' = [b \in Buffers |-> Turned(b)]
    BY <1>2 DEF FrameCaptured, VSync
  <2> QED
    BY <1>0, <2>1, TurnedType DEF CellsRange
<1>3. CASE WriteEnds
  <2>1. flight # "none" /\ mem' = Written
    BY <1>3 DEF WriteEnds, WriteDone, Complete, ArbiterInv, Asking
  <2> QED
    BY <1>0, <2>1, WrittenType DEF CellsRange
<1>4. CASE Reset
  BY <1>4 DEF Reset, WriterReset, Unknown, CellsRange, Tags
<1>5. CASE Capture \/ Writing \/ WriteServed \/ Line \/ Ring \/ Reading \/ ReadEnds
  BY <1>1, <1>5 DEF Capture, Pixels, Writing, Write, Sweep, HSync, PopFirst, PopNext, FlushPartial,
     WriteRequest, WriteServed, Line, LineEnd, Ring, Prefetch, Fetched, Reading, StartFetch, ReadServed,
     ReadMore, RowDone, ReadEnds, ReadDone
<1>6. CASE LoaderRequest \/ LoaderServed \/ LoaderDone \/ Ready \/ MenuOpens \/ MenuCloses \/ UNCHANGED vars
  BY <1>1, <1>6 DEF LoaderRequest, LoaderServed, LoaderDone, Ready, MenuOpens, Freeze, MenuCloses, vars
<1> QED
  BY <1>2, <1>3, <1>4, <1>5, <1>6 DEF Next

LEMMA ScanMoves == ASSUME ScanRange, Scan PROVE ScanRange'
<1> USE WriterAssumption, ReaderAssumption
<1>0. /\ vc \in Nat /\ vAcc \in 0 .. VActive - 1 /\ curSrcY \in Rows /\ SrcH \in Nat \ {0}
      /\ VActive \in Nat \ {0} /\ 2 * SrcH <= VActive /\ VActive < VTotal /\ VTotal \in Nat
      /\ 0 \in Rows /\ vc <= VTotal - 1
  BY DEF ScanRange, Rows
<1>1. CASE lastLine
  BY <1>0, <1>1 DEF Scan, ScanRange
<1>2. CASE ~lastLine /\ vc + 1 < VActive
  <2>1. /\ vc' = vc + 1 /\ vAcc' = (vAcc + SrcH) % VActive
        /\ curSrcY' = IF StepsRow THEN curSrcY + 1 ELSE curSrcY
    BY <1>2 DEF Scan
  <2>2. curSrcY * VActive + vAcc = vc * SrcH
    BY <1>0, <1>2 DEF ScanRange
  <2>3. vAcc' \in 0 .. VActive - 1
    BY <1>0, <2>1, ModRange
  <2>4. CASE StepsRow
    <3>1. vAcc + SrcH >= VActive /\ curSrcY' = curSrcY + 1
      BY <2>1, <2>4 DEF StepsRow
    <3>2. /\ curSrcY + 1 \in Rows
          /\ (curSrcY + 1) * VActive + ((vAcc + SrcH) % VActive) = (vc + 1) * SrcH
      <4>1. vc < VActive /\ vc + 1 < VActive
        BY <1>0, <1>2
      <4> HIDE WriterAssumption, ReaderAssumption
      <4> QED
        BY <1>0, <4>1, <2>2, <3>1, StepsWithin
    <3> QED
      BY <1>0, <1>2, <2>1, <2>3, <3>1, <3>2 DEF ScanRange
  <2>5. CASE ~StepsRow
    <3>1. vAcc + SrcH < VActive /\ curSrcY' = curSrcY
      BY <1>0, <2>1, <2>5 DEF StepsRow
    <3>2. vAcc' = vAcc + SrcH
      BY <1>0, <2>1, <3>1, ModSmall
    <3>3. (vc + 1) * SrcH = vc * SrcH + SrcH
      BY <1>0, Distributes
    <3>4. curSrcY * VActive \in Nat /\ vc * SrcH \in Nat
      BY <1>0 DEF Rows
    <3>5. curSrcY * VActive + (vAcc + SrcH) = (vc + 1) * SrcH
      BY <1>0, <2>2, <3>3, <3>4
    <3> QED
      BY <1>0, <1>2, <2>1, <2>3, <3>1, <3>2, <3>5 DEF ScanRange
  <2> QED
    BY <2>4, <2>5
<1>3. CASE ~lastLine /\ ~(vc + 1 < VActive)
  <2>1. vc' = vc + 1 /\ UNCHANGED <<vAcc, curSrcY>> /\ vc # VTotal - 1
    BY <1>3 DEF Scan, lastLine
  <2> QED
    BY <1>0, <1>3, <2>1 DEF ScanRange
<1> QED
  BY <1>1, <1>2, <1>3

LEMMA ScanStep == RangeInv /\ [Next]_vars => ScanRange'
<1> SUFFICES ASSUME RangeInv, [Next]_vars PROVE ScanRange'
  OBVIOUS
<1>1. CASE UNCHANGED scan
  BY <1>1 DEF scan, RangeInv, ScanRange
<1>2. CASE Line
  BY <1>2, ScanMoves DEF Line, LineEnd, RangeInv
<1>3. CASE Capture \/ FrameCaptured \/ Writing \/ WriteServed \/ WriteEnds \/ Ring \/ Reading \/ ReadEnds
  BY <1>1, <1>3 DEF Capture, FrameCaptured, Writing, WriteServed, WriteEnds, Ring, Prefetch, Fetched, Reading,
     StartFetch, ReadServed, ReadMore, RowDone, ReadEnds, ReadDone, reader
<1>4. CASE LoaderRequest \/ LoaderServed \/ LoaderDone \/ Ready \/ MenuOpens \/ MenuCloses \/ Reset \/ UNCHANGED vars
  BY <1>1, <1>4 DEF LoaderRequest, LoaderServed, LoaderDone, Ready, MenuOpens, MenuCloses, Reset,
     ReaderAbort, vars, reader
<1> QED
  BY <1>2, <1>3, <1>4 DEF Next

LEMMA RingStep == RangeInv /\ [Next]_vars => RingRange'
<1> SUFFICES ASSUME RangeInv, [Next]_vars PROVE RingRange'
  OBVIOUS
<1>0. RingRange /\ ready \in BOOLEAN
  BY DEF RangeInv, CaptureRange
<1>1. CASE UNCHANGED <<dispBank, ring, reqEdge, ackEdge, crossing>>
  BY <1>0, <1>1 DEF RingRange, ring
<1>2. CASE Line
  <2>1. ScanRange'
    BY <1>2, ScanStep
  <2>2. /\ dispBank' \in Banks /\ crossing' = FALSE /\ ackEdge' = ackEdge
    BY <1>0, <1>2, Ranges DEF Line, LineEnd, RingRange
  <2>3. NextSrcY(vc', vAcc', curSrcY') \in Rows
    BY <2>1, NextRowIsARow DEF ScanRange
  <2>4. CASE UNCHANGED <<ring, reqEdge>>
    BY <1>0, <2>2, <2>4 DEF RingRange, ring
  <2>5. CASE ~UNCHANGED <<ring, reqEdge>>
    <3> DEFINE row == NextSrcY(vc', vAcc', curSrcY')
    <3>1. /\ bankOk' = NoRows /\ want' = [row |-> row, bank |-> dispBank']
          /\ reqEdge' = TRUE /\ fetchBusy' = TRUE
          /\ fY' = NextRow(row) /\ wrB' = NextBank(dispBank') /\ UNCHANGED bankY
      BY <1>2, <2>5 DEF Line, LineEnd, Restart
    <3>2. row \in Rows
      BY <2>3
    <3> HIDE DEF row
    <3> QED
      BY <1>0, <2>2, <3>1, <3>2, Ranges DEF RingRange, NoRows
  <2> QED
    BY <2>4, <2>5
<1>3. CASE Ring
  <2>1. CASE Prefetch
    BY <1>0, <2>1, Ranges DEF Prefetch, RingRange
  <2>2. CASE Fetched
    BY <1>0, <2>2 DEF Fetched, RingRange
  <2> QED
    BY <1>3, <2>1, <2>2 DEF Ring
<1>4. CASE Reading \/ ReadEnds
  BY <1>0, <1>4 DEF Reading, StartFetch, ReadServed, ReadMore, RowDone, ReadEnds, ReadDone, RingRange, ring
<1>5. CASE FrameCaptured
  BY <1>0, <1>5 DEF FrameCaptured, RingRange, ring
<1>6. CASE Capture \/ Writing \/ WriteServed \/ WriteEnds \/ LoaderRequest \/ LoaderServed \/ LoaderDone
  BY <1>1, <1>6 DEF Capture, Writing, WriteServed, WriteEnds, LoaderRequest, LoaderServed, LoaderDone, reader
<1>7. CASE Ready \/ MenuOpens \/ MenuCloses \/ UNCHANGED vars
  BY <1>1, <1>7 DEF Ready, MenuOpens, MenuCloses, vars, reader
<1>8. CASE Reset
  BY <1>0, <1>8, Ranges DEF Reset, ReaderAbort, RingRange, NoRows, NoTag, Row0
<1> QED
  BY <1>2, <1>3, <1>4, <1>5, <1>6, <1>7, <1>8 DEF Next

LEMMA FetchStep == RangeInv /\ [Next]_vars => FetchRange'
<1> SUFFICES ASSUME RangeInv, [Next]_vars PROVE FetchRange'
  OBVIOUS
<1>0. FetchRange /\ RingRange /\ CellsRange /\ readyBuf \in Buffers
  BY DEF RangeInv, CaptureRange
<1>1. CASE UNCHANGED <<fetching, readBufDisp>>
  BY <1>0, <1>1 DEF FetchRange, fetching
<1>2. CASE Line
  <2>1. Sampled \subseteq 0 .. 3
    BY <1>0 DEF Sampled, Mixed, Buffers
  <2>2. readBufDisp' \in 0 .. 3
    BY <1>0, <1>2, <2>1 DEF Line, LineEnd, FetchRange
  <2> QED
    BY <1>0, <1>2, <2>2 DEF Line, LineEnd, fetching, FetchRange
<1>3. CASE Reading
  <2>1. CASE StartFetch
    BY <1>0, <2>1, Ranges DEF StartFetch, FetchRange, RingRange
  <2>2. CASE ReadServed
    BY <1>0, <2>2 DEF ReadServed, FetchRange
  <2>3. CASE ReadMore
    BY <1>0, <2>3, WriterAssumption DEF ReadMore, FetchRange, Quads
  <2>4. CASE RowDone
    BY <1>0, <2>4 DEF RowDone, FetchRange
  <2> QED
    BY <1>3, <2>1, <2>2, <2>3, <2>4 DEF Reading
<1>4. CASE ReadEnds
  <2>1. /\ fetch' = "unload" /\ UNCHANGED <<readBufDisp, fx, snap, readFrom>>
        /\ cache' = [cache EXCEPT ![snap.bank] =
                       [q \in Quads |-> IF q \in fx .. fx + BatchLen - 1
                                        THEN Read(readFrom, snap.row, q) ELSE @[q]]]
    BY <1>4 DEF ReadEnds, ReadDone
  <2>2. snap.bank \in Banks /\ snap.row \in Rows /\ readFrom \in 0 .. 3
    BY <1>0 DEF FetchRange
  <2>3. ASSUME NEW q \in Quads
        PROVE  Read(readFrom, snap.row, q) \in [buf : 0 .. 3, row : Rows, tag : Tags]
    <3>1. readFrom \in Buffers => mem[readFrom][snap.row][q] \in Tags
      BY <1>0, <2>2 DEF CellsRange
    <3>2. (IF readFrom \in Buffers \ {writeBuf} /\ ~clearing THEN mem[readFrom][snap.row][q] ELSE "bad") \in Tags
      BY <3>1 DEF Tags
    <3> QED
      BY <2>2, <3>2 DEF Read
  <2>4. cache' \in [Banks -> [Quads -> [buf : 0 .. 3, row : Rows, tag : Tags]]]
    BY <1>0, <2>1, <2>2, <2>3 DEF FetchRange
  <2> QED
    BY <1>0, <2>1, <2>4 DEF FetchRange
<1>5. CASE Capture \/ FrameCaptured \/ Writing \/ WriteServed \/ WriteEnds \/ Ring
  BY <1>1, <1>5 DEF Capture, FrameCaptured, Writing, WriteServed, WriteEnds, Ring, Prefetch, Fetched, reader
<1>6. CASE LoaderRequest \/ LoaderServed \/ LoaderDone \/ Ready \/ MenuOpens \/ MenuCloses \/ UNCHANGED vars
  BY <1>1, <1>6 DEF LoaderRequest, LoaderServed, LoaderDone, Ready, MenuOpens, MenuCloses, vars, reader
<1>7. CASE Reset
  BY <1>0, <1>7, Ranges DEF Reset, ReaderAbort, FetchRange, Row0, Unfilled, Tags
<1> QED
  BY <1>2, <1>3, <1>4, <1>5, <1>6, <1>7 DEF Next

LEMMA RangeInvariant == Spec => []RangeInv
<1>1. Init => RangeInv
  <2> SUFFICES ASSUME Init PROVE RangeInv
    OBVIOUS
  <2>1. CaptureRange
    <3>1. /\ 0 \in Rows /\ 0 \in 0 .. RowQuads /\ 0 < RowQuads /\ 0 \in 0 .. VSkip
          /\ 0 \in 0 .. VSkip + SrcH /\ 0 \in Buffers
      BY WriterAssumption DEF Rows, Buffers
    <3> QED
      BY <3>1 DEF Init, WriterInit, CaptureRange
  <2>2. QueueRange
    BY EmptyInRange DEF Init, WriterInit, QueueRange
  <2>3. CellsRange
    BY DEF Init, WriterInit, Unknown, CellsRange, Tags
  <2>4. ScanRange
    BY WriterAssumption, ReaderAssumption DEF Init, ReaderInit, ScanRange, Rows
  <2>5. RingRange
    BY Ranges DEF Init, ReaderInit, RingRange, NoRows, NoTag, Row0
  <2>6. FetchRange
    BY Ranges DEF Init, ReaderInit, FetchRange, Row0, Unfilled, Tags
  <2> QED
    BY <2>1, <2>2, <2>3, <2>4, <2>5, <2>6 DEF RangeInv
<1>2. ArbiterInv /\ RangeInv /\ [Next]_vars => RangeInv'
  BY CaptureStep, QueueStep, CellsStep, ScanStep, RingStep, FetchStep DEF RangeInv
<1> QED
  BY <1>1, <1>2, ArbiterInvariant, PTL DEF Spec

\* The registers of the three units keep their ranges for every geometry: queue and batch never
\* overflow, and the row number the reader's DDA arrives at stays within a buffer.
THEOREM RegistersInRange == Spec => []TypeOK
<1>1. ArbiterInv /\ RangeInv => TypeOK
  BY DEF ArbiterInv, RangeInv, CaptureRange, QueueRange, CellsRange, ScanRange, RingRange, FetchRange,
         TypeOK, WriterType, ReaderType
<1> QED
  BY <1>1, ArbiterInvariant, RangeInvariant, PTL

(***************************************************************************)
(* The picture                                                             *)
(***************************************************************************)
\* A cell left of XStart, in a row that a resuming capture does not reach.
Margin(at) == at.row # 0 /\ at.quad < XStart

\* The quads on their way to SDRAM: the queue, and what a flush has not written of the batch.
Queue == {fifo[i] : i \in 1 .. Len(fifo)} \cup {batch[i] : i \in flushIdx + 1 .. Len(batch)}

At(b, r, q) == [buf |-> b, row |-> r, quad |-> q]
Holding(b, r, q, t) == mem[b][r][q] = t \/ \E e \in Queue : e.at = At(b, r, q)

\* The batch is a run of consecutive quads, written from its start.
BatchRun ==
  /\ \A i \in 1 .. Len(batch) : batch[i].at = At(BatchBase.buf, BatchBase.row, BatchBase.quad + i - 1)
  /\ ~flushing => flushIdx = 0
  /\ flight = "wide" => ~flushing

\* What is to be written is black in the margin, and new while the capture is undisturbed.
QueueRight ==
  /\ \A e \in Queue : Margin(e.at) => e.tag = "black"
  /\ framed => \A e \in Queue : e.tag = "new" /\ e.at.buf = writeBuf /\ e.at.quad >= XStart

\* The sweep leaves the margin black, and no capture comes back to it.
Swept(b, r, q) == ~clearing \/ b < clearBuf \/ (b = clearBuf /\ (r < y \/ (r = y /\ q < x)))
Margins ==
  /\ ~clearing /\ x < XStart => y = 0
  /\ \A b \in Buffers, r \in Rows, q \in Quads :
       Margin(At(b, r, q)) /\ Swept(b, r, q) => Holding(b, r, q, "black")

\* An undisturbed capture stands where the core's line says, and has what lies before it.
firstLine == IF VSkip = 0 THEN 1 ELSE VSkip
Position ==
  /\ skipCnt = IF line < VSkip THEN VSkip - line ELSE 0
  /\ armed <=> (line = 0 \/ line < VSkip)
  /\ y = IF line <= firstLine THEN 0 ELSE IF line - firstLine < SrcH THEN line - firstLine ELSE SrcH - 1
  /\ x >= XStart
Captured ==
  framed => /\ enable /\ ~clearing /\ Position
            /\ \A r \in Rows, q \in Quads :
                 q >= XStart /\ (r < y \/ (r = y /\ q < x)) => Holding(writeBuf, r, q, "new")

\* The buffers captured since the last disturbance hold one picture.
Full(b) == \A r \in Rows, q \in Quads : q >= XStart => mem[b][r][q] = "new"
Finished ==
  /\ calm > 0 => framed
  /\ calm > 1 => Full(readyBuf)
  /\ calm > 2 => Full(PrevBuf(readyBuf))

PictureInv == BatchRun /\ QueueRight /\ Margins /\ Captured /\ Finished

(* What the queue's operations do to the quads on their way *)
LEMMA QueuePushed ==
  ASSUME QueueRange, NEW e \in Entry, fifo' = Append(fifo, e), UNCHANGED <<batch, flushIdx>>
  PROVE  Queue' = Queue \cup {e}
<1>1. /\ Len(fifo') = Len(fifo) + 1 /\ Len(fifo) \in Nat
      /\ \A i \in 1 .. Len(fifo) : fifo'[i] = fifo[i]
      /\ fifo'[Len(fifo) + 1] = e
  BY DEF QueueRange
<1>2. {fifo'[i] : i \in 1 .. Len(fifo')} = {fifo[i] : i \in 1 .. Len(fifo)} \cup {e}
  <2>1. \A i \in 1 .. Len(fifo') : i \in 1 .. Len(fifo) \/ i = Len(fifo) + 1
    BY <1>1
  <2>2. /\ \A i \in 1 .. Len(fifo) : i \in 1 .. Len(fifo')
        /\ Len(fifo) + 1 \in 1 .. Len(fifo')
    BY <1>1
  <2> QED
    BY <1>1, <2>1, <2>2
<1> QED
  BY <1>2 DEF Queue

LEMMA QueuePopped ==
  ASSUME QueueRange, BatchRun, PopFirst \/ PopNext
  PROVE  Queue' = Queue
<1>1. /\ fifo \in Seq(Entry) /\ fifo # <<>> /\ flushIdx = 0 /\ flushIdx' = 0 /\ fifo' = Tail(fifo)
      /\ batch \in Seq(Entry) /\ batch' = Append(batch, Head(fifo))
  <2>1. fifo \in Seq(Entry) /\ batch \in Seq(Entry) /\ fifo # <<>> /\ flushIdx = 0 /\ fifo' = Tail(fifo)
    BY DEF PopFirst, PopNext, CanPop, QueueRange, BatchRun
  <2>2. Head(fifo) \in Entry
    BY <2>1
  <2>3. CASE PopFirst
    BY <2>1, <2>2, <2>3 DEF PopFirst
  <2>4. CASE PopNext
    BY <2>1, <2>4 DEF PopNext
  <2> QED
    BY <2>1, <2>3, <2>4
<1>2. /\ Len(fifo') = Len(fifo) - 1 /\ Len(fifo) \in Nat \ {0}
      /\ \A i \in 1 .. Len(fifo) - 1 : fifo'[i] = fifo[i + 1]
      /\ Head(fifo) = fifo[1]
      /\ Head(fifo) \in Entry
  BY <1>1
<1>3. /\ Len(batch') = Len(batch) + 1 /\ Len(batch) \in Nat
      /\ \A i \in 1 .. Len(batch) : batch'[i] = batch[i]
      /\ batch'[Len(batch) + 1] = fifo[1]
  BY <1>1, <1>2
<1>4. {fifo[i] : i \in 1 .. Len(fifo)} = {fifo'[i] : i \in 1 .. Len(fifo')} \cup {fifo[1]}
  <2>1. ASSUME NEW i \in 1 .. Len(fifo), i # 1 PROVE \E j \in 1 .. Len(fifo') : fifo'[j] = fifo[i]
    <3>1. i - 1 \in 1 .. Len(fifo) - 1 /\ (i - 1) + 1 = i
      BY <1>2, <2>1
    <3> QED
      BY <1>2, <3>1
  <2>2. ASSUME NEW j \in 1 .. Len(fifo') PROVE \E i \in 1 .. Len(fifo) : fifo'[j] = fifo[i]
    <3>1. j + 1 \in 1 .. Len(fifo) /\ j \in 1 .. Len(fifo) - 1
      BY <1>2, <2>2
    <3> QED
      BY <1>2, <3>1
  <2>3. 1 \in 1 .. Len(fifo)
    BY <1>2
  <2>4. {fifo[i] : i \in 1 .. Len(fifo)} \subseteq {fifo'[i] : i \in 1 .. Len(fifo')} \cup {fifo[1]}
    BY <2>1, Zenon
  <2>5. {fifo'[i] : i \in 1 .. Len(fifo')} \cup {fifo[1]} \subseteq {fifo[i] : i \in 1 .. Len(fifo)}
    BY <2>2, <2>3, Zenon
  <2> QED
    BY <2>4, <2>5, Zenon
<1>5. {batch'[i] : i \in 1 .. Len(batch')} = {batch[i] : i \in 1 .. Len(batch)} \cup {fifo[1]}
  <2>1. \A i \in 1 .. Len(batch') : i \in 1 .. Len(batch) \/ i = Len(batch) + 1
    BY <1>3
  <2>2. /\ \A i \in 1 .. Len(batch) : i \in 1 .. Len(batch')
        /\ Len(batch) + 1 \in 1 .. Len(batch')
    BY <1>3
  <2> QED
    BY <1>3, <2>1, <2>2
<1>6. /\ Queue = {fifo[i] : i \in 1 .. Len(fifo)} \cup {batch[i] : i \in 1 .. Len(batch)}
      /\ Queue' = {fifo'[i] : i \in 1 .. Len(fifo')} \cup {batch'[i] : i \in 1 .. Len(batch')}
  BY <1>1 DEF Queue
<1> QED
  BY <1>4, <1>5, <1>6

\* What a completed write does: a cell is written with the quad on its way to it, or left alone
\* with the quads that are still on their way.
LEMMA WriteLands ==
  ASSUME QueueRange, CellsRange, BatchRun, WriteDone, flight # "none",
         NEW b \in Buffers, NEW r \in Rows, NEW q \in Quads
  PROVE  /\ Queue' \subseteq Queue
         /\ \/ \E e \in Queue : e.at = At(b, r, q) /\ mem'[b][r][q] = e.tag
            \/ /\ mem'[b][r][q] = mem[b][r][q]
               /\ \A e \in Queue : e.at = At(b, r, q) => e \in Queue'
<1> USE WriterAssumption
<1>1. /\ Len(batch) \in Nat /\ 0 < Len(batch) /\ flushIdx \in Nat /\ fifo' = fifo
      /\ \A i \in 1 .. Len(batch) : batch[i] \in Entry
  BY DEF QueueRange, WriteDone
<1>2. BatchBase \in Cell
  BY <1>1 DEF BatchBase, Entry
<1> DEFINE base  == BatchBase.quad
           first == IF wrWide THEN 0 ELSE flushIdx
           count == IF wrWide THEN BatchLen ELSE 1
           tag(k) == LET e == batch[k - base + 1]
                     IN IF e.at.row = BatchBase.row /\ e.at.quad = k THEN e.tag ELSE "bad"
<1>3. base \in Nat /\ BatchBase.buf \in Buffers /\ BatchBase.row \in Rows
  BY <1>2 DEF Cell, Quads
<1>4. /\ first = flushIdx /\ count \in Nat /\ first + count <= Len(batch)
      /\ flight = "wide" \/ flushIdx = Len(batch) - 1 => first + count = Len(batch)
      /\ ~(flight = "wide" \/ flushIdx = Len(batch) - 1) => count = 1
  BY <1>1 DEF wrWide, QueueRange, BatchRun
<1>5. mem'[b][r][q] = IF /\ b = BatchBase.buf /\ r = BatchBase.row
                         /\ q \in base + first .. base + first + count - 1
                      THEN tag(q) ELSE mem[b][r][q]
  BY <1>3 DEF WriteDone, Written, CellsRange
<1>6. IF flight = "wide" \/ flushIdx = Len(batch) - 1
      THEN batch' = <<>> /\ flushIdx' = 0
      ELSE batch' = batch /\ flushIdx' = flushIdx + 1
  BY DEF WriteDone
<1>7. Queue' \subseteq Queue
  <2>1. CASE flight = "wide" \/ flushIdx = Len(batch) - 1
    BY <1>1, <1>6, <2>1 DEF Queue
  <2>2. CASE ~(flight = "wide" \/ flushIdx = Len(batch) - 1)
    <3>1. flushIdx' + 1 .. Len(batch') \subseteq flushIdx + 1 .. Len(batch)
      BY <1>1, <1>6, <2>2
    <3> QED
      BY <1>1, <1>6, <2>2, <3>1 DEF Queue
  <2> QED
    BY <2>1, <2>2
<1>8. ASSUME b = BatchBase.buf, r = BatchBase.row, q \in base + first .. base + first + count - 1
      PROVE  \E e \in Queue : e.at = At(b, r, q) /\ mem'[b][r][q] = e.tag
  <2> DEFINE i == q - base + 1
  <2>1. i \in 1 .. Len(batch) /\ i \in flushIdx + 1 .. Len(batch) /\ base + i - 1 = q
    <3>1. q \in Int
      BY <1>8
    <3> HIDE DEF base, count, first
    <3> QED
      BY <1>1, <1>3, <1>4, <1>8, <3>1
  <2>2. batch[i].at = At(b, r, q) /\ batch[i] \in Queue
    BY <1>8, <2>1 DEF BatchRun, Queue
  <2>3. batch[i].at.row = BatchBase.row /\ batch[i].at.quad = q
    BY <1>8, <2>2 DEF At
  <2>4. mem'[b][r][q] = batch[i].tag
    BY <1>5, <1>8, <2>3
  <2> QED
    BY <2>2, <2>4
<1>9. ASSUME ~(b = BatchBase.buf /\ r = BatchBase.row /\ q \in base + first .. base + first + count - 1)
      PROVE  /\ mem'[b][r][q] = mem[b][r][q]
             /\ \A e \in Queue : e.at = At(b, r, q) => e \in Queue'
  <2>1. mem'[b][r][q] = mem[b][r][q]
    BY <1>5, <1>9
  <2>2. ASSUME NEW i \in flushIdx + 1 .. Len(batch), batch[i].at = At(b, r, q) PROVE batch[i] \in Queue'
    <3>1. i \in 1 .. Len(batch) /\ i \in Nat
      BY <1>1
    <3>2. b = BatchBase.buf /\ r = BatchBase.row /\ q = base + i - 1
      <4>1. At(b, r, q) = At(BatchBase.buf, BatchBase.row, base + i - 1)
        BY <2>2, <3>1 DEF BatchRun
      <4> HIDE DEF base
      <4> QED
        BY <4>1 DEF At
    <3>3. ~(i \in first + 1 .. first + count)
      <4> HIDE DEF base, count, first
      <4> QED
        BY <1>1, <1>3, <1>4, <1>9, <3>1, <3>2
    <3>4. ~(flight = "wide" \/ flushIdx = Len(batch) - 1) /\ i \in flushIdx + 2 .. Len(batch)
      <4> HIDE DEF count, first
      <4> QED
        BY <1>1, <1>4, <2>2, <3>3
    <3>5. batch' = batch /\ i \in flushIdx' + 1 .. Len(batch')
      BY <1>1, <1>6, <3>4
    <3> QED
      BY <3>5 DEF Queue
  <2>3. \A i \in 1 .. Len(fifo) : fifo[i] \in Queue'
    BY <1>1 DEF Queue
  <2> QED
    BY <2>1, <2>2, <2>3 DEF Queue
<1> QED
  BY <1>7, <1>8, <1>9

(* One lemma for each action on the capture side *)
capturing == <<x, y, skipCnt, armed, clearing, clearBuf, writeBuf, readyBuf, line, framed>>

LEMMA PictureKept ==
  ASSUME PictureInv, Queue' = Queue, UNCHANGED <<mem, capturing>>,
         framed => enable', calm' = calm \/ calm' = 0, calm \in 0 .. Calm
  PROVE  QueueRight' /\ Margins' /\ Captured' /\ Finished'
<1>1. QueueRight'
  BY DEF PictureInv, QueueRight, capturing
<1>2. Margins'
  BY DEF PictureInv, Margins, Swept, Holding, capturing
<1>3. Captured'
  BY DEF PictureInv, Captured, Position, Holding, capturing
<1>4. Finished'
  BY DEF PictureInv, Finished, Full, capturing, Calm
<1> QED
  BY <1>1, <1>2, <1>3, <1>4

LEMMA BatchKept ==
  ASSUME BatchRun, UNCHANGED <<batch, flushing, flushIdx, flight>> PROVE BatchRun'
BY DEF BatchRun, BatchBase

\* Four pixels more, or a quad lost.
LEMMA PixelsPicture ==
  ASSUME CaptureRange, QueueRange, PictureInv, Capture PROVE PictureInv'
<1> USE WriterAssumption
<1>0. /\ ~clearing /\ x < RowQuads /\ x' = x + 1 /\ framed' = (framed /\ Room) /\ enable
      /\ UNCHANGED <<mem, ready, menu, y, skipCnt, armed, clearing, clearBuf, writeBuf, readyBuf,
                     batch, flushing, flushIdx, flight, line>>
      /\ x \in Nat /\ y \in Rows /\ XStart \in Nat
  BY DEF Capture, Pixels, drain, CaptureRange
<1>1. BatchRun'
  BY <1>0, BatchKept DEF PictureInv
<1>2. CASE Room
  <2> DEFINE e == [at |-> At(writeBuf, y, x), tag |-> IF framed THEN "new" ELSE "bad"]
  <2>1. /\ fifo' = Append(fifo, e) /\ framed' = framed /\ calm' = calm
    BY <1>0, <1>2 DEF Capture, Pixels, Pushed, At, CaptureRange
  <2>2. e \in Entry
    BY <1>0 DEF Entry, Cell, At, Quads, Tags, CaptureRange
  <2>3. Queue' = Queue \cup {e}
    BY <1>0, <2>1, <2>2, QueuePushed
  <2>4. e.at = At(writeBuf, y, x) /\ e.tag = IF framed THEN "new" ELSE "bad"
    OBVIOUS
  <2>5. e.at.buf = writeBuf /\ e.at.row = y /\ e.at.quad = x
    BY <2>4 DEF At
  <2>6. ~Margin(e.at)
    BY <1>0, <2>5 DEF Margin, PictureInv, Margins
  <2>7. framed => x >= XStart
    BY DEF PictureInv, Captured, Position
  <2> HIDE DEF e
  <2>8. QueueRight'
    BY <1>0, <2>1, <2>3, <2>4, <2>5, <2>6, <2>7 DEF PictureInv, QueueRight
  <2>9. Margins'
    <3>1. x + 1 < XStart => y = 0
      BY <1>0 DEF PictureInv, Margins
    <3>2. ASSUME NEW b \in Buffers, NEW r \in Rows, NEW q \in Quads, Margin(At(b, r, q))
          PROVE  Holding(b, r, q, "black")'
      <4>1. Holding(b, r, q, "black")
        BY <1>0, <3>2 DEF PictureInv, Margins, Swept
      <4> QED
        BY <1>0, <2>3, <4>1 DEF Holding
    <3> QED
      BY <1>0, <3>1, <3>2 DEF Margins
  <2>10. Captured'
    <3>1. SUFFICES ASSUME framed PROVE Captured'
      BY <2>1 DEF Captured
    <3>2. ASSUME NEW r \in Rows, NEW q \in Quads, q >= XStart, r < y \/ (r = y /\ q < x + 1)
          PROVE  Holding(writeBuf, r, q, "new")'
      <4>1. CASE r = y /\ q = x
        BY <1>0, <2>3, <2>4, <4>1 DEF Holding
      <4>2. CASE ~(r = y /\ q = x)
        <5>1. r < y \/ (r = y /\ q < x)
          BY <1>0, <3>2, <4>2 DEF Quads
        <5>2. Holding(writeBuf, r, q, "new")
          BY <3>1, <3>2, <5>1 DEF PictureInv, Captured
        <5> QED
          BY <1>0, <2>3, <5>2 DEF Holding
      <4> QED
        BY <4>1, <4>2
    <3>3. Position'
      BY <1>0, <3>1 DEF PictureInv, Captured, Position
    <3> QED
      BY <1>0, <3>2, <3>3 DEF Captured, enable, Holding
  <2>11. Finished'
    BY <1>0, <2>1 DEF PictureInv, Finished, Full
  <2> QED
    BY <1>1, <2>8, <2>9, <2>10, <2>11 DEF PictureInv
<1>3. CASE ~Room
  <2>1. fifo' = fifo /\ framed' = FALSE /\ calm' = 0
    BY <1>0, <1>3 DEF Capture, Pixels
  <2>2. Queue' = Queue
    BY <1>0, <2>1 DEF Queue
  <2>3. QueueRight'
    BY <2>1, <2>2 DEF PictureInv, QueueRight
  <2>4. Margins'
    <3>1. x + 1 < XStart => y = 0
      BY <1>0 DEF PictureInv, Margins
    <3> QED
      BY <1>0, <2>2, <3>1 DEF PictureInv, Margins, Swept, Holding
  <2> QED
    BY <1>1, <2>1, <2>3, <2>4 DEF PictureInv, Captured, Finished
<1> QED
  BY <1>2, <1>3

\* A quad of the sweep.
LEMMA SweepPicture ==
  ASSUME CaptureRange, QueueRange, PictureInv, calm \in 0 .. Calm, Sweep, calm' = calm PROVE PictureInv'
<1> USE WriterAssumption
<1>0. /\ clearing /\ ~framed /\ UNCHANGED <<mem, framed, calm, batch, flushing, flushIdx, flight>>
      /\ x \in 0 .. RowQuads - 1 /\ y \in 0 .. SrcH - 1 /\ clearBuf \in 0 .. 2
      /\ fifo' = Pushed(clearBuf, "black") /\ RowQuads \in Nat \ {0} /\ SrcH \in Nat \ {0}
  BY DEF Sweep, drain, CaptureRange, PictureInv, Captured, Rows, Buffers
<1>1. BatchRun'
  BY <1>0, BatchKept DEF PictureInv
<1> DEFINE e == [at |-> At(clearBuf, y, x), tag |-> "black"]
<1>2. Queue' = Queue \cup {e}
  <2>1. e \in Entry /\ fifo' = Append(fifo, e)
    BY <1>0 DEF Entry, Cell, At, Quads, Rows, Buffers, Tags, Pushed
  <2> QED
    BY <1>0, <2>1, QueuePushed
<1>3. QueueRight' /\ Captured' /\ Finished'
  <2>1. e.tag = "black"
    OBVIOUS
  <2>2. calm = 0
    BY <1>0 DEF PictureInv, Finished, Calm
  <2> HIDE DEF e
  <2> QED
    BY <1>0, <1>2, <2>1, <2>2 DEF PictureInv, QueueRight, Captured, Finished
<1>4. \/ x < RowQuads - 1 /\ x' = x + 1 /\ y' = y /\ clearBuf' = clearBuf /\ clearing'
      \/ x = RowQuads - 1 /\ y < SrcH - 1 /\ x' = 0 /\ y' = y + 1 /\ clearBuf' = clearBuf /\ clearing'
      \/ x = RowQuads - 1 /\ y = SrcH - 1 /\ x' = 0 /\ y' = 0 /\ clearBuf' = clearBuf + 1 /\ clearing'
      \/ x = RowQuads - 1 /\ y = SrcH - 1 /\ x' = 0 /\ y' = 0 /\ clearBuf = 2 /\ ~clearing'
  <2>1. x < RowQuads - 1 => (x + 1) % RowQuads = x + 1
    BY <1>0, ModSmall
  <2>2. y < SrcH - 1 => (y + 1) % SrcH = y + 1
    BY <1>0, ModSmall
  <2>3. x = RowQuads - 1 => (x + 1) % RowQuads = 0
    <3>1. \A n \in Nat \ {0} : n % n = 0
      BY ModOnce
    <3> QED
      BY <1>0, <3>1
  <2>4. y = SrcH - 1 => (y + 1) % SrcH = 0
    <3>1. \A n \in Nat \ {0} : n % n = 0
      BY ModOnce
    <3> QED
      BY <1>0, <3>1
  <2>5. /\ x' = (x + 1) % RowQuads
        /\ y' = IF x = RowQuads - 1 THEN (y + 1) % SrcH ELSE y
        /\ IF x = RowQuads - 1 /\ y = SrcH - 1
           THEN IF clearBuf # 2 THEN clearBuf' = clearBuf + 1 /\ clearing' = clearing
                ELSE clearing' = FALSE
           ELSE clearBuf' = clearBuf /\ clearing' = clearing
    BY DEF Sweep
  <2> HIDE WriterAssumption
  <2>6. CASE x < RowQuads - 1
    <3>1. x # RowQuads - 1
      BY <1>0, <2>6
    <3>2. x' = x + 1 /\ y' = y /\ clearBuf' = clearBuf /\ clearing' = clearing
      BY <2>1, <2>5, <2>6, <3>1
    <3> QED
      BY <1>0, <2>6, <3>2, Zenon
  <2>7. CASE x = RowQuads - 1 /\ y < SrcH - 1
    <3>1. y # SrcH - 1
      BY <1>0, <2>7
    <3>2. x' = 0 /\ y' = y + 1 /\ clearBuf' = clearBuf /\ clearing' = clearing
      BY <2>2, <2>3, <2>5, <2>7, <3>1
    <3> QED
      BY <1>0, <2>7, <3>2, Zenon
  <2>8. CASE x = RowQuads - 1 /\ y = SrcH - 1
    BY <1>0, <2>3, <2>4, <2>5, <2>8
  <2> QED
    BY <1>0, <2>6, <2>7, <2>8
<1>5. ASSUME NEW b \in Buffers, NEW r \in Rows, NEW q \in Quads, Swept(b, r, q)'
      PROVE  Swept(b, r, q) \/ (b = clearBuf /\ r = y /\ q = x)
  BY <1>0, <1>4, <1>5 DEF Swept, Buffers, Rows, Quads
<1>6. Margins'
  <2>1. ~clearing' /\ x' < XStart => y' = 0
    BY <1>4
  <2>2. ASSUME NEW b \in Buffers, NEW r \in Rows, NEW q \in Quads, Margin(At(b, r, q)), Swept(b, r, q)'
        PROVE  Holding(b, r, q, "black")'
    <3>1. CASE Swept(b, r, q)
      <4>1. Holding(b, r, q, "black")
        BY <2>2, <3>1 DEF PictureInv, Margins
      <4> QED
        BY <1>0, <1>2, <4>1 DEF Holding
    <3>2. CASE b = clearBuf /\ r = y /\ q = x
      <4>1. e.at = At(b, r, q)
        BY <3>2
      <4> QED
        BY <1>2, <4>1 DEF Holding
    <3> QED
      BY <1>5, <2>2, <3>1, <3>2
  <2> QED
    BY <2>1, <2>2 DEF Margins
<1> QED
  BY <1>1, <1>3, <1>6 DEF PictureInv

\* What lies behind an undisturbed capture at the end of a line is in SDRAM.
LEMMA LineLanded ==
  ASSUME CaptureRange, QueueRange, PictureInv, LineOver, framed
  PROVE  /\ Queue = {} /\ (line > 0 /\ skipCnt = 0 => x = RowQuads)
         /\ \A r \in Rows, q \in Quads :
              q >= XStart /\ (r < y \/ (r = y /\ q < x)) => mem[writeBuf][r][q] = "new"
<1>1. /\ fifo = <<>> /\ batch = <<>> /\ (line > 0 /\ skipCnt = 0 => x = RowQuads)
      /\ flushIdx \in Nat
  BY WriterAssumption DEF LineOver, PictureInv, Captured, QueueRange
<1>2. Queue = {}
  BY <1>1 DEF Queue
<1> QED
  BY <1>1, <1>2 DEF PictureInv, Captured, Holding

LEMMA HSyncPicture ==
  ASSUME CaptureRange, QueueRange, PictureInv, HSync, calm' = calm PROVE PictureInv'
<1> USE WriterAssumption
<1>0. /\ ~clearing /\ line < VSkip + SrcH /\ LineOver
      /\ line' = line + 1
      /\ skipCnt' = IF skipCnt # 0 THEN skipCnt - 1 ELSE 0
      /\ armed' = (armed /\ skipCnt > 1)
      /\ x' = IF enable THEN XStart ELSE 0
      /\ y' = IF ~enable THEN 0
              ELSE IF skipCnt = 0 /\ ~armed /\ y # SrcH - 1 THEN y + 1 ELSE y
      /\ UNCHANGED <<mem, ready, menu, clearing, clearBuf, writeBuf, readyBuf, framed, fifo,
                     batch, flushing, flushIdx, flight>>
      /\ XStart \in Nat /\ y \in Rows /\ line \in Nat /\ armed \in BOOLEAN /\ skipCnt \in Nat
  BY DEF HSync, drain, CaptureRange
<1>1. BatchRun'
  BY <1>0, BatchKept DEF PictureInv
<1>2. Queue' = Queue
  BY <1>0 DEF Queue
<1>3. QueueRight' /\ Finished'
  BY <1>0, <1>2 DEF PictureInv, QueueRight, Finished, Full
<1>4. Margins'
  <2>1. x' < XStart => y' = 0
    BY <1>0
  <2> QED
    BY <1>0, <1>2, <2>1 DEF PictureInv, Margins, Swept, Holding
<1>5. Captured'
  <2>1. SUFFICES ASSUME framed PROVE Captured'
    BY <1>0 DEF Captured
  <2>2. enable /\ enable' /\ Position
    BY <1>0, <2>1 DEF PictureInv, Captured, enable
  <2>3. Position'
    <3>1. skipCnt' = IF line' < VSkip THEN VSkip - line' ELSE 0
      BY <1>0, <2>2 DEF Position
    <3>2. armed' <=> (line' = 0 \/ line' < VSkip)
      <4>1. skipCnt > 1 <=> line + 1 < VSkip
        BY <1>0, <2>2 DEF Position
      <4>2. line + 1 < VSkip => line < VSkip
        BY <1>0
      <4>3. line' # 0
        BY <1>0
      <4> QED
        BY <1>0, <2>2, <4>1, <4>2, <4>3 DEF Position
    <3>3. y' = IF line' <= firstLine THEN 0
               ELSE IF line' - firstLine < SrcH THEN line' - firstLine ELSE SrcH - 1
      <4>1. ~armed /\ skipCnt = 0 <=> line >= firstLine
        BY <1>0, <2>2 DEF Position, firstLine
      <4>2. firstLine \in Nat /\ SrcH \in Nat \ {0}
        BY DEF firstLine
      <4> QED
        BY <1>0, <2>2, <4>1, <4>2 DEF Position
    <3> QED
      BY <1>0, <2>2, <3>1, <3>2, <3>3 DEF Position
  <2>4. ASSUME NEW r \in Rows, NEW q \in Quads, q >= XStart, r < y' \/ (r = y' /\ q < x')
        PROVE  mem[writeBuf][r][q] = "new"
    <3>1. r < y'
      BY <1>0, <2>2, <2>4 DEF Quads
    <3>2. CASE r < y
      BY <1>0, <2>1, <2>4, <3>2, LineLanded
    <3>3. CASE ~(r < y)
      <4>1. r = y /\ skipCnt = 0 /\ ~armed
        BY <1>0, <3>1, <3>3 DEF Rows
      <4>2. line > 0
        BY <1>0, <2>2, <4>1 DEF Position
      <4>3. q < x
        BY <1>0, <2>1, <4>1, <4>2, LineLanded DEF Quads
      <4> QED
        BY <1>0, <2>1, <2>4, <4>1, <4>3, LineLanded
    <3> QED
      BY <3>2, <3>3
  <2> QED
    BY <1>0, <2>1, <2>2, <2>3, <2>4 DEF Captured, PictureInv, Holding
<1> QED
  BY <1>1, <1>3, <1>4, <1>5 DEF PictureInv

\* The frame is captured: the buffer is full, and the next one is aged before it is filled.
LEMMA VSyncPicture ==
  ASSUME CaptureRange, QueueRange, CellsRange, PictureInv, Rotation, FrameCaptured PROVE PictureInv'
<1> USE WriterAssumption
<1>0. /\ ~clearing /\ line = VSkip + SrcH /\ LineOver /\ line' = 0 /\ x' = (IF enable THEN XStart ELSE 0)
      /\ y' = 0 /\ armed' = TRUE /\ skipCnt' = VSkip
      /\ readyBuf' = writeBuf /\ writeBuf' = NextBuf(writeBuf)
      /\ mem' = [b \in Buffers |-> Turned(b)] /\ framed' = enable
      /\ calm' = (IF enable /\ calm < Calm THEN calm + 1 ELSE calm)
      /\ UNCHANGED <<clearing, clearBuf, ready, menu, fifo, batch, flushing, flushIdx, flight>>
      /\ writeBuf \in 0 .. 2 /\ readyBuf \in 0 .. 2 /\ calm \in 0 .. 4
      /\ XStart \in Nat /\ SrcH \in Nat \ {0} /\ VSkip \in Nat
  BY DEF FrameCaptured, VSync, drain, CaptureRange, Rotation, Buffers, Calm
<1>1. BatchRun'
  BY <1>0, BatchKept DEF PictureInv
<1>2. Queue' = Queue
  BY <1>0 DEF Queue
<1>3. (framed => enable) /\ (calm > 0 => framed)
  BY DEF PictureInv, Captured, Finished
<1>4. enable => Queue = {}
  <2>1. flushIdx \in Nat
    BY DEF QueueRange
  <2> QED
    BY <1>0, <2>1 DEF LineOver, Queue
<1>5. QueueRight'
  BY <1>0, <1>2, <1>4 DEF PictureInv, QueueRight
<1>6. framed => Full(writeBuf)
  <2> SUFFICES ASSUME framed, NEW r \in Rows, NEW q \in Quads, q >= XStart
               PROVE  mem[writeBuf][r][q] = "new"
    BY DEF Full
  <2>1. Position
    BY DEF PictureInv, Captured
  <2>2. line > 0 /\ skipCnt = 0 /\ y = SrcH - 1
    BY <1>0, <2>1 DEF Position, firstLine
  <2>3. r < y \/ (r = y /\ q < RowQuads)
    BY <1>0, <2>2 DEF Rows, Quads
  <2> QED
    BY <1>0, <2>2, <2>3, LineLanded
<1>7. ASSUME NEW b \in Buffers, Full(b), b # NextBuf(writeBuf), b = writeBuf => framed
      PROVE  Full(b)'
  BY <1>0, <1>7 DEF Full, Turned
<1>8. Finished'
  <2>1. calm' > 0 => framed'
    BY <1>0, <1>3
  <2>2. calm' > 1 => calm > 0
    BY <1>0, <1>3 DEF Calm
  <2>3. calm' > 2 => calm > 1
    BY <1>0, <1>3 DEF Calm
  <2>4. writeBuf \in Buffers /\ writeBuf # NextBuf(writeBuf)
    BY <1>0 DEF Buffers, NextBuf
  <2>5. calm' > 1 => \A r \in Rows, q \in Quads : q >= XStart => mem'[writeBuf][r][q] = "new"
    BY <1>3, <1>6, <1>7, <2>2, <2>4 DEF Full
  <2>6. calm > 1 => /\ PrevBuf(writeBuf) = readyBuf /\ readyBuf \in Buffers
                    /\ readyBuf # NextBuf(writeBuf) /\ readyBuf # writeBuf
    BY <1>0 DEF Rotation, Buffers, NextBuf, PrevBuf
  <2>7. calm > 1 => Full(readyBuf)
    BY DEF PictureInv, Finished
  <2>8. ASSUME calm' > 2 PROVE Full(PrevBuf(readyBuf))'
    <3>1. Full(readyBuf) /\ readyBuf \in Buffers /\ readyBuf # NextBuf(writeBuf) /\ readyBuf # writeBuf
      BY <2>3, <2>6, <2>7, <2>8
    <3>2. \A r \in Rows, q \in Quads : q >= XStart => mem'[readyBuf][r][q] = "new"
      BY <1>7, <3>1 DEF Full
    <3>3. PrevBuf(readyBuf') = readyBuf
      BY <1>0, <2>3, <2>6, <2>8
    <3> QED
      BY <3>2, <3>3 DEF Full, PrevBuf
  <2>9. calm' > 1 => Full(readyBuf)'
    BY <1>0, <2>5 DEF Full
  <2> QED
    BY <2>1, <2>8, <2>9 DEF Finished
<1>9. Margins'
  <2>1. x' < XStart => y' = 0
    BY <1>0
  <2>2. ASSUME NEW b \in Buffers, NEW r \in Rows, NEW q \in Quads, Margin(At(b, r, q))
        PROVE  Holding(b, r, q, "black")'
    <3>1. Holding(b, r, q, "black")
      BY <1>0, <2>2 DEF PictureInv, Margins, Swept
    <3>2. q < XStart /\ ~(q >= XStart)
      BY <2>2 DEF Margin, At, Quads
    <3>3. mem[b][r][q] = "black" => mem'[b][r][q] = "black"
      BY <1>0, <3>2 DEF Turned, Aged, Blurred
    <3> QED
      BY <1>2, <3>1, <3>3 DEF Holding
  <2> QED
    BY <1>0, <2>1, <2>2 DEF Margins
<1>10. Captured'
  <2>1. SUFFICES ASSUME framed' PROVE Captured'
    BY DEF Captured
  <2>2. enable /\ enable'
    BY <1>0, <2>1 DEF enable
  <2>3. Position'
    BY <1>0, <2>2 DEF Position, firstLine
  <2>4. \A r \in Rows, q \in Quads : ~(q >= XStart /\ (r < y' \/ (r = y' /\ q < x')))
    BY <1>0, <2>2 DEF Rows, Quads
  <2> QED
    BY <1>0, <2>2, <2>3, <2>4 DEF Captured
<1> QED
  BY <1>1, <1>5, <1>8, <1>9, <1>10 DEF PictureInv

\* The menu freezes a picture that is calm: what is on its way lies right of the margin.
LEMMA MenuPicture ==
  ASSUME CaptureRange, QueueRange, PictureInv, MenuOpens PROVE PictureInv'
<1>0. /\ menu' = TRUE /\ x' = 0 /\ y' = 0 /\ framed' = FALSE /\ calm' = 0
      /\ fifo' = Spoilt(fifo) /\ batch' = Spoilt(batch)
      /\ UNCHANGED <<mem, ready, skipCnt, armed, clearing, clearBuf, writeBuf, readyBuf,
                     flushing, flushIdx, flight, line>>
      /\ calm = 4 /\ fifo \in Seq(Entry) /\ batch \in Seq(Entry) /\ flushIdx \in Nat
      /\ XStart \in Nat
  BY WriterAssumption DEF MenuOpens, Freeze, Strikes, Calm, QueueRange
<1>1. framed /\ ~clearing
  BY <1>0 DEF PictureInv, Finished, Captured
<1>2. ASSUME NEW s \in Seq(Entry)
      PROVE  /\ Len(Spoilt(s)) = Len(s)
             /\ \A i \in 1 .. Len(s) : Spoilt(s)[i].at = s[i].at
  <2>1. DOMAIN s = 1 .. Len(s) /\ \A i \in 1 .. Len(s) : s[i] \in Entry
    OBVIOUS
  <2>2. \A i \in 1 .. Len(s) : [s[i] EXCEPT !.tag = "bad"].at = s[i].at
    BY <2>1 DEF Entry
  <2> QED
    BY <2>1, <2>2, SpoiltType DEF Spoilt
<1>3. /\ Len(batch') = Len(batch) /\ \A i \in 1 .. Len(batch) : batch'[i].at = batch[i].at
      /\ Len(fifo') = Len(fifo) /\ \A i \in 1 .. Len(fifo) : fifo'[i].at = fifo[i].at
      /\ Len(batch) \in Nat
  BY <1>0, <1>2
<1>4. BatchRun'
  <2>1. Len(batch) > 0 => BatchBase' = BatchBase
    BY <1>3 DEF BatchBase
  <2>2. \A i \in 1 .. Len(batch') :
          batch'[i].at = At(BatchBase.buf, BatchBase.row, BatchBase.quad + i - 1)'
    BY <1>3, <2>1 DEF PictureInv, BatchRun, At
  <2> QED
    BY <1>0, <2>2 DEF PictureInv, BatchRun
<1>5. \A e \in Queue : ~Margin(e.at)
  <2>1. \A e \in Queue : e.at.quad >= XStart /\ e.at.quad \in Nat
    <3>1. ASSUME NEW e \in Queue PROVE e \in Entry
      BY <1>0 DEF Queue
    <3>2. \A e \in Queue : e.at.quad \in Nat
      BY <3>1 DEF Entry, Cell, Quads
    <3> QED
      BY <1>1, <3>2 DEF PictureInv, QueueRight
  <2> QED
    BY <1>0, <2>1 DEF Margin
<1>6. \A e \in Queue' : \E f \in Queue : e.at = f.at
  <2>1. ASSUME NEW i \in 1 .. Len(fifo') PROVE \E f \in Queue : fifo'[i].at = f.at
    BY <1>3 DEF Queue
  <2>2. ASSUME NEW i \in flushIdx' + 1 .. Len(batch') PROVE \E f \in Queue : batch'[i].at = f.at
    <3>1. i \in flushIdx + 1 .. Len(batch) /\ i \in 1 .. Len(batch)
      BY <1>0, <1>3
    <3> QED
      BY <1>3, <3>1 DEF Queue
  <2> QED
    BY <2>1, <2>2 DEF Queue
<1>7. QueueRight'
  <2>1. \A e \in Queue' : ~Margin(e.at)
    BY <1>5, <1>6
  <2> QED
    BY <1>0, <2>1 DEF QueueRight, Margin
<1>8. Margins'
  <2>1. ASSUME NEW b \in Buffers, NEW r \in Rows, NEW q \in Quads, Margin(At(b, r, q))
        PROVE  mem[b][r][q] = "black"
    <3>1. Holding(b, r, q, "black")
      BY <1>1, <2>1 DEF PictureInv, Margins, Swept
    <3> QED
      BY <1>5, <2>1, <3>1 DEF Holding
  <2> QED
    BY <1>0, <2>1 DEF Margins, Holding
<1> QED
  BY <1>0, <1>4, <1>7, <1>8 DEF PictureInv, Captured, Finished

\* A write ends.
LEMMA WritePicture ==
  ASSUME QueueRange, CellsRange, PictureInv, Rotation, WriteEnds, flight # "none" PROVE PictureInv'
<1> USE WriterAssumption
<1>0. /\ WriteDone /\ UNCHANGED <<ready, menu, capturing, calm>> /\ flight' = "none"
      /\ IF flight = "wide" \/ flushIdx = Len(batch) - 1
         THEN batch' = <<>> /\ flushing' = FALSE /\ flushIdx' = 0
         ELSE flushIdx' = flushIdx + 1 /\ UNCHANGED <<batch, flushing>>
  BY DEF WriteEnds, WriteDone, capture, capturing
<1>1. /\ Queue' \subseteq Queue
      /\ \A b \in Buffers, r \in Rows, q \in Quads :
           \/ \E e \in Queue : e.at = At(b, r, q) /\ mem'[b][r][q] = e.tag
           \/ /\ mem'[b][r][q] = mem[b][r][q]
              /\ \A e \in Queue : e.at = At(b, r, q) => e \in Queue'
  <2>1. 0 \in Buffers /\ 0 \in Rows /\ 0 \in Quads
    BY Ranges
  <2> QED
    BY <1>0, <2>1, WriteLands DEF PictureInv
<1>2. BatchRun'
  <2>1. CASE flight = "wide" \/ flushIdx = Len(batch) - 1
    BY <1>0, <2>1 DEF BatchRun
  <2>2. CASE ~(flight = "wide" \/ flushIdx = Len(batch) - 1)
    <3>1. flushing
      BY <2>2 DEF QueueRange
    <3> QED
      BY <1>0, <2>2, <3>1 DEF PictureInv, BatchRun, BatchBase
  <2> QED
    BY <2>1, <2>2
<1>3. QueueRight'
  BY <1>0, <1>1 DEF PictureInv, QueueRight, capturing
<1>4. Margins'
  <2>1. ASSUME NEW b \in Buffers, NEW r \in Rows, NEW q \in Quads, Margin(At(b, r, q)), Swept(b, r, q)
        PROVE  Holding(b, r, q, "black")'
    <3>1. Holding(b, r, q, "black")
      BY <2>1 DEF PictureInv, Margins
    <3>2. \A e \in Queue : e.at = At(b, r, q) => e.tag = "black"
      BY <2>1 DEF PictureInv, QueueRight
    <3> QED
      BY <1>1, <3>1, <3>2 DEF Holding
  <2> QED
    BY <1>0, <2>1 DEF PictureInv, Margins, Swept, capturing
<1>5. Captured'
  <2>1. SUFFICES ASSUME framed PROVE Captured'
    BY <1>0 DEF Captured, capturing
  <2>2. ASSUME NEW r \in Rows, NEW q \in Quads, q >= XStart, r < y \/ (r = y /\ q < x)
        PROVE  Holding(writeBuf, r, q, "new")'
    <3>1. Holding(writeBuf, r, q, "new")
      BY <2>1, <2>2 DEF PictureInv, Captured
    <3>2. \A e \in Queue : e.tag = "new"
      BY <2>1 DEF PictureInv, QueueRight
    <3>3. writeBuf \in Buffers /\ writeBuf' = writeBuf
      BY <1>0 DEF Rotation, capturing
    <3> QED
      BY <1>1, <3>1, <3>2, <3>3 DEF Holding
  <2>3. enable' /\ ~clearing' /\ Position'
    BY <1>0, <2>1 DEF PictureInv, Captured, Position, enable, capturing
  <2> QED
    BY <1>0, <2>1, <2>2, <2>3 DEF Captured, capturing, Holding
<1>6. Finished'
  <2>1. ASSUME NEW b \in Buffers, framed, Full(b) PROVE Full(b)'
    <3>1. \A e \in Queue : e.tag = "new"
      BY <2>1 DEF PictureInv, QueueRight
    <3> QED
      BY <1>1, <2>1, <3>1 DEF Full
  <2>2. readyBuf \in Buffers /\ PrevBuf(readyBuf) \in Buffers /\ calm \in 0 .. 4
    BY DEF Rotation, Buffers, PrevBuf, Calm
  <2>3. /\ calm > 0 => framed
        /\ calm > 1 => Full(readyBuf)
        /\ calm > 2 => Full(PrevBuf(readyBuf))
    BY DEF PictureInv, Finished
  <2>4. calm > 1 => Full(readyBuf)'
    <3>1. SUFFICES ASSUME calm > 1 PROVE Full(readyBuf)'
      OBVIOUS
    <3>2. framed /\ Full(readyBuf)
      BY <2>2, <2>3, <3>1
    <3> QED
      BY <1>0, <2>1, <2>2, <3>2 DEF Full, capturing
  <2>5. calm > 2 => Full(PrevBuf(readyBuf))'
    <3>1. SUFFICES ASSUME calm > 2 PROVE Full(PrevBuf(readyBuf))'
      OBVIOUS
    <3>2. framed /\ Full(PrevBuf(readyBuf))
      BY <2>2, <2>3, <3>1
    <3> DEFINE p == PrevBuf(readyBuf)
    <3>3. p \in Buffers /\ Full(p) /\ PrevBuf(readyBuf') = p
      BY <1>0, <2>2, <3>2 DEF capturing
    <3> HIDE DEF p
    <3> QED
      BY <2>1, <3>2, <3>3 DEF Full
  <2> QED
    BY <1>0, <2>3, <2>4, <2>5 DEF Finished, capturing
<1> QED
  BY <1>2, <1>3, <1>4, <1>5, <1>6 DEF PictureInv

\* A quad is popped: it continues the batch, or begins one.
LEMMA BatchGrows ==
  ASSUME QueueRange, BatchRun, PopFirst \/ PopNext PROVE BatchRun'
<1>0. /\ fifo \in Seq(Entry) /\ batch \in Seq(Entry) /\ fifo # <<>> /\ flight = "none" /\ ~flushing
      /\ flight' = flight /\ flushIdx = 0 /\ flushIdx' = 0
  BY DEF PopFirst, PopNext, CanPop, QueueRange, BatchRun
<1>1. Head(fifo) \in Entry
  BY <1>0
<1>2. /\ Head(fifo).at \in Cell
      /\ Head(fifo).at = At(Head(fifo).at.buf, Head(fifo).at.row, Head(fifo).at.quad)
      /\ Head(fifo).at.quad \in Nat
  BY <1>1 DEF Entry, Cell, At, Quads
<1>3. CASE PopFirst
  <2>1. Len(batch') = 1 /\ batch'[1] = Head(fifo)
    BY <1>1, <1>3 DEF PopFirst
  <2>2. ASSUME NEW i \in 1 .. Len(batch')
        PROVE  batch'[i].at = At(BatchBase'.buf, BatchBase'.row, BatchBase'.quad + i - 1)
    <3>1. i = 1 /\ BatchBase' = Head(fifo).at
      BY <2>1, <2>2 DEF BatchBase
    <3>2. Head(fifo).at.quad + 1 - 1 = Head(fifo).at.quad
      BY <1>2
    <3> QED
      BY <1>2, <2>1, <3>1, <3>2
  <2> QED
    BY <1>0, <2>2 DEF BatchRun, At
<1>4. CASE PopNext
  <2>1. /\ batch # <<>> /\ batch' = Append(batch, Head(fifo)) /\ flushing' = flushing
        /\ ExpAddr(Head(fifo).at)
    BY <1>4 DEF PopNext
  <2>2. /\ Len(batch) \in Nat /\ 0 < Len(batch) /\ Len(batch') = Len(batch) + 1
        /\ \A i \in 1 .. Len(batch) : batch'[i] = batch[i]
        /\ batch'[Len(batch) + 1] = Head(fifo)
    BY <1>0, <1>1, <2>1
  <2>3. BatchBase' = BatchBase
    BY <2>2 DEF BatchBase
  <2>4. batch[1] \in Entry
    BY <1>0, <2>2
  <2>5. BatchBase.quad \in Nat
    BY <2>4 DEF BatchBase, Entry, Cell, Quads
  <2>6. ASSUME NEW i \in 1 .. Len(batch')
        PROVE  batch'[i].at = At(BatchBase.buf, BatchBase.row, BatchBase.quad + i - 1)
    <3>1. CASE i \in 1 .. Len(batch)
      BY <2>2, <3>1 DEF BatchRun
    <3>2. CASE i = Len(batch) + 1
      <4>1. BatchBase.quad + i - 1 = BatchBase.quad + Len(batch)
        BY <2>2, <2>5, <3>2
      <4> QED
        BY <1>2, <2>1, <2>2, <3>2, <4>1 DEF ExpAddr
    <3> QED
      BY <2>2, <3>1, <3>2
  <2> QED
    BY <1>0, <2>1, <2>3, <2>6 DEF BatchRun, At
<1> QED
  BY <1>3, <1>4

LEMMA PictureStep ==
  ASSUME ArbiterInv, RotationInv, RangeInv, PictureInv, [Next]_vars PROVE PictureInv'
<1>0. /\ CaptureRange /\ QueueRange /\ CellsRange /\ Rotation /\ calm \in 0 .. Calm
      /\ framed => enable
  BY DEF RangeInv, RotationInv, Rotation, PictureInv, Captured
<1>1. CASE Capture
  BY <1>0, <1>1, PixelsPicture
<1>2. CASE FrameCaptured
  BY <1>0, <1>2, VSyncPicture
<1>3. CASE Writing
  <2>1. calm' = calm
    BY <1>3 DEF Writing
  <2>2. CASE Sweep
    BY <1>0, <2>1, <2>2, SweepPicture
  <2>3. CASE HSync
    BY <1>0, <2>1, <2>3, HSyncPicture
  <2>4. CASE PopFirst \/ PopNext
    <3>1. BatchRun' /\ Queue' = Queue
      BY <1>0, <2>4, BatchGrows, QueuePopped DEF PictureInv
    <3>2. UNCHANGED <<mem, ready, menu, capturing>>
      BY <2>4 DEF PopFirst, PopNext, capture, capturing
    <3>3. enable' = enable
      BY <3>2 DEF enable
    <3> QED
      BY <1>0, <2>1, <3>1, <3>2, <3>3, PictureKept DEF PictureInv
  <2>5. CASE FlushPartial
    <3>1. /\ UNCHANGED <<mem, ready, menu, capturing, fifo, batch, flight>> /\ flushing' = TRUE
          /\ flushIdx' = flushIdx /\ flight = "none"
      BY <2>5 DEF FlushPartial, CanPop, capture, capturing, PictureInv, BatchRun
    <3>2. BatchRun' /\ Queue' = Queue /\ enable' = enable
      BY <3>1 DEF PictureInv, BatchRun, BatchBase, Queue, enable
    <3> QED
      BY <1>0, <2>1, <3>1, <3>2, PictureKept DEF PictureInv
  <2>6. CASE WriteRequest
    <3>1. /\ UNCHANGED <<mem, ready, menu, capturing, fifo, batch, flushing, flushIdx>>
          /\ flight' = (IF flushing THEN "single" ELSE "wide")
      BY <2>6 DEF WriteRequest, capture, capturing
    <3>2. BatchRun' /\ Queue' = Queue /\ enable' = enable
      BY <3>1 DEF PictureInv, BatchRun, BatchBase, Queue, enable
    <3> QED
      BY <1>0, <2>1, <3>1, <3>2, PictureKept DEF PictureInv
  <2> QED
    BY <1>3, <2>2, <2>3, <2>4, <2>5, <2>6 DEF Writing, Write
<1>4. CASE WriteEnds
  <2>1. flight # "none"
    BY <1>4 DEF WriteEnds, WriteDone, Complete, ArbiterInv, Asking
  <2> QED
    BY <1>0, <1>4, <2>1, WritePicture
<1>5. CASE MenuOpens
  BY <1>0, <1>5, MenuPicture
<1>6. CASE Ready \/ MenuCloses
  <2>1. ~framed
    BY <1>0, <1>6 DEF Ready, MenuCloses, enable
  <2>2. UNCHANGED <<mem, capturing, fifo, batch, flushing, flushIdx, flight, calm>>
    BY <1>6 DEF Ready, MenuCloses, writer, capture, drain, capturing
  <2>3. BatchRun' /\ Queue' = Queue
    BY <2>2, BatchKept DEF PictureInv, Queue
  <2> QED
    BY <1>0, <2>1, <2>2, <2>3, PictureKept DEF PictureInv
<1>7. CASE Reset
  <2>1. /\ x' = 0 /\ y' = 0 /\ clearing' = TRUE /\ clearBuf' = 0 /\ framed' = FALSE /\ calm' = 0
        /\ fifo' = <<>> /\ batch' = <<>> /\ flushing' = FALSE /\ flushIdx' = 0 /\ flight' = "none"
    BY <1>7 DEF Reset, WriterReset
  <2>2. Queue' = {} /\ BatchRun'
    BY <2>1 DEF Queue, BatchRun
  <2>3. \A b \in Buffers, r \in Rows, q \in Quads : ~Swept(b, r, q)'
    BY <2>1 DEF Swept, Buffers, Rows, Quads
  <2> QED
    BY <2>1, <2>2, <2>3 DEF PictureInv, QueueRight, Margins, Captured, Finished
<1>8. CASE WriteServed \/ Line \/ Ring \/ Reading \/ ReadEnds \/ LoaderRequest \/ LoaderServed \/ LoaderDone
           \/ UNCHANGED vars
  <2>1. UNCHANGED <<mem, ready, menu, writer>> /\ (calm' = calm \/ calm' = 0)
    BY <1>8 DEF WriteServed, Line, LineEnd, Ring, Prefetch, Fetched, Reading, StartFetch, ReadServed,
       ReadMore, RowDone, ReadEnds, ReadDone, LoaderRequest, LoaderServed, LoaderDone, vars
  <2>2. UNCHANGED <<capturing, fifo, batch, flushing, flushIdx, flight>> /\ enable' = enable
    BY <2>1 DEF writer, capture, drain, capturing, enable
  <2>3. BatchRun' /\ Queue' = Queue
    BY <2>2, BatchKept DEF PictureInv, Queue
  <2> QED
    BY <1>0, <2>1, <2>2, <2>3, PictureKept DEF PictureInv
<1> QED
  BY <1>1, <1>2, <1>3, <1>4, <1>5, <1>6, <1>7, <1>8 DEF Next

LEMMA PictureInvariant == Spec => []PictureInv
<1>1. Init => PictureInv
  <2> SUFFICES ASSUME Init PROVE PictureInv
    OBVIOUS
  <2>1. /\ x = 0 /\ y = 0 /\ clearing = TRUE /\ clearBuf = 0 /\ framed = FALSE /\ calm = 0
        /\ fifo = <<>> /\ batch = <<>> /\ flushing = FALSE /\ flushIdx = 0 /\ flight = "none"
    BY DEF Init, WriterInit
  <2>2. Queue = {} /\ BatchRun
    BY <2>1 DEF Queue, BatchRun
  <2>3. \A b \in Buffers, r \in Rows, q \in Quads : ~Swept(b, r, q)
    BY <2>1 DEF Swept, Buffers, Rows, Quads
  <2> QED
    BY <2>1, <2>2, <2>3 DEF PictureInv, QueueRight, Margins, Captured, Finished
<1>2. ArbiterInv /\ RotationInv /\ RangeInv /\ PictureInv /\ [Next]_vars => PictureInv'
  BY PictureStep
<1> QED
  BY <1>1, <1>2, ArbiterInvariant, RotationInvariant, RangeInvariant, PTL DEF Spec

(***************************************************************************)
(* The cached rows                                                         *)
(***************************************************************************)
(* The ring, as seen from a bank D. *)
Plus(r, k) == IF r + k < SrcH THEN r + k ELSE r + k - SrcH
Fwd(D, b) == IF b >= D THEN b - D ELSE b - D + NumBanks

\* Banks asked for, from D on, and those of them that came.
Ahead(D) == IF wrB = D THEN NumBanks ELSE Fwd(D, wrB)
Come(D)  == IF fetchBusy THEN Ahead(D) - 1 ELSE Ahead(D)

\* The banks from D on hold consecutive rows; those not replaced yet hold the rows one turn before.
Window(D) ==
  /\ Come(D) > 0 /\ fY = Plus(bankY[D], Ahead(D))
  /\ fetchBusy => want.row = Plus(bankY[D], Come(D)) /\ Fwd(D, want.bank) = Come(D)
  /\ \A b \in Banks : Fwd(D, b) < Come(D) => bankOk[b] /\ bankY[b] = Plus(bankY[D], Fwd(D, b))
  /\ \A b \in Banks : Fwd(D, b) >= Come(D) /\ bankOk[b] =>
                        bankY[b] = Plus(bankY[D], Fwd(D, b) + SrcH - NumBanks)

\* The row of this line and of the next.
Shown  == IF vc < VActive THEN curSrcY ELSE 0
Needed == NextSrcY(vc, vAcc, curSrcY)

\* The bank on show has the next line's row, or the one before it: this line's, or that of the
\* line before while the next bank is late.
Lag ==
  LET row == bankY[dispBank]
  IN \/ Needed = row
     \/ Needed = NextRow(row) /\ Shown = row
     \/ /\ Needed = NextRow(row) /\ Shown = Needed /\ behind /\ Ahead(dispBank) > 1
        /\ vc < VActive => Shown > 0

Stopped == bankOk = NoRows /\ ~fetchBusy
Restarting ==
  /\ ready /\ bankOk = NoRows /\ fetchBusy
  /\ want.bank = dispBank /\ wrB = NextBank(dispBank) /\ fY = NextRow(want.row)
  /\ \/ Needed = want.row
     \/ Needed = NextRow(want.row) /\ Shown = want.row /\ behind
Running == ready /\ Window(dispBank) /\ Lag
RingInv == Stopped \/ Restarting \/ Running

\* A cell came from its place in a buffer, and out of one picture if that was old enough: what is
\* read since the buffer on show is one that Finished speaks of, or was when the frame before was shown.
GoodTag(q, row, tag) == IF q >= XStart THEN tag = "new" ELSE tag = "black" \/ row = 0
CellRight(c, q, row, buf, fresh) == c.buf = buf /\ c.row = row /\ (fresh => GoodTag(q, row, c.tag))
FreshNow    == calm > 2 \/ (calm = 2 /\ settled)
FreshBefore == calm > 3 \/ (calm = 3 /\ settled)

\* What has come of the row being fetched.
Got(q) == ackEdge \/ (fetch = "read" /\ q < fx) \/ (fetch = "unload" /\ q < fx + BatchLen)
FetchInv ==
  /\ fetchBusy => reqEdge \/ fetch # "idle" \/ ackEdge
  /\ fetch # "idle" => snap = want
  /\ \A q \in Quads : Got(q) => CellRight(cache[want.bank][q], q, want.row, readBufDisp, FreshNow)

\* A bank holds its row of the buffer on show. The first rows of a frame may be of the buffer shown
\* before; the frame is over before the ring comes back to them.
BankNow(b) == \A q \in Quads : CellRight(cache[b][q], q, bankY[b], readBufDisp, FreshNow)
BankBefore(b) ==
  /\ vc + 1 < VActive /\ bankY[dispBank] + Fwd(dispBank, b) < NumBanks
  /\ \A q \in Quads : CellRight(cache[b][q], q, bankY[b], prevDisp, FreshBefore)
BanksRight == Running => \A b \in Banks : Fwd(dispBank, b) < Come(dispBank) => BankNow(b) \/ BankBefore(b)

CacheInv == RingInv /\ FetchInv /\ BanksRight

(* Arithmetic of the ring *)
LEMMA BankFacts ==
  /\ \A b \in Banks : NextBank(b) \in Banks /\ NextBank(b) = IF b = NumBanks - 1 THEN 0 ELSE b + 1
  /\ \A D, b \in Banks : Fwd(D, b) \in 0 .. NumBanks - 1
  /\ \A D, b, c \in Banks : Fwd(D, b) = Fwd(D, c) => b = c
  /\ \A D \in Banks : Fwd(D, D) = 0
  /\ \A D, b \in Banks :
       IF NextBank(b) = D THEN Fwd(D, b) = NumBanks - 1 ELSE Fwd(D, NextBank(b)) = Fwd(D, b) + 1
  /\ \A D, b \in Banks : Fwd(NextBank(D), b) = IF b = D THEN NumBanks - 1 ELSE Fwd(D, b) - 1
<1> USE ReaderAssumption
<1>1. ASSUME NEW b \in Banks PROVE NextBank(b) \in Banks /\ NextBank(b) = IF b = NumBanks - 1 THEN 0 ELSE b + 1
  <2>1. b \in Nat /\ b <= NumBanks - 1 /\ NumBanks \in Nat \ {0}
    BY DEF Banks
  <2>2. b < NumBanks - 1 => (b + 1) % NumBanks = b + 1
    BY <2>1, ModSmall
  <2>3. (NumBanks - 1 + 1) % NumBanks = 0
    <3>1. NumBanks % NumBanks = 0
      BY <2>1, ModOnce
    <3> QED
      BY <2>1, <3>1
  <2> QED
    BY <2>1, <2>2, <2>3 DEF NextBank, Banks
<1> QED
  BY <1>1 DEF Fwd, Banks

LEMMA RowFacts ==
  /\ \A r \in Rows : /\ NextRow(r) \in Rows /\ NextRow(r) # r /\ Plus(r, 0) = r
                     /\ Plus(r, 1) = NextRow(r) /\ Plus(NextRow(r), SrcH - 1) = r
  /\ \A r \in Rows, k \in 0 .. SrcH - 1 : Plus(r, k) \in Rows
  /\ \A r \in Rows, k \in 0 .. SrcH - 2 : Plus(NextRow(r), k) = Plus(r, k + 1) /\ NextRow(Plus(r, k)) = Plus(r, k + 1)
  /\ \A r \in Rows, k \in 2 .. SrcH - 1 : Plus(r, k) # NextRow(r)
BY WriterAssumption, ReaderAssumption DEF Rows, Plus, NextRow

LEMMA AheadRange ==
  ASSUME RingRange, NEW D \in Banks
  PROVE  Ahead(D) \in 1 .. NumBanks /\ Come(D) \in 0 .. NumBanks
<1>1. wrB \in Banks /\ NumBanks \in Nat \ {0, 1}
  BY ReaderAssumption DEF RingRange
<1>2. wrB # D => Fwd(D, wrB) # 0
  BY <1>1, BankFacts
<1>3. Fwd(D, wrB) \in 0 .. NumBanks - 1
  BY <1>1, BankFacts
<1> QED
  BY <1>1, <1>2, <1>3 DEF Ahead, Come

\* The window moves on by a bank that came.
LEMMA WindowMoves ==
  ASSUME RingRange, NEW D \in Banks, Window(D), Come(D) > 1
  PROVE  /\ bankY[NextBank(D)] = NextRow(bankY[D])
         /\ Ahead(NextBank(D)) = Ahead(D) - 1 /\ Come(NextBank(D)) = Come(D) - 1
         /\ Window(NextBank(D))
<1> DEFINE E == NextBank(D)
<1>1. /\ E \in Banks /\ wrB \in Banks /\ bankY[D] \in Rows /\ want.bank \in Banks
      /\ NumBanks \in Nat \ {0, 1} /\ NumBanks < SrcH /\ SrcH \in Nat
  BY BankFacts, WriterAssumption, ReaderAssumption DEF RingRange
<1>2. /\ E # D /\ Fwd(D, E) = 1
      /\ \A b \in Banks : Fwd(D, b) \in 0 .. NumBanks - 1
      /\ \A b \in Banks : Fwd(E, b) = IF b = D THEN NumBanks - 1 ELSE Fwd(D, b) - 1
  <2>1. E # D
    BY <1>1, BankFacts DEF Banks
  <2>2. Fwd(D, E) = Fwd(D, D) + 1
    BY <2>1, BankFacts
  <2>3. Fwd(D, D) = 0
    BY BankFacts
  <2>4. \A b \in Banks : Fwd(E, b) = IF b = D THEN NumBanks - 1 ELSE Fwd(D, b) - 1
    BY BankFacts
  <2>5. \A b \in Banks : Fwd(D, b) \in 0 .. NumBanks - 1
    BY BankFacts
  <2> QED
    BY <2>1, <2>2, <2>3, <2>4, <2>5
<1> HIDE DEF E
<1>3. bankY[E] = NextRow(bankY[D]) /\ bankY[E] \in Rows
  BY <1>1, <1>2, RowFacts DEF Window
<1>4. Ahead(D) \in 2 .. NumBanks /\ Come(D) \in 2 .. NumBanks
  BY <1>1, AheadRange DEF Come
<1>5. Ahead(E) = Ahead(D) - 1
  <2>1. CASE wrB = D
    BY <1>1, <1>2, <2>1 DEF Ahead
  <2>2. CASE wrB # D
    <3>1. Ahead(D) = Fwd(D, wrB) /\ Fwd(D, wrB) > 1
      BY <1>4, <2>2 DEF Ahead
    <3>2. wrB # E
      BY <1>2, <3>1
    <3> QED
      BY <1>1, <1>2, <2>2, <3>1, <3>2 DEF Ahead
  <2> QED
    BY <2>1, <2>2
<1>6. Come(E) = Come(D) - 1
  BY <1>1, <1>4, <1>5 DEF Come
<1>7. \A k \in 0 .. SrcH - 2 : Plus(bankY[E], k) = Plus(bankY[D], k + 1)
  BY <1>1, <1>3, RowFacts
<1>8. fY = Plus(bankY[E], Ahead(E))
  BY <1>1, <1>4, <1>5, <1>7 DEF Window
<1>9. fetchBusy => want.row = Plus(bankY[E], Come(E)) /\ Fwd(E, want.bank) = Come(E)
  <2> SUFFICES ASSUME fetchBusy PROVE want.row = Plus(bankY[E], Come(E)) /\ Fwd(E, want.bank) = Come(E)
    OBVIOUS
  <2>1. want.row = Plus(bankY[D], Come(D)) /\ Fwd(D, want.bank) = Come(D)
    BY DEF Window
  <2>2. want.bank # D
    BY <1>4, <2>1, BankFacts
  <2> QED
    BY <1>1, <1>2, <1>4, <1>6, <1>7, <2>1, <2>2
<1>10. ASSUME NEW b \in Banks, Fwd(E, b) < Come(E)
       PROVE  bankOk[b] /\ bankY[b] = Plus(bankY[E], Fwd(E, b))
  <2>1. b # D /\ Fwd(E, b) = Fwd(D, b) - 1
    BY <1>1, <1>2, <1>4, <1>6, <1>10
  <2>2. Fwd(D, b) < Come(D) /\ Fwd(D, b) \in 1 .. NumBanks - 1
    <3>1. Fwd(D, b) # 0
      BY <2>1, BankFacts
    <3> QED
      BY <1>1, <1>2, <1>4, <1>6, <1>10, <2>1, <3>1
  <2>3. bankOk[b] /\ bankY[b] = Plus(bankY[D], Fwd(D, b))
    BY <2>2 DEF Window
  <2>4. Fwd(E, b) \in 0 .. SrcH - 2 /\ Fwd(E, b) + 1 = Fwd(D, b)
    BY <1>1, <2>1, <2>2
  <2> QED
    BY <1>7, <2>3, <2>4
<1>11. ASSUME NEW b \in Banks, Fwd(E, b) >= Come(E), bankOk[b]
       PROVE  bankY[b] = Plus(bankY[E], Fwd(E, b) + SrcH - NumBanks)
  <2>1. CASE b = D
    <3>1. Fwd(E, b) + SrcH - NumBanks = SrcH - 1
      BY <1>1, <1>2, <2>1
    <3> QED
      BY <1>1, <1>3, <2>1, <3>1, RowFacts
  <2>2. CASE b # D
    <3>1. Fwd(E, b) = Fwd(D, b) - 1 /\ Fwd(D, b) \in 0 .. NumBanks - 1 /\ Fwd(D, b) >= Come(D)
      BY <1>1, <1>2, <1>4, <1>6, <1>11, <2>2
    <3>2. bankY[b] = Plus(bankY[D], Fwd(D, b) + SrcH - NumBanks)
      BY <1>11, <3>1 DEF Window
    <3> DEFINE k == Fwd(E, b) + SrcH - NumBanks
    <3>3. k \in 0 .. SrcH - 2 /\ k + 1 = Fwd(D, b) + SrcH - NumBanks
      BY <1>1, <1>4, <3>1
    <3> HIDE DEF k
    <3>4. bankY[b] = Plus(bankY[E], k)
      BY <1>7, <3>2, <3>3
    <3> QED
      BY <3>4 DEF k
  <2> QED
    BY <2>1, <2>2
<1>12. Window(E)
  BY <1>4, <1>6, <1>8, <1>9, <1>10, <1>11 DEF Window
<1> QED
  BY <1>3, <1>5, <1>6, <1>12 DEF E

(* Arithmetic of the scan *)
LEMMA Once ==
  ASSUME NEW k \in Nat, NEW n \in Nat \ {0}, NEW m \in Nat \ {0}, k * n = m, m < 2 * n
  PROVE  k = 1
<1>1. k # 0
  OBVIOUS
<1>2. k >= 2 => k * n >= 2 * n
  OBVIOUS
<1> QED
  BY <1>1, <1>2

\* A row spans two lines at least, and the last one spans the last two lines shown.
LEMMA NeededRow ==
  ASSUME NEW v \in Nat, NEW acc \in 0 .. VActive - 1, NEW row \in Rows,
         v < VActive => row * VActive + acc = v * SrcH
  PROVE  LET s == IF v < VActive THEN row ELSE 0
             n == NextSrcY(v, acc, row)
         IN /\ s \in Rows /\ n \in Rows
            /\ n = s \/ n = NextRow(s)
            /\ v + 1 < VActive => n = s \/ n = s + 1
            /\ v + 1 >= VActive => n = 0
            /\ v + 1 = VActive => s = SrcH - 1
            /\ v + 2 = VActive => s = SrcH - 1 /\ n = SrcH - 1
<1> DEFINE s == IF v < VActive THEN row ELSE 0
           n == NextSrcY(v, acc, row)
<1>0. /\ VActive \in Nat \ {0} /\ SrcH \in Nat \ {0} /\ 2 * SrcH <= VActive /\ SrcH > 1
      /\ row \in Nat /\ row < SrcH /\ acc \in Nat /\ acc < VActive
  BY WriterAssumption, ReaderAssumption DEF Rows
<1>1. n \in Rows /\ s \in Rows
  BY <1>0, NextRowIsARow DEF Rows
<1>2. ASSUME NEW j \in {1, 2}, v + j = VActive PROVE row = SrcH - 1
  <2>1. v < VActive /\ v = VActive - j
    BY <1>0, <1>2
  <2>2. (VActive - j) * SrcH = VActive * SrcH - j * SrcH
    BY <1>0, <1>2
  <2>3. (SrcH - row) * VActive = VActive * SrcH - row * VActive
    BY <1>0
  <2>4. (SrcH - row) * VActive = j * SrcH + acc
    BY <1>0, <2>1, <2>2, <2>3
  <2>5. j * SrcH + acc \in Nat \ {0} /\ j * SrcH + acc < 2 * VActive
    BY <1>0
  <2>6. SrcH - row \in Nat
    BY <1>0
  <2>7. SrcH - row = 1
    <3> DEFINE k == SrcH - row
               m == j * SrcH + acc
    <3>1. k \in Nat /\ m \in Nat \ {0} /\ k * VActive = m /\ m < 2 * VActive
      BY <2>4, <2>5, <2>6
    <3> HIDE DEF k, m
    <3>2. k = 1
      BY <1>0, <3>1, Once
    <3> QED
      BY <3>2 DEF k
  <2> QED
    BY <1>0, <2>7
<1>3. v + 1 < VActive => n = s \/ n = s + 1
  BY <1>0 DEF NextSrcY
<1>4. v + 1 >= VActive => n = 0
  BY <1>0 DEF NextSrcY
<1>5. v + 1 = VActive => s = SrcH - 1
  BY <1>0, <1>2
<1>6. v + 2 = VActive => s = SrcH - 1 /\ n = SrcH - 1
  <2> SUFFICES ASSUME v + 2 = VActive PROVE s = SrcH - 1 /\ n = SrcH - 1
    OBVIOUS
  <2>1. s = SrcH - 1
    BY <1>0, <1>2
  <2>2. n = s \/ n = s + 1
    BY <1>0, <1>3
  <2> HIDE DEF n, s
  <2> QED
    BY <1>0, <1>1, <2>1, <2>2 DEF Rows
<1>7. n = s \/ n = NextRow(s)
  <2>1. CASE v + 1 < VActive
    <3> HIDE DEF n, s
    <3> QED
      BY <1>0, <1>1, <1>3, <2>1 DEF NextRow, Rows
  <2>2. CASE v + 1 = VActive
    BY <1>0, <1>4, <1>5, <2>2 DEF NextRow
  <2>3. CASE v + 1 > VActive
    BY <1>0, <1>4, <2>3
  <2> QED
    BY <1>0, <2>1, <2>2, <2>3
<1> QED
  BY <1>1, <1>3, <1>4, <1>5, <1>6, <1>7

\* A line ends: the next line's row is shown, and the row after that is asked for.
LEMMA ScanShows ==
  ASSUME ScanRange, Scan
  PROVE  /\ Shown \in Rows /\ Needed \in Rows /\ Needed' \in Rows
         /\ Shown' = Needed
         /\ Needed' = Needed \/ Needed' = NextRow(Needed)
         /\ Needed # Shown => Needed' = Needed
         /\ ~lastLine => vc' = vc + 1
         /\ lastLine => vc' = 0 /\ Needed = 0
<1> USE WriterAssumption, ReaderAssumption
<1>0. /\ vc \in Nat /\ vc <= VTotal - 1 /\ vAcc \in 0 .. VActive - 1 /\ curSrcY \in Rows /\ SrcH \in Nat \ {0}
      /\ VActive \in Nat \ {0} /\ 2 * SrcH <= VActive /\ VActive < VTotal /\ VTotal \in Nat
      /\ vc < VActive => curSrcY * VActive + vAcc = vc * SrcH
  BY DEF ScanRange
<1>1. /\ vc' \in Nat /\ vAcc' \in 0 .. VActive - 1 /\ curSrcY' \in Rows
      /\ vc' < VActive => curSrcY' * VActive + vAcc' = vc' * SrcH
  <2>1. ScanRange'
    BY ScanMoves
  <2> QED
    BY <2>1 DEF ScanRange
<1>2. /\ Shown \in Rows /\ Needed \in Rows
      /\ vc + 1 >= VActive => Needed = 0
      /\ vc + 2 = VActive => Needed = Shown
  <2> HIDE WriterAssumption, ReaderAssumption
  <2> QED
    BY <1>0, NeededRow DEF Shown, Needed
<1>3. /\ Shown' \in Rows /\ Needed' \in Rows
      /\ Needed' = Shown' \/ Needed' = NextRow(Shown')
      /\ vc' + 1 >= VActive => Needed' = 0
  <2> HIDE WriterAssumption, ReaderAssumption
  <2> QED
    BY <1>1, NeededRow DEF Shown, Needed
<1>4. (~lastLine => vc' = vc + 1) /\ (lastLine => vc' = 0 /\ curSrcY' = 0 /\ vc >= VActive)
  BY <1>0 DEF Scan, lastLine
<1>5. Shown' = Needed
  <2>1. CASE lastLine
    BY <1>0, <1>2, <1>4, <2>1 DEF Shown
  <2>2. CASE ~lastLine /\ vc + 1 < VActive
    BY <1>0, <2>2 DEF Scan, Shown, Needed, NextSrcY, StepsRow
  <2>3. CASE ~lastLine /\ ~(vc + 1 < VActive)
    BY <1>0, <1>2, <1>4, <2>3 DEF Shown
  <2> QED
    BY <2>1, <2>2, <2>3
<1>6. Needed # Shown => Needed' = Needed
  <2> SUFFICES ASSUME Needed # Shown PROVE Needed' = Needed
    OBVIOUS
  <2>1. CASE vc >= VActive
    <3>1. Needed = 0 /\ Shown = 0
      BY <1>0, <1>2, <2>1 DEF Shown
    <3> QED
      BY <3>1
  <2>2. CASE vc + 1 = VActive
    <3>1. Needed = 0 /\ ~lastLine /\ vc' = vc + 1
      BY <1>0, <1>2, <1>4, <2>2 DEF lastLine
    <3> QED
      BY <1>0, <1>3, <2>2, <3>1
  <2>3. CASE vc + 1 < VActive
    <3>1. ~lastLine /\ vc' = vc + 1 /\ vc + 2 # VActive
      BY <1>0, <1>2, <1>4, <2>3 DEF lastLine
    <3>2. vAcc + SrcH >= VActive
      BY <1>0, <2>3 DEF Needed, Shown, NextSrcY
    <3>3. vAcc' = vAcc + SrcH - VActive
      <4>1. vAcc' = (vAcc + SrcH) % VActive
        BY <2>3, <3>1 DEF Scan
      <4>2. \A a \in Nat : VActive <= a /\ a < 2 * VActive => a % VActive = a - VActive
        BY <1>0, ModOnce
      <4> QED
        BY <1>0, <3>2, <4>1, <4>2
    <3>4. ~(vAcc' + SrcH >= VActive) /\ vc' + 1 < VActive /\ vc' < VActive
      BY <1>0, <2>3, <3>1, <3>3
    <3>5. Needed' = curSrcY'
      BY <3>4 DEF Needed, NextSrcY
    <3>6. Shown' = curSrcY'
      BY <3>4 DEF Shown
    <3> QED
      BY <1>5, <3>5, <3>6
  <2> QED
    BY <1>0, <2>1, <2>2, <2>3
<1> QED
  BY <1>0, <1>2, <1>3, <1>4, <1>5, <1>6

(* One lemma for each action on the ring *)
LEMMA RunningFacts ==
  ASSUME RingRange, Running
  PROVE  /\ bankOk[dispBank] /\ bankY[dispBank] \in Rows /\ dispBank \in Banks
         /\ Ahead(dispBank) \in 1 .. NumBanks /\ Come(dispBank) \in 1 .. NumBanks
         /\ ready /\ bankOk # NoRows
<1>1. dispBank \in Banks /\ bankY[dispBank] \in Rows
  BY DEF RingRange
<1>2. Come(dispBank) > 0 /\ Fwd(dispBank, dispBank) = 0
  BY <1>1, BankFacts DEF Running, Window
<1>3. bankOk[dispBank]
  BY <1>1, <1>2 DEF Running, Window
<1>4. bankOk # NoRows
  BY <1>1, <1>3 DEF NoRows
<1> QED
  BY <1>1, <1>2, <1>3, <1>4, AheadRange DEF Running

\* A row is asked for ahead of the display: the window has one bank more to come.
LEMMA PrefetchRing ==
  ASSUME RingRange, RingInv, Prefetch, behind' = behind
  PROVE  /\ Running /\ RingInv'
         /\ Come(dispBank)' = Come(dispBank)
<1> USE WriterAssumption, ReaderAssumption
<1>0. /\ ready /\ ~fetchBusy /\ ~ringFull /\ (dispHasWant \/ nxtHasWant)
      /\ want' = [row |-> fY, bank |-> wrB] /\ fetchBusy' = TRUE
      /\ fY' = NextRow(fY) /\ wrB' = NextBank(wrB)
      /\ UNCHANGED <<vc, vAcc, curSrcY, dispBank, bankY, bankOk, ready>>
  BY DEF Prefetch, scan
<1>1. Running
  <2>1. bankOk # NoRows
    <3>1. dispBank \in Banks /\ NextBank(dispBank) \in Banks
      BY BankFacts DEF RingRange
    <3> QED
      BY <1>0, <3>1 DEF dispHasWant, nxtHasWant, Holds, NoRows
  <2> QED
    BY <1>0, <2>1 DEF RingInv, Stopped, Restarting
<1> DEFINE D == dispBank
           row == bankY[dispBank]
<1>2. /\ D \in Banks /\ wrB \in Banks /\ row \in Rows /\ bankOk[D] /\ SrcH \in Nat /\ NumBanks \in Nat \ {0, 1}
      /\ NumBanks < SrcH
  BY <1>1, RunningFacts DEF RingRange
<1>3. wrB # D /\ Ahead(D) = Fwd(D, wrB) /\ Come(D) = Ahead(D) /\ Ahead(D) \in 1 .. NumBanks - 1
  <2>1. wrB # D
    BY <1>0, <1>2 DEF ringFull
  <2>2. Ahead(D) = Fwd(D, wrB) /\ Come(D) = Ahead(D)
    BY <1>0, <2>1 DEF Ahead, Come
  <2>3. Fwd(D, wrB) \in 0 .. NumBanks - 1 /\ Ahead(D) \in 1 .. NumBanks
    BY <1>2, BankFacts, AheadRange
  <2> QED
    BY <2>1, <2>2, <2>3
<1>4. Ahead(D)' = Ahead(D) + 1
  <2>1. IF NextBank(wrB) = D THEN Fwd(D, wrB) = NumBanks - 1 ELSE Fwd(D, NextBank(wrB)) = Fwd(D, wrB) + 1
    BY <1>2, BankFacts
  <2>2. Ahead(D)' = IF NextBank(wrB) = D THEN NumBanks ELSE Fwd(D, NextBank(wrB))
    BY <1>0 DEF Ahead, Fwd
  <2> QED
    BY <1>2, <1>3, <2>1, <2>2
<1>5. Come(D)' = Come(D)
  BY <1>0, <1>2, <1>3, <1>4 DEF Come
<1>6. fY' = Plus(row, Ahead(D) + 1)
  <2>1. fY = Plus(row, Ahead(D))
    BY <1>1 DEF Running, Window
  <2>2. Ahead(D) \in 0 .. SrcH - 2
    BY <1>2, <1>3
  <2> QED
    BY <1>0, <1>2, <2>1, <2>2, RowFacts
<1>7. want'.row = Plus(row, Come(D)) /\ Fwd(D, want'.bank) = Come(D)
  BY <1>0, <1>1, <1>3 DEF Running, Window
<1>8. /\ Window(dispBank)' <=>
            /\ Come(D)' > 0 /\ fY' = Plus(row, Ahead(D)')
            /\ fetchBusy' => want'.row = Plus(row, Come(D)') /\ Fwd(D, want'.bank) = Come(D)'
            /\ \A b \in Banks : Fwd(D, b) < Come(D)' => bankOk[b] /\ bankY[b] = Plus(row, Fwd(D, b))
            /\ \A b \in Banks : Fwd(D, b) >= Come(D)' /\ bankOk[b] =>
                                  bankY[b] = Plus(row, Fwd(D, b) + SrcH - NumBanks)
  BY <1>0 DEF Window, Fwd
<1>9. Window(dispBank)'
  BY <1>1, <1>4, <1>5, <1>6, <1>7, <1>8 DEF Running, Window
<1>10. Lag'
  <2>1. Needed' = Needed /\ Shown' = Shown
    BY <1>0 DEF Needed, Shown
  <2>2. Ahead(dispBank) > 1 => Ahead(dispBank)' > 1
    BY <1>3, <1>4
  <2> QED
    BY <1>0, <1>1, <2>1, <2>2 DEF Running, Lag
<1> QED
  BY <1>0, <1>1, <1>5, <1>9, <1>10 DEF RingInv, Running

\* The row came: its bank joins the window, or begins one.
LEMMA FetchedRing ==
  ASSUME RingRange, Handshake, RingInv, Fetched, behind' = behind
  PROVE  /\ RingInv' /\ want.bank \in Banks
         /\ \A b \in Banks : Fwd(dispBank, b) < Come(dispBank)' =>
              \/ b = want.bank
              \/ Running /\ b # want.bank /\ Fwd(dispBank, b) < Come(dispBank)
         /\ Running => bankY'[dispBank] = bankY[dispBank]
<1> USE WriterAssumption, ReaderAssumption
<1>0. /\ ackEdge /\ fetchBusy /\ ~fetchBusy'
      /\ bankY' = [bankY EXCEPT ![want.bank] = want.row]
      /\ bankOk' = [bankOk EXCEPT ![want.bank] = ready]
      /\ UNCHANGED <<vc, vAcc, curSrcY, dispBank, fY, wrB, want, ready>>
      /\ want.bank \in Banks /\ want.row \in Rows /\ dispBank \in Banks /\ wrB \in Banks
      /\ SrcH \in Nat /\ NumBanks \in Nat \ {0, 1} /\ NumBanks < SrcH
  BY DEF Fetched, scan, Handshake, RingRange
<1>1. /\ \A b \in Banks : b # want.bank => bankY'[b] = bankY[b] /\ bankOk'[b] = bankOk[b]
      /\ bankY'[want.bank] = want.row /\ bankOk'[want.bank] = ready
  BY <1>0 DEF RingRange
<1>2. Needed' = Needed /\ Shown' = Shown
  BY <1>0 DEF Needed, Shown
<1> DEFINE D == dispBank
           row == bankY[dispBank]
<1>3. /\ Ahead(D)' = Ahead(D) /\ Come(D)' = Ahead(D) /\ Come(D) = Ahead(D) - 1
      /\ Ahead(D) \in 1 .. NumBanks
  BY <1>0, AheadRange DEF Ahead, Come, Fwd
<1>4. /\ Window(dispBank)' <=>
            /\ Ahead(D) > 0 /\ fY = Plus(bankY'[D], Ahead(D))
            /\ \A b \in Banks : Fwd(D, b) < Ahead(D) => bankOk'[b] /\ bankY'[b] = Plus(bankY'[D], Fwd(D, b))
            /\ \A b \in Banks : Fwd(D, b) >= Ahead(D) /\ bankOk'[b] =>
                                  bankY'[b] = Plus(bankY'[D], Fwd(D, b) + SrcH - NumBanks)
  BY <1>0, <1>3 DEF Window, Fwd
<1>5. CASE Running
  <2>1. /\ want.row = Plus(row, Come(D)) /\ Fwd(D, want.bank) = Come(D) /\ Come(D) > 0 /\ ready
        /\ fY = Plus(row, Ahead(D))
    BY <1>0, <1>5 DEF Running, Window
  <2>2. want.bank # D
    BY <1>0, <2>1, BankFacts
  <2>3. bankY'[D] = row
    BY <1>0, <1>1, <2>2
  <2>4. ASSUME NEW b \in Banks PROVE Fwd(D, b) \in 0 .. NumBanks - 1 /\ (Fwd(D, b) = Come(D) => b = want.bank)
    BY <1>0, <2>1, BankFacts
  <2>5. ASSUME NEW b \in Banks, Fwd(D, b) < Ahead(D)
        PROVE  bankOk'[b] /\ bankY'[b] = Plus(row, Fwd(D, b))
    <3>1. CASE b = want.bank
      BY <1>1, <2>1, <3>1
    <3>2. CASE b # want.bank
      <4>1. Fwd(D, b) < Come(D)
        BY <1>3, <2>4, <2>5, <3>2
      <4> QED
        BY <1>1, <1>5, <3>2, <4>1 DEF Running, Window
    <3> QED
      BY <3>1, <3>2
  <2>6. ASSUME NEW b \in Banks, Fwd(D, b) >= Ahead(D), bankOk'[b]
        PROVE  bankY'[b] = Plus(row, Fwd(D, b) + SrcH - NumBanks)
    <3>1. b # want.bank /\ Fwd(D, b) >= Come(D)
      BY <1>3, <2>1, <2>4, <2>6
    <3> QED
      BY <1>1, <1>5, <2>6, <3>1 DEF Running, Window
  <2>7. Window(dispBank)'
    BY <1>3, <1>4, <2>1, <2>3, <2>5, <2>6
  <2>8. Lag'
    BY <1>0, <1>2, <1>3, <1>5, <2>3 DEF Running, Lag
  <2>9. RingInv'
    BY <1>0, <2>1, <2>7, <2>8 DEF RingInv, Running
  <2>10. \A b \in Banks : Fwd(D, b) < Ahead(D) => b = want.bank \/ (b # want.bank /\ Fwd(D, b) < Come(D))
    BY <1>3, <2>4
  <2>11. \A b \in Banks : Fwd(D, b)' = Fwd(D, b)
    BY <1>0 DEF Fwd
  <2> QED
    BY <1>0, <1>3, <1>5, <2>3, <2>9, <2>10
<1>6. CASE Restarting
  <2>1. /\ ready /\ bankOk = NoRows /\ want.bank = D /\ wrB = NextBank(D) /\ fY = NextRow(want.row)
    BY <1>6 DEF Restarting
  <2>2. bankY'[D] = want.row /\ bankOk'[D] /\ \A b \in Banks : b # D => ~bankOk'[b]
    BY <1>1, <2>1 DEF NoRows
  <2>3. Ahead(D) = 1
    <3>1. Fwd(D, NextBank(D)) = 1 /\ NextBank(D) # D
      <4>1. NextBank(D) # D
        BY <1>0, BankFacts DEF Banks
      <4>2. Fwd(D, NextBank(D)) = Fwd(D, D) + 1 /\ Fwd(D, D) = 0
        BY <1>0, <4>1, BankFacts
      <4> QED
        BY <4>1, <4>2
    <3> QED
      BY <2>1, <3>1 DEF Ahead
  <2>4. ASSUME NEW b \in Banks PROVE Fwd(D, b) \in Nat /\ (Fwd(D, b) < 1 => b = D) /\ Fwd(D, D) = 0
    <3>1. Fwd(D, b) \in 0 .. NumBanks - 1 /\ Fwd(D, D) = 0 /\ (Fwd(D, b) = Fwd(D, D) => b = D)
      BY <1>0, BankFacts
    <3> QED
      BY <3>1
  <2>5. fY = Plus(want.row, 1) /\ Plus(want.row, 0) = want.row
    BY <1>0, <2>1, RowFacts
  <2>6. Window(dispBank)'
    BY <1>4, <2>2, <2>3, <2>4, <2>5
  <2>7. Lag'
    <3>1. Needed = want.row \/ (Needed = NextRow(want.row) /\ Shown = want.row)
      BY <1>6 DEF Restarting
    <3> QED
      BY <1>0, <1>2, <2>2, <3>1 DEF Lag
  <2>8. RingInv'
    BY <1>0, <2>1, <2>6, <2>7 DEF RingInv, Running
  <2>9. ~Running
    BY <2>1, RunningFacts
  <2> QED
    BY <1>0, <1>3, <2>1, <2>3, <2>4, <2>8, <2>9
<1> QED
  BY <1>0, <1>5, <1>6 DEF RingInv, Stopped

\* The bank on show after the line: the next one is taken exactly when the row needed came there.
LEMMA DisplayMoves ==
  ASSUME RingRange, ScanRange, Running
  PROVE  LET D == dispBank
             row == bankY[dispBank]
         IN \/ Needed = row /\ dispHasWant
            \/ Needed = NextRow(row) /\ Come(D) > 1 /\ nxtHasWant /\ ~dispHasWant
            \/ /\ Needed = NextRow(row) /\ Come(D) = 1 /\ ~nxtHasWant /\ ~dispHasWant
               /\ \A r \in Rows : Holds(bankOk, bankY, NextBank(D), r) => r # NextRow(row)
<1> USE WriterAssumption, ReaderAssumption
<1> DEFINE D == dispBank
           row == bankY[dispBank]
           E == NextBank(D)
<1>0. /\ D \in Banks /\ row \in Rows /\ bankOk[D] /\ Come(D) \in 1 .. NumBanks /\ E \in Banks
      /\ SrcH \in Nat /\ NumBanks \in Nat \ {0, 1} /\ NumBanks < SrcH /\ NextRow(row) # row
      /\ NextRow(row) \in Rows
  BY RunningFacts, BankFacts, RowFacts
<1>1. Fwd(D, E) = 1
  <2>1. E # D
    BY <1>0, BankFacts DEF Banks
  <2>2. Fwd(D, E) = Fwd(D, D) + 1 /\ Fwd(D, D) = 0
    BY <1>0, <2>1, BankFacts
  <2> QED
    BY <2>2
<1> HIDE DEF E
<1>2. Needed = row \/ Needed = NextRow(row)
  BY DEF Running, Lag
<1>3. dispHasWant <=> Needed = row
  BY <1>0 DEF dispHasWant, Holds, Needed
<1>4. CASE Needed = row
  BY <1>3, <1>4
<1>5. CASE Needed = NextRow(row) /\ Come(D) > 1
  <2>1. bankOk[E] /\ bankY[E] = Plus(row, 1) /\ Plus(row, 1) = NextRow(row)
    BY <1>0, <1>1, <1>5, RowFacts DEF Running, Window
  <2>2. nxtHasWant
    BY <1>5, <2>1 DEF nxtHasWant, Holds, Needed, E
  <2> QED
    BY <1>0, <1>3, <1>5, <2>2
<1>6. CASE Needed = NextRow(row) /\ Come(D) = 1
  <2>1. bankOk[E] => bankY[E] = Plus(row, 1 + SrcH - NumBanks)
    BY <1>0, <1>1, <1>6 DEF Running, Window
  <2>2. 1 + SrcH - NumBanks \in 2 .. SrcH - 1
    BY <1>0
  <2>3. bankOk[E] => bankY[E] # NextRow(row)
    BY <1>0, <2>1, <2>2, RowFacts
  <2>4. ~nxtHasWant /\ \A r \in Rows : Holds(bankOk, bankY, NextBank(D), r) => r # NextRow(row)
    BY <1>6, <2>3 DEF nxtHasWant, Holds, Needed, E
  <2> QED
    BY <1>0, <1>3, <1>6, <2>4
<1> QED
  BY <1>0, <1>2, <1>4, <1>5, <1>6

LEMMA NoRowsNext == ASSUME dispBank' \in Banks, bankOk' = NoRows PROVE ~Running'
<1>1. Fwd(dispBank', dispBank') = 0
  BY BankFacts
<1>2. ~bankOk'[dispBank']
  BY DEF NoRows
<1> SUFFICES ASSUME Running' PROVE FALSE
  OBVIOUS
<1>3. /\ Come(dispBank)' > 0
      /\ \A b \in Banks : Fwd(dispBank', b) < Come(dispBank)' => bankOk'[b]
  BY DEF Running, Window, Fwd
<1> QED
  BY <1>1, <1>2, <1>3

\* A line ends: the window stays or moves on by a bank, or the ring starts again.
LEMMA LineRing ==
  ASSUME RingRange, ScanRange, RingInv, Line
  PROVE  /\ RingInv'
         /\ Running' =>
              /\ Running /\ UNCHANGED <<bankY, bankOk, fetchBusy, want>>
              /\ LET D == dispBank
                     row == bankY[D]
                     r2  == bankY'[dispBank']
                 IN \/ /\ dispBank' = D /\ r2 = row /\ Come(D)' = Come(D)
                       /\ Needed = row \/ (Needed # Shown /\ ~lastLine)
                    \/ /\ dispBank' = NextBank(D) /\ r2 = NextRow(row) /\ Needed = r2
                       /\ Come(D) > 1 /\ Come(dispBank)' = Come(D) - 1
<1> DEFINE D == dispBank
           row == bankY[dispBank]
           D2 == dispBank'
<1>0. /\ D \in Banks /\ D2 \in Banks /\ D2 = (IF nxtHasWant /\ ~dispHasWant THEN NextBank(D) ELSE D)
      /\ Scan /\ Restart /\ UNCHANGED ready
      /\ InTime \/ ~ready \/ (~lastLine /\ ~behind)
      /\ behind' = ~(InTime \/ ~ready)
  BY BankFacts DEF Line, LineEnd, RingRange
<1>1. /\ Shown \in Rows /\ Needed \in Rows /\ Needed' \in Rows /\ Shown' = Needed
      /\ Needed' = Needed \/ Needed' = NextRow(Needed)
      /\ Needed # Shown => Needed' = Needed
      /\ ~lastLine => vc' = vc + 1
  BY <1>0, ScanShows
<1> DEFINE needed == /\ ready /\ ~fetchBusy
                     /\ ~Holds(bankOk, bankY, D2, Needed')
                     /\ ~Holds(bankOk, bankY, NextBank(D2), Needed')
<1>2. IF needed
      THEN /\ bankOk' = NoRows /\ want' = [row |-> Needed', bank |-> D2] /\ fetchBusy' = TRUE
           /\ fY' = NextRow(Needed') /\ wrB' = NextBank(D2) /\ UNCHANGED bankY
      ELSE UNCHANGED <<bankY, bankOk, fY, wrB, fetchBusy, want>>
  BY <1>0 DEF Restart, Needed, ring
<1>3. CASE needed
  <2>1. Restarting'
    BY <1>0, <1>2, <1>3 DEF Restarting
  <2> QED
    BY <1>0, <1>2, <1>3, <2>1, NoRowsNext DEF RingInv
<1>4. CASE ~needed /\ bankOk = NoRows
  <2>1. UNCHANGED <<bankY, bankOk, fY, wrB, fetchBusy, want>> /\ bankOk' = NoRows
    BY <1>2, <1>4
  <2>2. D2 = D
    BY <1>0, <1>4, BankFacts DEF nxtHasWant, Holds, NoRows
  <2>3. ~Running /\ ~Running'
    BY <1>0, <1>4, <2>1, RunningFacts, NoRowsNext
  <2>4. CASE Stopped
    BY <2>1, <2>3, <2>4 DEF RingInv, Stopped
  <2>5. CASE Restarting
    <3>1. ready /\ fetchBusy /\ ~InTime /\ behind' /\ ~behind
      BY <1>0, <2>5 DEF Restarting, InTime
    <3>2. Needed = want.row
      BY <2>5, <3>1 DEF Restarting
    <3>3. Restarting'
      BY <1>0, <1>1, <2>1, <2>2, <2>5, <3>1, <3>2 DEF Restarting
    <3> QED
      BY <2>3, <3>3 DEF RingInv
  <2> QED
    BY <2>3, <2>4, <2>5 DEF RingInv
<1>5. CASE ~needed /\ bankOk # NoRows
  <2>1. UNCHANGED <<bankY, bankOk, fY, wrB, fetchBusy, want>> /\ Running
    BY <1>2, <1>5 DEF RingInv, Stopped, Restarting
  <2>2. /\ ready /\ row \in Rows /\ NextRow(row) # row /\ Come(D) \in 1 .. NumBanks /\ NumBanks \in Nat
        /\ Window(D) /\ Lag /\ Ahead(D) \in 1 .. NumBanks
    BY <2>1, RunningFacts, RowFacts, ReaderAssumption DEF Running
  <2>3. \A E \in Banks : Window(E) /\ E = D2 => Window(dispBank)'
    BY <2>1 DEF Window, Come, Ahead, Fwd
  <2>4. \A E \in Banks : E = D2 => Come(dispBank)' = Come(E) /\ Ahead(dispBank)' = Ahead(E)
    BY <2>1 DEF Come, Ahead, Fwd
  <2>5. CASE Needed = row /\ dispHasWant
    <3>1. D2 = D
      BY <1>0, <2>5
    <3>2. Lag'
      BY <1>1, <2>1, <2>5, <3>1 DEF Lag
    <3>3. Running'
      BY <1>0, <2>2, <2>3, <3>1, <3>2 DEF Running
    <3> QED
      BY <1>0, <2>1, <2>4, <2>5, <3>1, <3>3 DEF RingInv
  <2>6. CASE Needed = NextRow(row) /\ Come(D) > 1 /\ nxtHasWant /\ ~dispHasWant
    <3>1. D2 = NextBank(D)
      BY <1>0, <2>6
    <3>2. bankY[D2] = NextRow(row) /\ Come(D2) = Come(D) - 1 /\ Window(D2)
      BY <1>0, <2>2, <2>6, <3>1, WindowMoves
    <3>3. Lag'
      BY <1>1, <2>1, <2>6, <3>2 DEF Lag
    <3>4. Window(dispBank)' /\ Come(dispBank)' = Come(D2)
      BY <1>0, <2>3, <2>4, <3>2
    <3>5. Running'
      BY <1>0, <2>2, <3>3, <3>4 DEF Running
    <3> QED
      BY <2>1, <2>6, <3>1, <3>2, <3>4, <3>5 DEF RingInv
  <2>7. CASE /\ Needed = NextRow(row) /\ Come(D) = 1 /\ ~nxtHasWant /\ ~dispHasWant
             /\ \A r \in Rows : Holds(bankOk, bankY, NextBank(D), r) => r # NextRow(row)
    <3>1. D2 = D
      BY <1>0, <2>7
    <3>2. Shown = row
      <4>1. SUFFICES ASSUME Shown # row PROVE FALSE
        OBVIOUS
      <4>2. behind /\ Ahead(D) > 1
        BY <2>2, <2>7, <4>1 DEF Lag
      <4>3. InTime
        BY <1>0, <2>2, <4>2
      <4>4. Come(D) = Ahead(D)
        BY <4>3 DEF InTime, Come
      <4> QED
        BY <2>7, <4>2, <4>4
    <3>3. Needed' = Needed /\ Needed # Shown
      BY <1>1, <2>2, <2>7, <3>2
    <3>4. fetchBusy
      <4>1. ~Holds(bankOk, bankY, D2, Needed')
        BY <2>2, <2>7, <3>1, <3>3 DEF Holds
      <4>2. ~Holds(bankOk, bankY, NextBank(D2), Needed')
        BY <1>1, <2>7, <3>1, <3>3
      <4> QED
        BY <1>5, <2>2, <4>1, <4>2
    <3>5. ~lastLine /\ behind' /\ vc' = vc + 1
      BY <1>0, <1>1, <2>2, <3>4 DEF InTime
    <3>6. Ahead(D) > 1
      BY <2>2, <2>7, <3>4 DEF Come
    <3>7. vc' < VActive => Needed > 0
      <4>1. vc \in Nat /\ VActive \in Nat
        BY ReaderAssumption DEF ScanRange
      <4>2. vc' < VActive => vc < VActive /\ vc + 1 < VActive
        BY <3>5, <4>1
      <4>3. vc' < VActive => Needed = Shown \/ Needed = Shown + 1
        BY <4>2 DEF Needed, NextSrcY, Shown
      <4>4. Shown \in Nat
        BY <1>1 DEF Rows
      <4> QED
        BY <3>3, <4>3, <4>4
    <3>8. Ahead(dispBank)' > 1 /\ bankY'[dispBank'] = row
      BY <1>0, <2>1, <2>4, <3>1, <3>6
    <3>9. Lag'
      BY <1>1, <2>7, <3>3, <3>5, <3>7, <3>8 DEF Lag
    <3>10. Running'
      BY <1>0, <2>2, <2>3, <3>1, <3>9 DEF Running
    <3> QED
      BY <1>0, <2>1, <2>4, <3>1, <3>3, <3>5, <3>8, <3>10 DEF RingInv
  <2> QED
    BY <2>1, <2>5, <2>6, <2>7, DisplayMoves
<1> QED
  BY <1>3, <1>4, <1>5

(* What each action leaves of the cached rows *)
\* Only the end of a frame makes what is cached older.
LEMMA FreshKept ==
  ASSUME Rotation, [Next]_vars, ~Line
  PROVE  (FreshNow' => FreshNow) /\ (FreshBefore' => FreshBefore) /\ UNCHANGED <<readBufDisp, prevDisp>>
<1> USE DEF FreshNow, FreshBefore, Calm
<1>0. calm \in 0 .. 4
  BY DEF Rotation
<1>1. CASE FrameCaptured
  <2>1. /\ settled /\ ~settled' /\ UNCHANGED <<readBufDisp, prevDisp>>
        /\ calm' = IF enable /\ calm < 4 THEN calm + 1 ELSE calm
    BY <1>1 DEF FrameCaptured
  <2> QED
    BY <1>0, <2>1
<1>2. CASE Reset
  BY <1>2 DEF Reset, ReaderAbort
<1>3. CASE Capture
  BY <1>0, <1>3 DEF Capture, reader
<1>4. CASE MenuOpens
  BY <1>4 DEF MenuOpens, reader
<1>5. CASE UNCHANGED <<settled, calm, readBufDisp, prevDisp>>
  BY <1>5
<1>6. CASE Writing \/ WriteServed \/ WriteEnds \/ LoaderRequest \/ LoaderServed \/ LoaderDone
           \/ Ready \/ MenuCloses \/ UNCHANGED vars
  BY <1>5, <1>6 DEF Writing, WriteServed, WriteEnds, LoaderRequest, LoaderServed, LoaderDone, Ready,
                    MenuCloses, vars, reader
<1>7. CASE Ring \/ Reading \/ ReadEnds
  BY <1>5, <1>7 DEF Ring, Prefetch, Fetched, Reading, StartFetch, ReadServed, ReadMore, RowDone,
                    ReadEnds, ReadDone
<1> QED
  BY <1>1, <1>2, <1>3, <1>4, <1>6, <1>7 DEF Next

\* Only the display and the acknowledgement of a row move the ring.
LEMMA RingStill ==
  ASSUME RingInv, UNCHANGED <<scan, dispBank, ring, ready, behind>>
  PROVE  /\ RingInv' /\ Running' = Running /\ Come(dispBank)' = Come(dispBank)
         /\ \A b \in Banks : Fwd(dispBank, b)' = Fwd(dispBank, b)
<1>1. /\ UNCHANGED <<vc, vAcc, curSrcY, dispBank, bankY, bankOk, fY, wrB, fetchBusy, want, ready, behind>>
  BY DEF scan, ring
<1>2. Needed' = Needed /\ Shown' = Shown
  BY <1>1 DEF Needed, Shown
<1>3. Come(dispBank)' = Come(dispBank) /\ Ahead(dispBank)' = Ahead(dispBank)
  BY <1>1 DEF Come, Ahead, Fwd
<1>4. \A b \in Banks : Fwd(dispBank, b)' = Fwd(dispBank, b)
  BY <1>1 DEF Fwd
<1>5. Window(dispBank)' = Window(dispBank)
  BY <1>1 DEF Window, Come, Ahead, Fwd
<1>6. Lag' = Lag
  BY <1>1, <1>2, <1>3 DEF Lag
<1> QED
  BY <1>1, <1>2, <1>3, <1>4, <1>5, <1>6 DEF RingInv, Stopped, Restarting, Running

\* The banks of the window keep what they hold.
LEMMA BanksStill ==
  ASSUME RingInv, BanksRight, FreshNow' => FreshNow, FreshBefore' => FreshBefore,
         UNCHANGED <<scan, dispBank, ring, ready, behind, readBufDisp, prevDisp>>,
         \A b \in Banks : Running /\ Fwd(dispBank, b) < Come(dispBank) => cache'[b] = cache[b]
  PROVE  BanksRight'
<1> SUFFICES ASSUME Running', NEW b \in Banks, Fwd(dispBank', b) < Come(dispBank)'
             PROVE  BankNow(b)' \/ BankBefore(b)'
  BY DEF BanksRight, Fwd
<1>1. UNCHANGED <<vc, dispBank, bankY>>
  BY DEF scan, ring
<1>2. Running /\ Fwd(dispBank, b) < Come(dispBank)
  BY <1>1, RingStill
<1>3. cache'[b] = cache[b]
  BY <1>2
<1>4. BankNow(b) \/ BankBefore(b)
  BY <1>2 DEF BanksRight
<1>5. BankNow(b) => BankNow(b)'
  BY <1>1, <1>3 DEF BankNow, CellRight
<1>6. BankBefore(b) => BankBefore(b)'
  BY <1>1, <1>3 DEF BankBefore, CellRight, Fwd
<1> QED
  BY <1>4, <1>5, <1>6

\* The capture, the menu, the loader and the arbiter leave the cached rows alone.
LEMMA CacheStill ==
  ASSUME CacheInv, FreshNow' => FreshNow, FreshBefore' => FreshBefore,
         UNCHANGED <<scan, dispBank, ring, ready, behind, readBufDisp, prevDisp, reqEdge, ackEdge,
                     fetch, fx, snap, cache>>
  PROVE  CacheInv'
<1>1. RingInv' /\ BanksRight'
  <2>1. \A b \in Banks : Running /\ Fwd(dispBank, b) < Come(dispBank) => cache'[b] = cache[b]
    OBVIOUS
  <2> QED
    BY <2>1, RingStill, BanksStill DEF CacheInv
<1>2. FetchInv'
  <2>1. UNCHANGED <<want, fetchBusy>>
    BY DEF ring
  <2>2. \A q \in Quads : Got(q)' = Got(q)
    BY DEF Got
  <2> QED
    BY <2>1, <2>2 DEF CacheInv, FetchInv, CellRight
<1> QED
  BY <1>1, <1>2 DEF CacheInv

LEMMA PrefetchCache ==
  ASSUME RingRange, Handshake, CacheInv, Prefetch, UNCHANGED <<settled, owed, behind, calm, prevDisp>>
  PROVE  CacheInv'
<1>1. Running /\ RingInv' /\ Come(dispBank)' = Come(dispBank)
  BY PrefetchRing DEF CacheInv
<1>2. UNCHANGED <<vc, dispBank, bankY, cache, readBufDisp, prevDisp, calm, settled, fetch, snap, ackEdge>>
  BY DEF Prefetch, scan, fetching
<1>3. ~fetchBusy /\ fetch = "idle" /\ ~ackEdge /\ reqEdge'
  BY DEF Prefetch, Handshake
<1>4. FetchInv'
  BY <1>2, <1>3 DEF FetchInv, Got
<1>5. BanksRight'
  <2> SUFFICES ASSUME NEW b \in Banks, Fwd(dispBank', b) < Come(dispBank)'
               PROVE  BankNow(b)' \/ BankBefore(b)'
    BY DEF BanksRight, Fwd
  <2>1. BankNow(b) \/ BankBefore(b)
    BY <1>1, <1>2 DEF CacheInv, BanksRight
  <2> QED
    BY <1>2, <2>1 DEF BankNow, BankBefore, CellRight, FreshNow, FreshBefore, Fwd
<1> QED
  BY <1>1, <1>4, <1>5 DEF CacheInv

LEMMA FetchedCache ==
  ASSUME RingRange, Handshake, CacheInv, Fetched, UNCHANGED <<settled, owed, behind, calm, prevDisp>>
  PROVE  CacheInv'
<1>1. /\ RingInv' /\ want.bank \in Banks
      /\ \A b \in Banks : Fwd(dispBank, b) < Come(dispBank)' =>
           \/ b = want.bank
           \/ Running /\ b # want.bank /\ Fwd(dispBank, b) < Come(dispBank)
      /\ Running => bankY'[dispBank] = bankY[dispBank]
  BY FetchedRing DEF CacheInv
<1>2. /\ UNCHANGED <<vc, dispBank, cache, readBufDisp, prevDisp, calm, settled, fetch, snap, want>>
      /\ bankY' = [bankY EXCEPT ![want.bank] = want.row]
  BY DEF Fetched, scan, fetching
<1>3. ackEdge /\ fetch = "idle" /\ ~ackEdge' /\ ~fetchBusy'
  BY DEF Fetched, Handshake
<1>4. FetchInv'
  BY <1>2, <1>3 DEF FetchInv, Got
<1>5. BanksRight'
  <2> SUFFICES ASSUME NEW b \in Banks, Fwd(dispBank', b) < Come(dispBank)'
               PROVE  BankNow(b)' \/ BankBefore(b)'
    BY DEF BanksRight, Fwd
  <2>1. b = want.bank \/ (Running /\ b # want.bank /\ Fwd(dispBank, b) < Come(dispBank))
    BY <1>1, <1>2
  <2>2. CASE b = want.bank
    <3>1. bankY'[b] = want.row
      BY <1>1, <1>2, <2>2 DEF RingRange
    <3>2. \A q \in Quads : CellRight(cache[b][q], q, want.row, readBufDisp, FreshNow)
      BY <1>3, <2>2 DEF CacheInv, FetchInv, Got
    <3>3. BankNow(b)'
      BY <1>2, <3>1, <3>2 DEF BankNow, CellRight, FreshNow
    <3> QED
      BY <3>3
  <2>3. CASE Running /\ b # want.bank /\ Fwd(dispBank, b) < Come(dispBank)
    <3>1. bankY'[b] = bankY[b] /\ bankY'[dispBank] = bankY[dispBank]
      BY <1>1, <1>2, <2>3 DEF RingRange
    <3>2. BankNow(b) \/ BankBefore(b)
      BY <2>3 DEF CacheInv, BanksRight
    <3> QED
      BY <1>2, <3>1, <3>2 DEF BankNow, BankBefore, CellRight, FreshNow, FreshBefore, Fwd
  <2> QED
    BY <2>1, <2>2, <2>3
<1> QED
  BY <1>1, <1>4, <1>5 DEF CacheInv

\* What a fetch reads is of the buffer on show; while the picture is undisturbed that buffer is
\* a finished capture, and nothing on its way to SDRAM goes there.
LEMMA ReadIsRight ==
  ASSUME RangeInv, RotationInv, PictureInv, NEW row \in Rows, NEW q \in Quads
  PROVE  CellRight(Read(readBufDisp, row, q), q, row, readBufDisp, FreshNow)
<1> DEFINE b == readBufDisp
<1>0. /\ calm \in 0 .. 4 /\ writeBuf \in Buffers /\ readyBuf \in Buffers /\ XStart \in 0 .. RowQuads - 1
      /\ RowQuads \in Nat
  BY WriterAssumption DEF RotationInv, Rotation, Calm
<1> SUFFICES ASSUME FreshNow PROVE GoodTag(q, row, Read(b, row, q).tag)
  BY DEF CellRight, Read
<1>1. calm > 1 /\ framed
  BY <1>0 DEF FreshNow, PictureInv, Finished
<1>2. ~clearing
  BY <1>1 DEF PictureInv, Captured
<1>3. b \in {readyBuf, PrevBuf(readyBuf)} /\ writeBuf = NextBuf(readyBuf)
  BY <1>0, <1>1 DEF RotationInv, Rotation
<1>4. b \in Buffers /\ b # writeBuf
  BY <1>0, <1>3 DEF Buffers, NextBuf, PrevBuf
<1>5. Read(b, row, q).tag = mem[b][row][q]
  BY <1>2, <1>4 DEF Read
<1>6. CASE q >= XStart
  <2>1. Full(b)
    <3>1. CASE b = readyBuf
      BY <1>1, <3>1 DEF PictureInv, Finished
    <3>2. CASE b # readyBuf
      <4>1. b = PrevBuf(readyBuf) /\ ~settled
        BY <1>3, <3>2 DEF RotationInv, Rotation
      <4>2. calm > 2
        BY <1>0, <4>1 DEF FreshNow
      <4> QED
        BY <4>1, <4>2 DEF PictureInv, Finished
    <3> QED
      BY <3>1, <3>2
  <2> QED
    BY <1>5, <1>6, <2>1 DEF Full, GoodTag
<1>7. CASE ~(q >= XStart) /\ row # 0
  <2>1. q < XStart
    BY <1>0, <1>7 DEF Quads
  <2>2. Holding(b, row, q, "black")
    <3>1. Margin(At(b, row, q)) /\ Swept(b, row, q)
      BY <1>2, <1>7, <2>1 DEF Margin, At, Swept
    <3> QED
      BY <1>4, <3>1 DEF PictureInv, Margins
  <2>3. ~\E e \in Queue : e.at = At(b, row, q)
    <3>1. \A e \in Queue : e.at.quad >= XStart
      BY <1>1 DEF PictureInv, QueueRight
    <3>2. \A e \in Queue : e.at = At(b, row, q) => e.at.quad = q
      BY DEF At
    <3> QED
      BY <1>7, <3>1, <3>2
  <2>4. mem[b][row][q] = "black"
    BY <2>2, <2>3 DEF Holding
  <2> QED
    BY <1>5, <2>4, <1>7 DEF GoodTag
<1> QED
  BY <1>6, <1>7 DEF GoodTag

LEMMA StartFetchCache ==
  ASSUME FetchRange, Handshake, CacheInv, StartFetch, UNCHANGED <<settled, owed, behind, calm, prevDisp>>
  PROVE  CacheInv'
<1>1. UNCHANGED <<scan, dispBank, ring, ready, readBufDisp, cache, ackEdge>>
      /\ reqEdge /\ ~ackEdge /\ fetch' = "read" /\ fx' = 0 /\ snap' = want
  BY DEF StartFetch, Handshake
<1>2. RingInv' /\ BanksRight'
  BY <1>1, RingStill, BanksStill DEF CacheInv, FreshNow, FreshBefore
<1>3. \A q \in Quads : ~Got(q)'
  <2>1. \A q \in Quads : ~(q < 0)
    BY DEF Quads
  <2> QED
    BY <1>1, <2>1 DEF Got
<1>4. FetchInv'
  BY <1>1, <1>3 DEF FetchInv, ring
<1> QED
  BY <1>2, <1>4 DEF CacheInv

LEMMA ReadDoneCache ==
  ASSUME ArbiterInv, RangeInv, RotationInv, PictureInv, CacheInv, ReadDone,
         UNCHANGED <<settled, behind, calm, prevDisp>>
  PROVE  CacheInv'
<1>1. /\ UNCHANGED <<scan, dispBank, ring, ready, readBufDisp, ackEdge, reqEdge, fx, snap>>
      /\ fetch' = "unload" /\ active = "c"
      /\ cache' = [cache EXCEPT ![snap.bank] =
                     [q \in Quads |-> IF q \in fx .. fx + BatchLen - 1
                                      THEN Read(readFrom, snap.row, q) ELSE @[q]]]
  BY DEF ReadDone, Complete
<1>2. fetch = "read" /\ readFrom = readBufDisp
  BY <1>1 DEF ArbiterInv, Asking, RotationInv, Rotation
<1>3. snap = want /\ ~ackEdge /\ ~reqEdge /\ fetchBusy
  BY <1>2 DEF CacheInv, FetchInv, RotationInv, Handshake
<1>4. UNCHANGED <<want, fetchBusy>> /\ want.bank \in Banks /\ want.row \in Rows /\ dispBank \in Banks
  BY <1>1 DEF ring, RangeInv, RingRange
<1>5. /\ \A b \in Banks : b # want.bank => cache'[b] = cache[b]
      /\ \A q \in Quads : cache'[want.bank][q] = IF q \in fx .. fx + BatchLen - 1
                                                 THEN Read(readBufDisp, want.row, q) ELSE cache[want.bank][q]
  BY <1>1, <1>2, <1>3, <1>4 DEF RangeInv, FetchRange
<1>6. \A b \in Banks : Running /\ Fwd(dispBank, b) < Come(dispBank) => cache'[b] = cache[b]
  <2> SUFFICES ASSUME NEW b \in Banks, Running, Fwd(dispBank, b) < Come(dispBank)
               PROVE  b # want.bank
    BY <1>5
  <2>1. Fwd(dispBank, want.bank) = Come(dispBank)
    BY <1>3 DEF Running, Window
  <2>2. Fwd(dispBank, b) \in Nat
    BY <1>4, BankFacts
  <2> QED
    BY <2>1, <2>2
<1>7. RingInv' /\ BanksRight'
  BY <1>1, <1>6, RingStill, BanksStill DEF CacheInv, FreshNow, FreshBefore
<1>8. FetchInv'
  <2>1. ASSUME NEW q \in Quads, Got(q)'
        PROVE  CellRight(cache'[want.bank][q], q, want.row, readBufDisp, FreshNow)
    <3>1. CASE q \in fx .. fx + BatchLen - 1
      BY <1>4, <1>5, <3>1, ReadIsRight
    <3>2. CASE q \notin fx .. fx + BatchLen - 1
      <4>1. q < fx
        <5>1. fx \in Nat /\ q \in Nat /\ BatchLen \in Nat
          BY WriterAssumption DEF RangeInv, FetchRange, Quads
        <5>2. q < fx + BatchLen
          BY <1>1, <1>3, <2>1 DEF Got
        <5> QED
          BY <3>2, <5>1, <5>2
      <4>2. Got(q)
        BY <1>2, <4>1 DEF Got
      <4> QED
        BY <1>5, <3>2, <4>2 DEF CacheInv, FetchInv
    <3> QED
      BY <3>1, <3>2
  <2> QED
    BY <1>1, <1>3, <1>4, <2>1 DEF FetchInv, CellRight, FreshNow
<1> QED
  BY <1>7, <1>8 DEF CacheInv

LEMMA ReadMoreCache ==
  ASSUME CacheInv, ReadMore, UNCHANGED <<settled, owed, behind, calm, prevDisp>>
  PROVE  CacheInv'
<1>1. UNCHANGED <<scan, dispBank, ring, ready, readBufDisp, ackEdge, reqEdge, snap, cache>>
      /\ fetch = "unload" /\ fetch' = "read" /\ fx' = fx + BatchLen
  BY DEF ReadMore
<1>2. RingInv' /\ BanksRight'
  BY <1>1, RingStill, BanksStill DEF CacheInv, FreshNow, FreshBefore
<1>3. \A q \in Quads : Got(q)' = Got(q)
  BY <1>1 DEF Got
<1>4. FetchInv'
  BY <1>1, <1>3 DEF CacheInv, FetchInv, CellRight, FreshNow, ring
<1> QED
  BY <1>2, <1>4 DEF CacheInv

\* The row is complete when its last access is.
LEMMA RowDoneCache ==
  ASSUME FetchRange, CacheInv, RowDone, UNCHANGED <<settled, owed, behind, calm, prevDisp>>
  PROVE  CacheInv'
<1>1. UNCHANGED <<scan, dispBank, ring, ready, readBufDisp, reqEdge, snap, fx, cache>>
      /\ fetch = "unload" /\ fetch' = "idle" /\ ackEdge' = TRUE /\ fx + BatchLen >= RowQuads
  BY DEF RowDone
<1>2. RingInv' /\ BanksRight'
  BY <1>1, RingStill, BanksStill DEF CacheInv, FreshNow, FreshBefore
<1>3. \A q \in Quads : Got(q)
  <2>1. \A q \in Quads : q < fx + BatchLen
    BY <1>1, WriterAssumption DEF FetchRange, Quads
  <2> QED
    BY <1>1, <2>1 DEF Got
<1>4. FetchInv'
  BY <1>1, <1>3 DEF CacheInv, FetchInv, CellRight, FreshNow, ring
<1> QED
  BY <1>2, <1>4 DEF CacheInv

\* Before the chip is ready, and once the button is pressed, nothing is cached.
LEMMA ReadyCache ==
  ASSUME RingRange, CacheInv, Ready PROVE CacheInv'
<1>1. /\ UNCHANGED <<scan, dispBank, ring, behind, readBufDisp, prevDisp, reqEdge, ackEdge, fetch, fx,
                     snap, cache, settled, calm>>
      /\ ~ready
  BY DEF Ready, reader, fetching
<1>2. Stopped /\ Stopped'
  BY <1>1 DEF CacheInv, RingInv, Restarting, Running, Stopped, ring
<1>3. ~Running'
  <2>1. dispBank' \in Banks /\ bankOk' = NoRows
    BY <1>1, <1>2 DEF RingRange, Stopped
  <2> QED
    BY <2>1, NoRowsNext
<1>4. \A q \in Quads : Got(q)' = Got(q)
  BY <1>1 DEF Got
<1>5. FetchInv'
  BY <1>1, <1>4 DEF CacheInv, FetchInv, CellRight, FreshNow, ring
<1> QED
  BY <1>2, <1>3, <1>5 DEF CacheInv, RingInv, BanksRight

LEMMA ResetCache ==
  ASSUME RingRange, Reset PROVE CacheInv'
<1>1. /\ bankOk' = NoRows /\ ~fetchBusy' /\ ~reqEdge' /\ ~ackEdge' /\ fetch' = "idle" /\ dispBank' = dispBank
  BY DEF Reset, ReaderAbort
<1>2. Stopped' /\ ~Running'
  <2>1. dispBank' \in Banks
    BY <1>1 DEF RingRange
  <2> QED
    BY <1>1, <2>1, NoRowsNext DEF Stopped
<1>3. FetchInv'
  BY <1>1 DEF FetchInv, Got
<1> QED
  BY <1>2, <1>3 DEF CacheInv, RingInv, BanksRight

\* No row is being fetched when the frame ends: the buffer on show changes under none.
LEMMA LineFetch ==
  ASSUME RotationInv, CacheInv, Line PROVE FetchInv'
<1>1. /\ UNCHANGED <<ackEdge, fetch, fx, snap, cache, ready>> /\ Restart
      /\ InTime \/ ~ready \/ ~lastLine
  BY DEF Line, LineEnd, fetching
<1>2. CASE fetchBusy
  <2>1. UNCHANGED <<want, fetchBusy, reqEdge>>
    BY <1>1, <1>2 DEF Restart, ring
  <2>2. ~lastLine
    <3>1. ~InTime
      BY <1>2 DEF InTime
    <3>2. ready
      BY <1>2 DEF CacheInv, RingInv, Stopped, Restarting, Running
    <3> QED
      BY <1>1, <3>1, <3>2
  <2>3. UNCHANGED <<readBufDisp, calm>> /\ (settled' <=> settled)
    BY <2>2 DEF Line, LineEnd
  <2>4. \A q \in Quads : Got(q)' = Got(q)
    BY <1>1 DEF Got
  <2>5. FreshNow' => FreshNow
    BY <2>3 DEF FreshNow
  <2> QED
    BY <1>1, <2>1, <2>3, <2>4, <2>5 DEF CacheInv, FetchInv, CellRight
<1>3. CASE ~fetchBusy
  <2>1. fetch = "idle" /\ ~ackEdge
    BY <1>3 DEF RotationInv, Handshake
  <2>2. fetchBusy' => reqEdge'
    BY <1>1, <1>3 DEF Restart, ring
  <2>3. \A q \in Quads : ~Got(q)'
    BY <1>1, <2>1 DEF Got
  <2> QED
    BY <1>1, <2>1, <2>2, <2>3 DEF FetchInv
<1> QED
  BY <1>2, <1>3

\* The rows of the buffer on show become those of the buffer shown before, which the ring does not
\* come back to before the frame is over.
LEMMA LineBanks ==
  ASSUME RangeInv, RotationInv, CacheInv, Line PROVE BanksRight'
<1> SUFFICES ASSUME Running', NEW b \in Banks, Fwd(dispBank', b) < Come(dispBank)'
             PROVE  BankNow(b)' \/ BankBefore(b)'
  BY DEF BanksRight, Fwd
<1> DEFINE D   == dispBank
           row == bankY[dispBank]
           r2  == bankY'[dispBank']
<1>0. /\ RingRange /\ ScanRange /\ RingInv /\ Scan
      /\ D \in Banks /\ row \in Rows /\ NumBanks \in Nat \ {0, 1} /\ SrcH \in Nat /\ NumBanks < SrcH
      /\ VActive \in Nat /\ 2 * SrcH <= VActive /\ VTotal \in Nat /\ VTotal > VActive /\ vc \in Nat
  BY WriterAssumption, ReaderAssumption
     DEF RangeInv, RingRange, ScanRange, CacheInv, Line, LineEnd
<1>1. /\ Running /\ UNCHANGED <<bankY, bankOk, fetchBusy, want>>
      /\ \/ /\ dispBank' = D /\ r2 = row /\ Come(D)' = Come(D)
            /\ Needed = row \/ (Needed # Shown /\ ~lastLine)
         \/ /\ dispBank' = NextBank(D) /\ r2 = NextRow(row) /\ Needed = r2
            /\ Come(D) > 1 /\ Come(dispBank)' = Come(D) - 1
  BY <1>0, LineRing
<1>2. cache' = cache
  BY DEF Line, LineEnd, fetching
<1>3. /\ Fwd(D, b) \in 0 .. NumBanks - 1 /\ Come(D) \in 1 .. NumBanks
      /\ Fwd(NextBank(D), b) = IF b = D THEN NumBanks - 1 ELSE Fwd(D, b) - 1
      /\ Fwd(D, b) = Fwd(D, D) => b = D
      /\ Fwd(D, D) = 0
  BY <1>0, <1>1, BankFacts, RunningFacts
<1>4. /\ Fwd(D, b) < Come(D)
      /\ \/ dispBank' = D /\ r2 = row /\ Fwd(dispBank', b) = Fwd(D, b)
            /\ (Needed = row \/ (Needed # Shown /\ ~lastLine))
         \/ dispBank' = NextBank(D) /\ r2 = NextRow(row) /\ Needed = r2
            /\ Fwd(D, b) \in Nat \ {0} /\ Fwd(dispBank', b) = Fwd(D, b) - 1
  <2>1. CASE dispBank' = D /\ r2 = row /\ Come(D)' = Come(D) /\ (Needed = row \/ (Needed # Shown /\ ~lastLine))
    <3>1. Come(dispBank)' = Come(D)
      BY <2>1 DEF Come, Ahead, Fwd
    <3> QED
      BY <2>1, <3>1
  <2>2. CASE /\ dispBank' = NextBank(D) /\ r2 = NextRow(row) /\ Needed = r2
             /\ Come(D) > 1 /\ Come(dispBank)' = Come(D) - 1
    <3>1. Fwd(NextBank(D), b) < Come(D) - 1
      BY <2>2
    <3>2. b # D
      BY <1>0, <1>3, <3>1
    <3>3. Fwd(NextBank(D), b) = Fwd(D, b) - 1 /\ Fwd(D, b) # 0
      BY <1>3, <3>2
    <3> QED
      BY <1>0, <1>3, <2>2, <3>1, <3>3
  <2> QED
    BY <1>1, <2>1, <2>2
<1>5. BankNow(b) \/ BankBefore(b)
  BY <1>1, <1>4 DEF CacheInv, BanksRight
<1>6. CASE ~lastLine
  <2>1. UNCHANGED <<readBufDisp, prevDisp, calm>> /\ (settled' <=> settled) /\ vc' = vc + 1
    <3>1. UNCHANGED <<readBufDisp, prevDisp, calm>> /\ (settled' <=> settled)
      BY <1>6 DEF Line, LineEnd
    <3> QED
      BY <1>0, <1>6, <3>1, ScanShows
  <2>2. BankNow(b) => BankNow(b)'
    BY <1>1, <1>2, <2>1 DEF BankNow, CellRight, FreshNow
  <2>3. ASSUME BankBefore(b) PROVE BankBefore(b)'
    <3>1. vc + 1 < VActive /\ row + Fwd(D, b) < NumBanks
      BY <2>3 DEF BankBefore
    <3>2. row + 1 < SrcH /\ NextRow(row) = row + 1 /\ row \in Nat
      BY <1>0, <1>3, <3>1 DEF NextRow, Rows
    <3>3. r2 + Fwd(dispBank', b) < NumBanks
      BY <1>3, <1>4, <3>1, <3>2
    <3>4. vc + 2 # VActive
      <4>1. SUFFICES ASSUME vc + 2 = VActive PROVE FALSE
        OBVIOUS
      <4>2. Needed = SrcH - 1 /\ Shown = SrcH - 1
        <5>1. /\ vAcc \in 0 .. VActive - 1 /\ curSrcY \in Rows
              /\ vc < VActive => curSrcY * VActive + vAcc = vc * SrcH
          BY <1>0 DEF ScanRange
        <5> QED
          BY <1>0, <4>1, <5>1, NeededRow DEF Needed, Shown
      <4>3. CASE Needed = row
        BY <1>0, <3>2, <4>2, <4>3
      <4>4. CASE Needed = NextRow(row) /\ Fwd(D, b) \in Nat \ {0}
        BY <1>0, <3>1, <3>2, <4>2, <4>4
      <4> QED
        BY <1>4, <4>2, <4>3, <4>4
    <3>5. vc' + 1 < VActive
      BY <1>0, <2>1, <3>1, <3>4
    <3> QED
      BY <1>1, <1>2, <2>1, <2>3, <3>3, <3>5 DEF BankBefore, CellRight, FreshBefore, Fwd
  <2> QED
    BY <1>5, <2>2, <2>3
<1>7. CASE lastLine
  <2>1. Needed = 0 /\ vc' = 0
    BY <1>0, <1>7, ScanShows
  <2>2. r2 = 0
    BY <1>4, <1>7, <2>1
  <2>3. ~(vc + 1 < VActive)
    BY <1>0, <1>7 DEF lastLine
  <2>4. BankNow(b)
    BY <1>5, <2>3 DEF BankBefore
  <2>5. prevDisp' = readBufDisp
    BY <1>7 DEF Line
  <2>6. FreshBefore' => FreshNow
    <3>1. calm \in 0 .. 4 /\ (calm' = 0 \/ calm' = calm)
      <4>1. calm' = 0 \/ calm' = calm
        BY DEF Line
      <4> QED
        BY <4>1 DEF RotationInv, Rotation, Calm
    <3> QED
      BY <3>1 DEF FreshBefore, FreshNow
  <2>7. Fwd(dispBank', b) < NumBanks
    BY <1>0, <1>3, <1>4
  <2>8. vc' + 1 < VActive
    BY <1>0, <2>1
  <2>9. bankY'[dispBank'] + Fwd(dispBank', b) < NumBanks
    BY <1>0, <1>3, <1>4, <2>2, <2>7
  <2> QED
    BY <1>1, <1>2, <2>4, <2>5, <2>6, <2>8, <2>9 DEF BankNow, BankBefore, CellRight, Fwd
<1> QED
  BY <1>6, <1>7

LEMMA LineCache ==
  ASSUME RangeInv, RotationInv, CacheInv, Line PROVE CacheInv'
<1>1. RingInv'
  BY LineRing DEF RangeInv, CacheInv
<1> QED
  BY <1>1, LineFetch, LineBanks DEF CacheInv

LEMMA CacheStep ==
  ASSUME ArbiterInv, RotationInv, RangeInv, PictureInv, CacheInv, [Next]_vars PROVE CacheInv'
<1>0. RingRange /\ FetchRange /\ Handshake /\ Rotation
  BY DEF RangeInv, RotationInv
<1>1. CASE Line
  BY <1>1, LineCache
<1>2. CASE Ring
  BY <1>0, <1>2, PrefetchCache, FetchedCache DEF Ring
<1>3. CASE Reading
  <2>1. UNCHANGED <<settled, owed, behind, calm, prevDisp>>
    BY <1>3 DEF Reading
  <2>2. CASE StartFetch
    BY <1>0, <2>1, <2>2, StartFetchCache
  <2>3. CASE ReadServed
    BY <2>1, <2>3, CacheStill DEF ReadServed, FreshNow, FreshBefore
  <2>4. CASE ReadMore
    BY <2>1, <2>4, ReadMoreCache
  <2>5. CASE RowDone
    BY <1>0, <2>1, <2>5, RowDoneCache
  <2> QED
    BY <1>3, <2>2, <2>3, <2>4, <2>5 DEF Reading
<1>4. CASE ReadEnds
  BY <1>4, ReadDoneCache DEF ReadEnds
<1>5. CASE Ready
  BY <1>0, <1>5, ReadyCache
<1>6. CASE Reset
  BY <1>0, <1>6, ResetCache
<1>7. ASSUME UNCHANGED <<scan, dispBank, ring, ready, behind, reqEdge, ackEdge, fetch, fx, snap, cache>>,
             ~Line
      PROVE  CacheInv'
  BY <1>0, <1>7, FreshKept, CacheStill
<1>8. CASE ~Line
  <2>1. CASE FrameCaptured
    <3>1. UNCHANGED <<scan, dispBank, ring, ready, behind, reqEdge, ackEdge, fetch, fx, snap, cache>>
      BY <2>1 DEF FrameCaptured, VSync, fetching
    <3> QED
      BY <1>7, <1>8, <3>1
  <2>2. CASE Capture
    <3>1. UNCHANGED <<scan, dispBank, ring, ready, behind, reqEdge, ackEdge, fetch, fx, snap, cache>>
      BY <2>2 DEF Capture, Pixels, reader, fetching
    <3> QED
      BY <1>7, <1>8, <3>1
  <2>3. CASE Writing
    <3>1. UNCHANGED <<scan, dispBank, ring, ready, behind, reqEdge, ackEdge, fetch, fx, snap, cache>>
      BY <2>3 DEF Writing, Write, Sweep, HSync, PopFirst, PopNext, FlushPartial, WriteRequest, reader, fetching
    <3> QED
      BY <1>7, <1>8, <3>1
  <2>4. CASE WriteServed \/ WriteEnds \/ LoaderRequest \/ LoaderServed \/ LoaderDone
    <3>1. UNCHANGED <<scan, dispBank, ring, ready, behind, reqEdge, ackEdge, fetch, fx, snap, cache>>
      BY <2>4 DEF WriteServed, WriteEnds, WriteDone, LoaderRequest, LoaderServed, LoaderDone, reader, fetching
    <3> QED
      BY <1>7, <1>8, <3>1
  <2>5. CASE MenuOpens \/ MenuCloses \/ UNCHANGED vars
    <3>1. UNCHANGED <<scan, dispBank, ring, ready, behind, reqEdge, ackEdge, fetch, fx, snap, cache>>
      BY <2>5 DEF MenuOpens, Freeze, MenuCloses, vars, reader, fetching
    <3> QED
      BY <1>7, <1>8, <3>1
  <2> QED
    BY <1>1, <1>2, <1>3, <1>4, <1>5, <1>6, <2>1, <2>2, <2>3, <2>4, <2>5 DEF Next
<1> QED
  BY <1>1, <1>8

LEMMA CacheInvariant == Spec => []CacheInv
<1>1. Init => CacheInv
  <2> SUFFICES ASSUME Init PROVE CacheInv
    OBVIOUS
  <2>1. /\ bankOk = NoRows /\ ~fetchBusy /\ ~reqEdge /\ ~ackEdge /\ fetch = "idle" /\ ~ready
    BY DEF Init, ReaderInit, WriterInit
  <2> QED
    BY <2>1 DEF CacheInv, RingInv, Stopped, FetchInv, Got, BanksRight, Running
<1>2. ArbiterInv /\ RotationInv /\ RangeInv /\ PictureInv /\ CacheInv /\ [Next]_vars => CacheInv'
  BY CacheStep
<1> QED
  BY <1>1, <1>2, ArbiterInvariant, RotationInvariant, RangeInvariant, PictureInvariant, PTL DEF Spec

LEMMA Quotient ==
  ASSUME NEW m \in Nat, NEW n \in Nat \ {0}, NEW k \in Nat, NEW a \in Nat, a < n, k * n + a = m
  PROVE  m \div n = k
<1>1. m \div n \in Int /\ n * (m \div n) <= m /\ m < n * (m \div n) + n
  OBVIOUS
<1> DEFINE d == m \div n
<1>2. d \in Int /\ n * d <= k * n + a /\ k * n + a < n * d + n
  BY <1>1
<1> HIDE DEF d
<1>3. d <= k
  <2>1. SUFFICES ASSUME d >= k + 1 PROVE FALSE
    BY <1>2
  <2>2. n * d >= n * (k + 1)
    BY <1>2, <2>1
  <2>3. n * (k + 1) = k * n + n
    OBVIOUS
  <2> QED
    BY <1>2, <2>2, <2>3
<1>4. k <= d
  <2>1. SUFFICES ASSUME k >= d + 1 PROVE FALSE
    BY <1>2
  <2>2. n * k >= n * (d + 1)
    BY <1>2, <2>1
  <2>3. n * (d + 1) = n * d + n
    BY <1>2
  <2> QED
    BY <1>2, <2>2, <2>3
<1> QED
  BY <1>2, <1>3, <1>4 DEF d

\* A line that is not counted as late shows its row, whatever the geometry, the depth of the queue,
\* the length of a batch and the number of cached rows: every quad of it was captured for the row
\* the scaling asks for, in one capture, and read from the buffer latched at the frame boundary, or,
\* in the first rows, from the one before (VideoFbRead2.scala:215).
THEOREM PictureIsRight == Spec => []ShownRowIsRight
<1>1. ASSUME RangeInv, CacheInv PROVE ShownRowIsRight
  <2> SUFFICES ASSUME Tagged, calm = Calm PROVE ShownRowIsRight
    BY DEF ShownRowIsRight
  <2> DEFINE D   == dispBank
             row == (vc * SrcH) \div VActive
  <2>0. /\ D \in Banks /\ vc < VActive /\ bankOk[D] /\ bankY[D] = curSrcY /\ curSrcY \in Rows
        /\ FreshNow /\ FreshBefore
    BY <1>1 DEF RangeInv, RingRange, ScanRange, Tagged, FreshNow, FreshBefore, Calm
  <2>1. row = curSrcY
    <3>1. /\ vc \in Nat /\ SrcH \in Nat /\ VActive \in Nat \ {0} /\ vAcc \in Nat /\ vAcc < VActive
          /\ curSrcY \in Nat /\ curSrcY * VActive + vAcc = vc * SrcH
      BY <1>1, <2>0, WriterAssumption, ReaderAssumption DEF RangeInv, ScanRange, Rows
    <3>2. vc * SrcH \in Nat
      BY <3>1
    <3> QED
      BY <3>1, <3>2, Quotient
  <2> HIDE DEF row
  <2>2. Running
    <3>1. bankOk # NoRows
      BY <2>0 DEF NoRows
    <3> QED
      BY <1>1, <3>1 DEF CacheInv, RingInv, Stopped, Restarting
  <2>3. Fwd(D, D) = 0 /\ Fwd(D, D) < Come(D)
    BY <2>0, <2>2, BankFacts DEF Running, Window
  <2>4. BankNow(D) \/ BankBefore(D)
    BY <1>1, <2>0, <2>2, <2>3 DEF CacheInv, BanksRight
  <2>5. CASE BankNow(D)
    <3>1. \A q \in Quads : LET c == cache[D][q] IN c.buf = readBufDisp /\ c.row = row /\ GoodTag(q, row, c.tag)
      BY <2>0, <2>1, <2>5 DEF BankNow, CellRight
    <3> QED
      BY <3>1 DEF ShownRowIsRight, GoodTag, row
  <2>6. CASE BankBefore(D)
    <3>1. \A q \in Quads : LET c == cache[D][q] IN c.buf = prevDisp /\ c.row = row /\ GoodTag(q, row, c.tag)
      BY <2>0, <2>1, <2>6 DEF BankBefore, CellRight
    <3>2. row < NumBanks
      <4>1. curSrcY + 0 < NumBanks /\ curSrcY \in Nat
        BY <2>0, <2>3, <2>6 DEF BankBefore, Rows
      <4> QED
        BY <2>1, <4>1
    <3> QED
      BY <3>1, <3>2 DEF ShownRowIsRight, GoodTag, row
  <2> QED
    BY <2>4, <2>5, <2>6
<1> QED
  BY <1>1, RangeInvariant, CacheInvariant, PTL
=============================================================================
