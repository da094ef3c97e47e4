----------------------------- MODULE VideoFbRead2 -----------------------------
(***************************************************************************)
(* VideoFbRead2.scala: shows a buffer at 720p. The pixel side decides which *)
(* row each output line needs, keeps a ring of cached rows tagged with      *)
(* their row number, and asks for rows one at a time; the fetch side, in    *)
(* another clock domain, reads a row from SDRAM in wide accesses. Requests  *)
(* and acknowledgements cross as toggles: an edge not seen yet is a flag.   *)
(*                                                                          *)
(* A step of the pixel side is a whole output line or one ring operation,   *)
(* the horizontal scaling within a line is left out.                        *)
(***************************************************************************)
EXTENDS VideoFbWrite

CONSTANTS
  VActive,   \* output lines shown (720)
  VTotal,    \* output lines of a frame (750)
  NumBanks   \* rows in the cache (4)

\* The ring is shorter than the picture, and every row spans two lines at least.
ASSUME ReaderAssumption ==
  /\ NumBanks \in Nat \ {0, 1} /\ NumBanks < SrcH
  /\ VActive \in Nat /\ VTotal \in Nat
  /\ VActive >= 2 * SrcH /\ VTotal > VActive

Banks == 0 .. NumBanks - 1

VARIABLES
  \* pixel domain
  vc, vAcc, curSrcY, dispBank, bankY, bankOk, fY, wrB, fetchBusy,
  want,         \* wantSrcY, wantBank
  readBufDisp,
  \* crossing
  reqEdge,      \* reqSync =/= reqPrev, or pend
  ackEdge,      \* ackSync =/= ackPrev
  \* fetch domain
  fetch,        \* "idle", "read" (rdReqR, inFl) or "unload"
  fx,           \* the quad the next access begins at
  snap,         \* ySnap, bSnap
  readFrom,     \* the buffer in the address the controller was given
  cache,        \* per bank and quad: the cell it came from and what it held
  crossing      \* readyBuf changed less than two pixel clocks ago

scan     == <<vc, vAcc, curSrcY>>
ring     == <<bankY, bankOk, fY, wrB, fetchBusy, want>>
fetching == <<fetch, fx, snap, readFrom, cache>>
reader   == <<scan, dispBank, ring, readBufDisp, reqEdge, ackEdge, fetching, crossing>>

ReaderType ==
  /\ vc \in 0 .. VTotal - 1 /\ vAcc \in 0 .. VActive - 1 /\ curSrcY \in Rows
  /\ dispBank \in Banks /\ bankY \in [Banks -> Rows] /\ bankOk \in [Banks -> BOOLEAN]
  /\ fY \in Rows /\ wrB \in Banks /\ fetchBusy \in BOOLEAN
  /\ want \in [row : Rows, bank : Banks] /\ snap \in [row : Rows, bank : Banks]
  /\ readBufDisp \in 0 .. 3 /\ readFrom \in 0 .. 3
  /\ reqEdge \in BOOLEAN /\ ackEdge \in BOOLEAN /\ crossing \in BOOLEAN
  /\ fetch \in {"idle", "read", "unload"} /\ fx \in Quads
  /\ cache \in [Banks -> [Quads -> [buf : 0 .. 3, row : Rows, tag : Tags]]]

NoRows   == [b \in Banks |-> FALSE]
NoTag    == [b \in Banks |-> 0]
Row0     == [row |-> 0, bank |-> 0]
Unfilled == [b \in Banks |-> [q \in Quads |-> [buf |-> 0, row |-> 0, tag |-> "bad"]]]

ReaderInit ==
  /\ vc = 0 /\ vAcc = 0 /\ curSrcY = 0
  /\ dispBank = 0 /\ bankY = NoTag /\ bankOk = NoRows
  /\ fY = 0 /\ wrB = 0 /\ fetchBusy = FALSE
  /\ want = Row0 /\ snap = Row0
  /\ readBufDisp = 0 /\ readFrom = 0
  /\ reqEdge = FALSE /\ ackEdge = FALSE /\ crossing = FALSE
  /\ fetch = "idle" /\ fx = 0
  /\ cache = Unfilled

\* enable has been low for longer than the synchronisers take: both sides
\* forget the request and the tags, and with them what the cache and the
\* other registers of the ring hold.
ReaderAbort ==
  /\ bankOk' = NoRows /\ fetchBusy' = FALSE
  /\ reqEdge' = FALSE /\ ackEdge' = FALSE /\ fetch' = "idle"
  /\ bankY' = NoTag /\ fY' = 0 /\ wrB' = 0 /\ want' = Row0 /\ snap' = Row0
  /\ fx' = 0 /\ readFrom' = 0 /\ cache' = Unfilled
  /\ UNCHANGED <<scan, dispBank, readBufDisp, crossing>>

(***************************************************************************)
(* Pixel side                                                               *)
(***************************************************************************)
lastLine == vc = VTotal - 1
StepsRow == vAcc + SrcH >= VActive
NextRow(r)  == IF r = SrcH - 1 THEN 0 ELSE r + 1
NextBank(b) == (b + 1) % NumBanks

\* nextSrcY of a line: the row of the line after it.
NextSrcY(v, acc, row) ==
  IF v + 1 < VActive THEN IF acc + SrcH >= VActive THEN row + 1 ELSE row ELSE 0

Holds(ok, rows, bank, row) == ok[bank] /\ rows[bank] = row
dispHasWant == Holds(bankOk, bankY, dispBank, NextSrcY(vc, vAcc, curSrcY))
nxtHasWant  == Holds(bankOk, bankY, NextBank(dispBank), NextSrcY(vc, vAcc, curSrcY))

ringFull == wrB = dispBank /\ bankOk[wrB]

\* The next row in display order, as soon as the previous one came.
Prefetch ==
  /\ ready /\ ~fetchBusy /\ ~ringFull
  /\ dispHasWant \/ nxtHasWant
  /\ want' = [row |-> fY, bank |-> wrB]
  /\ reqEdge' = TRUE /\ fetchBusy' = TRUE
  /\ fY' = NextRow(fY) /\ wrB' = NextBank(wrB)
  /\ UNCHANGED <<scan, dispBank, bankY, bankOk, readBufDisp, ackEdge, fetching, crossing,
                 writer, mem, ready, menu, arbiter>>

Fetched ==
  /\ ackEdge
  /\ ackEdge' = FALSE /\ fetchBusy' = FALSE
  /\ bankY' = [bankY EXCEPT ![want.bank] = want.row]
  /\ bankOk' = [bankOk EXCEPT ![want.bank] = ready]
  /\ UNCHANGED <<scan, dispBank, fY, wrB, want, readBufDisp, reqEdge, fetching, crossing,
                 writer, mem, ready, menu, arbiter>>

\* The rows' DDA at the end of a line.
Scan ==
  /\ vc' = IF lastLine THEN 0 ELSE vc + 1
  /\ IF lastLine THEN vAcc' = 0 /\ curSrcY' = 0
     ELSE IF vc + 1 < VActive
     THEN /\ vAcc' = (vAcc + SrcH) % VActive
          /\ curSrcY' = IF StepsRow THEN curSrcY + 1 ELSE curSrcY
     ELSE UNCHANGED <<vAcc, curSrcY>>

\* At the start of the new line: no bank holds what the next line needs, so
\* the ring starts again with that row, fetched into the bank on show.
Restart ==
  LET row == NextSrcY(vc', vAcc', curSrcY')
      needed == /\ ready /\ ~fetchBusy
                /\ ~Holds(bankOk, bankY, dispBank', row)
                /\ ~Holds(bankOk, bankY, NextBank(dispBank'), row)
  IN IF needed
     THEN /\ bankOk' = NoRows
          /\ want' = [row |-> row, bank |-> dispBank']
          /\ reqEdge' = TRUE /\ fetchBusy' = TRUE
          /\ fY' = NextRow(row) /\ wrB' = NextBank(dispBank')
          /\ UNCHANGED bankY
     ELSE UNCHANGED <<ring, reqEdge>>

\* Two bits are synchronised one by one: each may be the old or the new one.
Bits(n) == <<n % 2, n \div 2>>
Mixed(old, new) == {n \in 0 .. 3 : \A i \in 1 .. 2 : Bits(n)[i] \in {Bits(old)[i], Bits(new)[i]}}
PrevBuf(b) == (b + 2) % 3
Sampled == IF crossing THEN Mixed(PrevBuf(readyBuf), readyBuf) ELSE {readyBuf}

LineEnd ==
  /\ Scan
  /\ dispBank' = IF nxtHasWant /\ ~dispHasWant THEN NextBank(dispBank) ELSE dispBank
  /\ Restart
  /\ IF lastLine THEN readBufDisp' \in Sampled ELSE UNCHANGED readBufDisp
  /\ crossing' = FALSE
  /\ UNCHANGED <<ackEdge, fetching, writer, mem, ready, menu, arbiter>>

(***************************************************************************)
(* Fetch side                                                               *)
(***************************************************************************)
\* A request is seen and, once the bus beside it has settled, taken.
StartFetch ==
  /\ ready /\ reqEdge /\ fetch = "idle"
  /\ reqEdge' = FALSE
  /\ fetch' = "read" /\ fx' = 0 /\ snap' = want
  /\ Request("c")
  /\ UNCHANGED <<scan, dispBank, ring, readBufDisp, ackEdge, readFrom, cache, crossing,
                 writer, mem, ready, menu>>

\* The address is formed from the buffer on show when the access is served.
ReadServed ==
  /\ Serve("c")
  /\ readFrom' = readBufDisp
  /\ UNCHANGED <<scan, dispBank, ring, readBufDisp, reqEdge, ackEdge, fetch, fx, snap, cache,
                 crossing, writer, mem, ready, menu>>

\* Buffer 3 lies above the three that are written; what is read of a buffer
\* while it is written, or the sweep runs, is not told apart.
Read(buf, row, q) ==
  [buf |-> buf, row |-> row,
   tag |-> IF buf \in Buffers \ {writeBuf} /\ ~clearing
           THEN mem[buf][row][q] ELSE "bad"]

ReadDone ==
  /\ Complete("c")
  /\ fetch' = "unload"
  /\ cache' = [cache EXCEPT ![snap.bank] =
                 [q \in Quads |-> IF q \in fx .. fx + BatchLen - 1
                                  THEN Read(readFrom, snap.row, q) ELSE @[q]]]
  /\ UNCHANGED <<scan, dispBank, ring, readBufDisp, reqEdge, ackEdge, fx, snap, readFrom,
                 crossing, writer, mem, ready, menu>>

ReadMore ==
  /\ fetch = "unload" /\ fx + BatchLen < RowQuads
  /\ fetch' = "read" /\ fx' = fx + BatchLen
  /\ Request("c")
  /\ UNCHANGED <<scan, dispBank, ring, readBufDisp, reqEdge, ackEdge, snap, readFrom, cache,
                 crossing, writer, mem, ready, menu>>

RowDone ==
  /\ fetch = "unload" /\ fx + BatchLen >= RowQuads
  /\ fetch' = "idle" /\ ackEdge' = TRUE
  /\ UNCHANGED <<scan, dispBank, ring, readBufDisp, reqEdge, fx, snap, readFrom, cache,
                 crossing, writer, mem, ready, menu, arbiter>>
=============================================================================
