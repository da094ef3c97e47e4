------------------------------ MODULE SpiLoader ------------------------------
(***************************************************************************)
(* Loading the Atari's memory: main.c (stream_file, boot_run, the console's *)
(* L, x, v and y commands) sends frames over SPI, RpAtariKeyboard.scala     *)
(* counts and queues the bytes and drains the queue, a request at a time,   *)
(* into the ROM or RAM blocks of the core or into SDRAM.                    *)
(*                                                                          *)
(* The link is taken to be free of errors, so the checksum of a load, the   *)
(* sum of the bytes it counted, agrees whenever their count does; a byte is *)
(* its offset in its file.                                                  *)
(***************************************************************************)
EXTENDS Naturals, Sequences

CONSTANTS
  QueueDepth,   \* entries of wq (256)
  Quad,         \* fpga_load sends whole quads (4)
  BootFiles,    \* the OS blocks, then the cartridge: [dest, len] of each
  SdramLen,     \* length of a file the L command loads
  SweepLens,    \* lengths of a verify sweep
  MaxAttempts,  \* attempts of stream_file (3)
  MaxResets,    \* bound: presses of the reset button
  MaxReads,     \* bound: R and V frames
  MaxErrors     \* bound: failed reads of the card

Blocks == {"rom", "ram"}
Dests  == Blocks \cup {"sdram"}

ASSUME LoaderAssumption ==
  /\ QueueDepth \in Nat \ {0} /\ Quad \in Nat \ {0}
  /\ BootFiles \in Seq([dest : Blocks, len : Nat]) /\ BootFiles # <<>>
  /\ SdramLen \in Nat
  /\ SweepLens \subseteq Nat \ {0}
  /\ MaxAttempts \in Nat \ {0}
  /\ MaxResets \in Nat /\ MaxReads \in Nat /\ MaxErrors \in Nat

VARIABLES
  \* RpAtariKeyboard
  held,       \* held in the machine's reset, and with it the SPI slave
  halt,       \* ctrlBits(4): the 6502 is stopped, the load port is enabled
  dest,       \* ldDestReg
  wq,         \* the queue: the address of each entry
  wqOvf,      \* a push was lost
  ldCnt,      \* bytes counted (and summed) since the last Z
  drainCnt,   \* queue entries written since the last Z
  flight,     \* the request in flight; "lost" when nobody will complete it
  servingWq,  \* the last request was for the queue
  ldIsRead,   \* an R or V frame came since the last reset
  wrValid,    \* a read-back is wanted
  vLen,       \* bytes the verify sweep has left; vBusy while there are any
  \* main.c
  pc, work, file, attempt,
  sent,       \* lcnt: bytes sent in this attempt
  \* history
  written,    \* <<destination, address>> written since this file was begun
  stray,      \* reset took the destination back before the first byte of this attempt
  resets, reads, errors

queue == <<wq, wqOvf, ldCnt, drainCnt>>
drain == <<flight, servingWq, ldIsRead, wrValid, vLen>>
fpga  == <<held, halt, dest, queue, drain>>
job   == <<work, file, attempt>>
count == <<stray, resets, reads, errors>>
vars  == <<fpga, pc, job, sent, written, count>>

Job == IF work = "boot" THEN BootFiles ELSE <<[dest |-> "sdram", len |-> SdramLen]>>
File == Job[file]

\* fpga_load cuts the last chunk of a file to a multiple of four.
Whole(n) == n - (n % Quad)

-----------------------------------------------------------------------------
(* The drain of the loader. *)

Wanted == wq # <<>> \/ wrValid \/ vLen > 0

\* SDRAM remembers a request.  The blocks of the core take it in the cycle it
\* is made or never: the load port must be enabled, and ldWrite still shows
\* what the request before it was for.
Accepted == dest = "sdram" \/ (halt /\ (servingWq \/ ~ldIsRead))

\* A request goes out: for the queue if it holds anything, else for a read.
DrainStart ==
  /\ ~held
  /\ flight = "none" /\ Wanted
  /\ flight' = IF ~Accepted THEN "lost" ELSE IF wq # <<>> THEN "write" ELSE "read"
  /\ servingWq' = (wq # <<>>)
  /\ UNCHANGED <<held, halt, dest, queue, ldIsRead, wrValid, vLen, pc, job, sent, written, count>>

DrainWrite ==
  /\ flight = "write"
  /\ flight' = "none"
  /\ wq' = Tail(wq)
  /\ drainCnt' = drainCnt + 1
  /\ written' = written \cup {<<dest, Head(wq)>>}
  /\ UNCHANGED <<held, halt, dest, wqOvf, ldCnt, servingWq, ldIsRead, wrValid, vLen, pc, job, sent, count>>

DrainRead ==
  /\ flight = "read"
  /\ flight' = "none"
  /\ wrValid' = FALSE
  /\ vLen' = IF vLen > 0 THEN vLen - 1 ELSE 0
  /\ UNCHANGED <<held, halt, dest, queue, servingWq, ldIsRead, pc, job, sent, written, count>>

\* The drain has nothing it can do.
Settled == flight = "lost" \/ (flight = "none" /\ ~Wanted)

\* A request to a block of the core takes four clock cycles, a byte on the SPI
\* link some 460: the drain is done before the next byte.  SDRAM may be slow.
BlockKeepsUp == dest = "sdram" \/ Settled

-----------------------------------------------------------------------------
(* The reset of the machine takes the SPI slave with it, not the memories.  *)

ClearFpga ==
  /\ halt' = FALSE /\ dest' = "sdram"
  /\ wq' = <<>> /\ wqOvf' = FALSE /\ ldCnt' = 0 /\ drainCnt' = 0
  /\ flight' = "none" /\ servingWq' = FALSE /\ ldIsRead' = FALSE
  /\ wrValid' = FALSE /\ vLen' = 0

\* The destination is selected, no byte has been sent to it.
Aimed == pc = "zero" \/ (pc = "stream" /\ sent = 0)

Button ==
  /\ ~held /\ resets < MaxResets
  /\ resets' = resets + 1
  /\ stray' = (stray \/ Aimed)
  /\ held' = TRUE
  /\ ClearFpga
  /\ UNCHANGED <<pc, job, sent, written, reads, errors>>

Release ==
  /\ held
  /\ held' = FALSE
  /\ UNCHANGED <<halt, dest, queue, drain, pc, job, sent, written, count>>

-----------------------------------------------------------------------------
(* Frames.  A slave that is held in reset ignores them. *)

\* 'C', the halt bit of it.
Control(h) == halt' = (h /\ ~held)

\* 'B'
Select(d) == dest' = IF held THEN dest ELSE d

\* (mutant) the push does not look at the room there is
PushUnbounded(byte) ==
  IF held THEN UNCHANGED queue
  ELSE ldCnt' = ldCnt + 1 /\ wq' = Append(wq, byte) /\ UNCHANGED <<wqOvf, drainCnt>>

\* A byte of a 'W' frame: counted in any case, queued if there is room.
Push(byte) ==
  IF held THEN UNCHANGED queue
  ELSE /\ ldCnt' = ldCnt + 1
       /\ wq' = IF Len(wq) < QueueDepth THEN Append(wq, byte) ELSE wq
       /\ wqOvf' = (wqOvf \/ Len(wq) >= QueueDepth)
       /\ UNCHANGED drainCnt

-----------------------------------------------------------------------------
(* stream_file and boot_run.  Opening a file, and reading the card between  *)
(* two loads, takes long enough for the queue to drain.  A byte stands for a *)
(* chunk of the file as well: the card may fail after any.                  *)

Begin(w, next) ==
  /\ pc = "idle" /\ Settled
  /\ work' = w /\ file' = 1 /\ attempt' = 1
  /\ written' = {}
  /\ pc' = next
  /\ UNCHANGED <<held, dest, queue, drain, sent, count>>

\* (mutant) the 6502 is not halted
BootBeginRunning == Begin("boot", "open") /\ UNCHANGED halt

\* boot_run halts the 6502 first.
BootBegin == Begin("boot", "open") /\ Control(TRUE)

\* The L command loads to the destination selected: SDRAM, outside a boot.
LoadBegin == Begin("load", "zero") /\ UNCHANGED halt

\* A failed OS block fails the boot; without its cartridge it goes on.
StreamFailed == pc' = IF File.dest = "rom" THEN "failed" ELSE "finish"

Open ==
  /\ pc = "open" /\ Settled
  /\ pc' = "dest" \/ StreamFailed
  /\ UNCHANGED <<fpga, job, sent, written, count>>

SetDest ==
  /\ pc = "dest"
  /\ Select(File.dest)
  /\ stray' = held
  /\ pc' = "zero"
  /\ UNCHANGED <<held, halt, queue, drain, job, sent, written, resets, reads, errors>>

\* (mutant) drainCnt goes on
ZeroKeepsDrainCnt ==
  /\ pc = "zero"
  /\ ldCnt' = 0
  /\ sent' = 0
  /\ pc' = "stream"
  /\ UNCHANGED <<held, halt, dest, wq, wqOvf, drainCnt, drain, job, written, count>>

\* 'Z' zeroes the counters, not the queue and not wqOvf.
Zero ==
  /\ pc = "zero"
  /\ ldCnt' = 0 /\ drainCnt' = 0
  /\ sent' = 0
  /\ pc' = "stream"
  /\ UNCHANGED <<held, halt, dest, wq, wqOvf, drain, job, written, count>>

SendByte ==
  /\ pc = "stream" /\ BlockKeepsUp
  /\ sent < Whole(File.len)
  /\ sent' = sent + 1
  /\ Push(sent)
  /\ UNCHANGED <<held, halt, dest, drain, pc, job, written, count>>

\* f_read's error ends the loop as the end of the file does.
EndOfFile ==
  /\ pc = "stream"
  /\ \/ sent = Whole(File.len) /\ UNCHANGED errors
     \/ errors < MaxErrors /\ errors' = errors + 1
  /\ pc' = "status"
  /\ UNCHANGED <<fpga, job, sent, written, stray, resets, reads>>

\* The status frame: a held slave sends zeros, and its count is zero.
Match ==
  /\ pc = "status" /\ BlockKeepsUp
  /\ sent = ldCnt
  /\ pc' = "ok"
  /\ UNCHANGED <<fpga, job, sent, written, count>>

\* The L command only reports a mismatch; stream_file tries again.
Mismatch ==
  /\ pc = "status" /\ BlockKeepsUp
  /\ sent # ldCnt
  /\ \/ work = "load" /\ pc' = "idle" /\ UNCHANGED attempt
     \/ work = "boot" /\ attempt < MaxAttempts /\ pc' = "open" /\ attempt' = attempt + 1
     \/ work = "boot" /\ attempt = MaxAttempts /\ StreamFailed /\ UNCHANGED attempt
  /\ UNCHANGED <<fpga, work, file, sent, written, count>>

NextFile ==
  /\ pc = "ok" /\ file < Len(Job)
  /\ file' = file + 1 /\ attempt' = 1
  /\ written' = {}
  /\ pc' = "open"
  /\ UNCHANGED <<fpga, work, sent, count>>

LastFile ==
  /\ pc = "ok" /\ file = Len(Job)
  /\ pc' = IF work = "boot" THEN "finish" ELSE "idle"
  /\ UNCHANGED <<fpga, job, sent, written, count>>

\* SDRAM selected again, the disks mounted, the reset bit set: that reset is
\* over before another command has read the card.
Finish ==
  /\ pc = "finish"
  /\ ClearFpga
  /\ pc' = "idle"
  /\ UNCHANGED <<held, job, sent, written, count>>

\* Not everything was loaded: no reset, the 6502 is let go as it is.
GiveUp ==
  /\ pc = "failed"
  /\ Select("sdram")
  /\ Control(FALSE)
  /\ pc' = "idle"
  /\ UNCHANGED <<held, queue, drain, job, sent, written, count>>

-----------------------------------------------------------------------------
(* The console's read commands. *)

ReadFrame ==
  /\ ~held /\ reads < MaxReads
  /\ reads' = reads + 1
  /\ ldIsRead' = TRUE
  /\ UNCHANGED <<held, dest, queue, flight, servingWq, job, sent, written, stray, resets, errors>>

\* x: an 'R' frame.
ReadBack ==
  /\ pc = "idle"
  /\ ReadFrame
  /\ wrValid' = TRUE
  /\ UNCHANGED <<halt, vLen, pc>>

\* y: 'V' frames of a byte, each given a fixed time.
Peek ==
  /\ pc = "idle"
  /\ ReadFrame
  /\ vLen' = 1
  /\ UNCHANGED <<halt, wrValid, pc>>

\* v: the 6502 halted, then 'V' frames, for sweeps and for single bytes.
Verify ==
  /\ pc \in {"idle", "verify"}
  /\ ReadFrame
  /\ Control(TRUE)
  /\ vLen' \in SweepLens
  /\ pc' = "verify"
  /\ UNCHANGED wrValid

\* The sweeps are over, or not waited for any longer: the 6502 goes on.
VerifyEnd ==
  /\ pc = "verify"
  /\ Control(FALSE)
  /\ pc' = "idle"
  /\ UNCHANGED <<held, dest, queue, drain, job, sent, written, count>>

-----------------------------------------------------------------------------
Init ==
  /\ held = FALSE /\ halt = FALSE /\ dest = "sdram"
  /\ wq = <<>> /\ wqOvf = FALSE /\ ldCnt = 0 /\ drainCnt = 0
  /\ flight = "none" /\ servingWq = FALSE /\ ldIsRead = FALSE
  /\ wrValid = FALSE /\ vLen = 0
  /\ pc = "idle" /\ work = "boot" /\ file = 1 /\ attempt = 1 /\ sent = 0
  /\ written = {} /\ stray = FALSE /\ resets = 0 /\ reads = 0 /\ errors = 0

Loader  == DrainStart \/ DrainWrite \/ DrainRead
Stream  == Open \/ SetDest \/ Zero \/ SendByte \/ EndOfFile \/ Match \/ Mismatch
Boot    == BootBegin \/ NextFile \/ LastFile \/ Finish \/ GiveUp
Console == LoadBegin \/ ReadBack \/ Peek \/ Verify \/ VerifyEnd

Next == Loader \/ Stream \/ Boot \/ Console \/ Button \/ Release

Spec == Init /\ [][Next]_vars

-----------------------------------------------------------------------------
TypeOK ==
  /\ held \in BOOLEAN /\ halt \in BOOLEAN /\ dest \in Dests
  /\ wq \in Seq(Nat) /\ wqOvf \in BOOLEAN /\ ldCnt \in Nat /\ drainCnt \in Nat
  /\ Len(wq) <= QueueDepth
  /\ flight \in {"none", "write", "read", "lost"}
  /\ servingWq \in BOOLEAN /\ ldIsRead \in BOOLEAN
  /\ wrValid \in BOOLEAN /\ vLen \in Nat
  /\ pc \in {"idle", "open", "dest", "zero", "stream", "status", "ok",
             "finish", "failed", "verify"}
  /\ work \in {"boot", "load"} /\ file \in 1..Len(Job) /\ attempt \in 1..MaxAttempts
  /\ sent \in Nat /\ written \subseteq Dests \X Nat /\ stray \in BOOLEAN
  /\ resets \in Nat /\ reads \in Nat /\ errors \in Nat

LoadsFile == \A a \in 0..(Whole(File.len) - 1) : <<File.dest, a>> \in written

\* What the firmware could tell from the counters of the status frame: a load that
\* sent the whole file and matched, with as many entries drained as bytes counted, has
\* every byte of the file in the memory the file is for, whatever lost pushes, console
\* reads, presses of reset, card errors and failed attempts came before or in between.
\* Two things the counters do not tell, and the property leaves out: that the card cut
\* the file short (its length must be known from elsewhere), and that reset, pressed or
\* held between the B frame and the first byte, has turned the destination back to
\* SDRAM (stray): the whole file then lies there, counted, drained and matched.
CleanLoadIsWritten ==
  (/\ pc = "ok" /\ sent = ldCnt /\ drainCnt = ldCnt
   /\ sent = Whole(File.len)
   /\ work = "load" \/ ~stray) => LoadsFile

\* As long as nobody presses reset or uses the console's read commands and the
\* card can be read, a file boot_run streams with "ok" is in its memory, though
\* the checksum counts bytes that the queue or the load port may have dropped.
QuietBootLoadsFiles ==
  pc = "ok" /\ work = "boot" /\ resets = 0 /\ reads = 0 /\ errors = 0 => LoadsFile

\* A file that boot_run streams with "ok" is in its memory: what the comments
\* of stream_file and boot_run say of it.
BootLoadsFiles == pc = "ok" /\ work = "boot" => LoadsFile
=============================================================================
