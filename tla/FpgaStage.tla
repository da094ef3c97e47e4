----------------------------- MODULE FpgaStage -----------------------------
(***************************************************************************)
(* The region of the RP2040's flash in which fpga_config.c keeps a copy of *)
(* the FPGA image of the card: a header sector, then the bytes.  A flash   *)
(* is [hdr, data]: what the header page holds, and the bytes behind it.    *)
(* Erased bytes are 255; programming can only clear bits.  The power can   *)
(* fail in an erase or a program: Torn... gives what may be left.          *)
(***************************************************************************)
EXTENDS Integers, Sequences

CONSTANTS
  FlashSector,    \* FLASH_SECTOR_SIZE, also the header's share (4096 in the code)
  StageMax        \* STAGE_MAX_RBF: room behind the header

ASSUME StageAssumption == FlashSector \in Nat \ {0} /\ StageMax \in Nat

NoHeader == [magic |-> FALSE, len |-> 0, sum |-> 0, mtime |-> 0]
ErasedFlash == [hdr |-> NoHeader, data |-> [i \in 1..StageMax |-> 255]]

Sum(bytes) ==
  LET upto[i \in 0..Len(bytes)] == IF i = 0 THEN 0 ELSE upto[i - 1] + bytes[i]
  IN  upto[Len(bytes)]

ByteAnd(a, b) ==
  LET bit(i) == IF (a \div 2^i) % 2 = 1 /\ (b \div 2^i) % 2 = 1 THEN 2^i ELSE 0
  IN  bit(0) + bit(1) + bit(2) + bit(3) + bit(4) + bit(5) + bit(6) + bit(7)

\* How many of the bytes behind the header the erase for a file of this length covers.
\* (mutant) rounded down instead of up.
EraseLenDown(len) == (len \div FlashSector) * FlashSector
EraseLen(len) == ((len + FlashSector - 1) \div FlashSector) * FlashSector

Erase(flash, len) ==
  [hdr |-> NoHeader,
   data |-> [i \in 1..StageMax |-> IF i <= EraseLen(len) THEN 255 ELSE flash.data[i]]]

\* One call erases large blocks, so any of its sectors, the header's too, may still
\* be there when the power fails in it.
TornErase(flash, len) ==
  {[hdr |-> IF keepHdr THEN flash.hdr ELSE NoHeader,
    data |-> [i \in 1..StageMax |->
                IF i <= EraseLen(len) /\ ((i - 1) \div FlashSector) \notin kept
                THEN 255 ELSE flash.data[i]]] :
   keepHdr \in BOOLEAN, kept \in SUBSET (0..((StageMax - 1) \div FlashSector))}

Program(flash, from, bytes) ==
  [flash EXCEPT !.data = [i \in 1..StageMax |->
     IF i \in (from + 1)..(from + Len(bytes)) THEN ByteAnd(@[i], bytes[i - from]) ELSE @[i]]]

TornProgram(flash, from, bytes) ==
  {Program(flash, from, SubSeq(bytes, 1, n)) : n \in 0..Len(bytes)}

\* (mutant) the header without the time of the file.
ProgramHeaderUntimed(flash, len, sum, mtime) ==
  [flash EXCEPT !.hdr = [magic |-> TRUE, len |-> len, sum |-> sum, mtime |-> 0]]
ProgramHeader(flash, len, sum, mtime) ==
  [flash EXCEPT !.hdr = [magic |-> TRUE, len |-> len, sum |-> sum, mtime |-> mtime]]

\* (mutant) magic and length are enough.
fpga_staged_lenUnsummed(flash) ==
  IF flash.hdr.magic /\ flash.hdr.len \in 1..StageMax THEN flash.hdr.len ELSE 0

\* The length of the image the region holds, 0 if it holds none that its header fits.
fpga_staged_len(flash) ==
  IF flash.hdr.magic /\ flash.hdr.len \in 1..StageMax
     /\ Sum(SubSeq(flash.data, 1, flash.hdr.len)) = flash.hdr.sum
  THEN flash.hdr.len ELSE 0

Staged(flash) == SubSeq(flash.data, 1, fpga_staged_len(flash))

\* (mutant) the time of the file is not looked at.
UnchangedSized(flash, len, mtime) == fpga_staged_len(flash) = len
Unchanged(flash, len, mtime) ==
  /\ flash.hdr.magic /\ flash.hdr.len = len /\ flash.hdr.mtime = mtime
  /\ fpga_staged_len(flash) = len

=============================================================================
