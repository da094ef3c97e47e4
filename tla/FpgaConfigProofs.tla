-------------------------- MODULE FpgaConfigProofs --------------------------
(***************************************************************************)
(* Proofs about FpgaConfig: its types, the order of what is read back, the *)
(* first IDCODE, that the staged file is whole and the newest, that the    *)
(* region is never erased without need, and that configuring leaves the    *)
(* FPGA running the image it was given.                                    *)
(*                                                                         *)
(* From the bottom, over BlasterProofs: that the strings are bytes, the    *)
(* staging region (Flashes), the packets (Taking), ConfigInv (the          *)
(* inductive invariant of the whole), and the strings again: they bring    *)
(* the TAP from anywhere to running the image (CycloneLeads, ArtixLeads).  *)
(***************************************************************************)
EXTENDS FpgaConfig, BlasterProofs

(***************************************************************************)
(* The byte strings                                                        *)
(***************************************************************************)
LEMMA BodyType ==
  ASSUME NEW bytes \in Seq(Byte), bytes # <<>>
  PROVE  AllButLast(bytes) \in Seq(Byte) /\ LastByte(bytes) \in Seq(Byte)
<1>1. Len(bytes) \in Nat /\ Len(bytes) # 0
  OBVIOUS
<1>2. SubSeq(bytes, 1, Len(bytes) - 1) \in Seq(Byte)
  BY <1>1, SliceType
<1>3. bytes[Len(bytes)] \in Byte
  BY <1>1, ElementOfSeq
<1>4. LastHigh(ByteBits[bytes[Len(bytes)]]) \in Seq(Byte)
  BY <1>3, ByteBitsType, LastHighType
<1> QED
  BY <1>2, <1>4, ChunksType, FpgaAssumption DEF AllButLast, LastByte

LEMMA CycloneType ==
  ASSUME NEW bytes \in Seq(Byte), bytes # <<>> PROVE CycloneBytes(bytes) \in Seq(Byte)
<1>1. /\ scan_ir(Cyclone, Cyclone.config) \in Seq(Byte) /\ scan_ir(Cyclone, Cyclone.check) \in Seq(Byte)
      /\ scan_ir(Cyclone, Cyclone.startup) \in Seq(Byte) /\ scan_ir(Cyclone, Cyclone.bypass) \in Seq(Byte)
  <2>1. /\ Cyclone.config \in Nat /\ Cyclone.check \in Nat /\ Cyclone.startup \in Nat /\ Cyclone.bypass \in Nat
    BY DEF Cyclone
  <2> QED
    BY <2>1, ScanType
<1>2. tck_rti(ClearTicks) \in Seq(Byte) /\ tck_rti(StartTicks) \in Seq(Byte)
  BY MovesType, FpgaAssumption, BlasterAssumption
<1> QED
  BY <1>1, <1>2, MovesType, BodyType, Joined DEF CycloneBytes

LEMMA ReverseType == ASSUME NEW b \in Byte PROVE reverse_byte(b) \in Byte
<1> DEFINE s == ByteBits[b]
<1>1. s \in Seq(B01) /\ Len(s) = 8
  BY ByteBitsType
<1> HIDE DEF s
<1>2. \A i \in 1 .. 8 : s[9 - i] \in B01
  <2>1. \A i \in 1 .. Len(s) : s[i] \in B01
    BY <1>1, ElementOfSeq
  <2>2. \A i \in 1 .. 8 : 9 - i \in 1 .. 8
    OBVIOUS
  <2> QED
    BY <1>1, <2>1, <2>2
<1>3. Backwards(s) = [i \in 1 .. 8 |-> s[9 - i]]
  BY <1>1 DEF Backwards
<1>4. Backwards(s) \in Seq(B01) /\ Len(Backwards(s)) = 8
  BY <1>2, <1>3, FunSeq
<1> QED
  BY <1>4, BitsByteType DEF reverse_byte, s

\* The pieces a file of n bytes is read in: each starts inside it, and only the last is final.
LEMMA PieceArith ==
  ASSUME NEW n \in Nat, NEW good \in 0 .. n, NEW r \in Nat \ {0},
         NEW k \in 1 .. (IF good < n THEN good \div r ELSE (n + r - 1) \div r)
  PROVE  (k - 1) * r \in Nat /\ (k - 1) * r < n /\ k * r = (k - 1) * r + r /\ k * r \in Nat
<1> DEFINE p == IF good < n THEN good \div r ELSE (n + r - 1) \div r
<1>1. \A a \in Nat : (a \div r) \in Nat /\ (a \div r) * r <= a
  OBVIOUS
<1>2. p \in Nat /\ p * r <= n + r - 1
  BY <1>1
<1> HIDE DEF p
<1>3. k \in 1 .. p
  BY DEF p
<1>4. k - 1 \in Nat /\ k <= p
  BY <1>2, <1>3
<1>5. \A a, b \in Nat : a <= b => a * r <= b * r
  OBVIOUS
<1>6. \A a \in Nat : a * r \in Nat /\ (a + 1) * r = a * r + r
  OBVIOUS
<1>7. k * r <= p * r /\ p * r \in Nat /\ k * r \in Nat
  BY <1>2, <1>4, <1>5, <1>6
<1>8. k * r = (k - 1) * r + r /\ (k - 1) * r \in Nat
  BY <1>4, <1>6
<1> QED
  BY <1>2, <1>7, <1>8

\* The loop of fpga_config_from_sd: sent[k] is what has been sent after k pieces.
Pieces(bytes, good) ==
  IF good < Len(bytes) THEN good \div ReadBuf ELSE (Len(bytes) + ReadBuf - 1) \div ReadBuf
Reversed(bytes) == [i \in 1 .. Len(bytes) |-> reverse_byte(bytes[i])]
PieceSent(bytes, k) == SentPiece(Piece(Reversed(bytes), k - 1), k * ReadBuf >= Len(bytes))
IsBody(sent, bytes, good) ==
  /\ ArtixBody(bytes, good) = sent[Pieces(bytes, good)] /\ sent[0] = <<>>
  /\ \A k \in 1 .. Pieces(bytes, good) : /\ sent[k] = sent[k - 1] \o PieceSent(bytes, k)
                                          /\ PieceSent(bytes, k) \in Seq(Byte)

LEMMA ArtixBodyLoop ==
  ASSUME NEW bytes \in Seq(Byte), NEW good \in 0 .. Len(bytes)
  PROVE  Pieces(bytes, good) \in Nat /\ \E sent : IsBody(sent, bytes, good)
<1> DEFINE n == Len(bytes)
           reversed == [i \in 1 .. n |-> reverse_byte(bytes[i])]
           pieces == IF good < n THEN good \div ReadBuf ELSE (n + ReadBuf - 1) \div ReadBuf
           piece(k) == SentPiece(Piece(reversed, k - 1), k * ReadBuf >= n)
           sent == CHOOSE h : h = [k \in 0 .. pieces |-> IF k = 0 THEN <<>> ELSE h[k - 1] \o piece(k)]
<1>1. n \in Nat /\ ReadBuf \in Nat \ {0}
  BY FpgaAssumption
<1>2. pieces \in Nat
  <2>1. \A a \in Nat : (a \div ReadBuf) \in Nat
    BY <1>1
  <2> QED
    BY <1>1, <2>1
<1>3. ArtixBody(bytes, good) = sent[pieces]
  BY DEF ArtixBody
<1>4. reversed \in Seq(Byte) /\ Len(reversed) = n
  <2>1. \A i \in 1 .. n : bytes[i] \in Byte
    BY ElementOfSeq
  <2>2. reversed \in [1 .. n -> Byte]
    BY <2>1, ReverseType
  <2> QED
    BY <1>1, <2>2, FunSeq
<1> HIDE DEF reversed
<1>5. ASSUME NEW k \in 1 .. pieces PROVE piece(k) \in Seq(Byte)
  <2>1. (k - 1) * ReadBuf \in Nat /\ (k - 1) * ReadBuf < n /\ k * ReadBuf = (k - 1) * ReadBuf + ReadBuf
        /\ k * ReadBuf \in Nat
    BY <1>1, PieceArith
  <2> DEFINE p == Piece(reversed, k - 1)
             from == (k - 1) * ReadBuf
             to == Upto(reversed, k * ReadBuf)
  <2>2. p = SubSeq(reversed, from + 1, to)
    <3>1. (k - 1) + 1 = k
      BY <1>2
    <3> QED
      BY <3>1 DEF Piece
  <2>3. to \in Nat /\ to <= n /\ from + 1 <= to /\ from \in Nat
    BY <1>1, <1>4, <2>1 DEF Upto
  <2> HIDE DEF p, from, to, n
  <2>4. p \in Seq(Byte) /\ Len(p) = to - (from + 1) + 1
    BY <1>4, <2>2, <2>3, SliceType
  <2>5. p # <<>>
    BY <2>3, <2>4
  <2>6. ShiftChunks(p, ShiftMax) \in Seq(Byte) /\ AllButLast(p) \o LastByte(p) \in Seq(Byte)
    BY <2>4, <2>5, ChunksType, BodyType, Joined, FpgaAssumption
  <2> QED
    BY <2>6 DEF SentPiece, p
<1> HIDE DEF piece, pieces
<1>6. sent = [k \in 0 .. pieces |-> IF k = 0 THEN <<>> ELSE sent[k - 1] \o piece(k)]
  <2> DEFINE g == [p \in Seq(Byte) \X (1 .. pieces) |-> p[1] \o piece(p[2])]
  <2>1. g \in Steps(Seq(Byte), pieces)
    BY <1>5, Joined DEF Steps
  <2>2. <<>> \in Seq(Byte)
    OBVIOUS
  <2> HIDE DEF g
  <2>3. PICK f : IsLoop(f, Seq(Byte), <<>>, g, pieces)
    BY <1>2, <2>1, <2>2, LoopExists
  <2>4. \A k \in 1 .. pieces : g[<<f[k - 1], k>>] = f[k - 1] \o piece(k)
    <3>1. f \in [0 .. pieces -> Seq(Byte)]
      BY <2>3 DEF IsLoop
    <3>2. \A k \in 1 .. pieces : k - 1 \in 0 .. pieces
      BY <1>2
    <3>3. \A k \in 1 .. pieces : <<f[k - 1], k>> \in Seq(Byte) \X (1 .. pieces)
      BY <3>1, <3>2
    <3> QED
      BY <3>3 DEF g
  <2>5. f = [k \in 0 .. pieces |-> IF k = 0 THEN <<>> ELSE f[k - 1] \o piece(k)]
    <3>1. f = [k \in 0 .. pieces |-> f[k]] /\ f[0] = <<>>
      BY <2>3 DEF IsLoop
    <3>2. \A k \in 1 .. pieces : f[k] = f[k - 1] \o piece(k)
      BY <2>3, <2>4 DEF IsLoop
    <3>3. \A k \in 0 .. pieces : k = 0 \/ k \in 1 .. pieces
      BY <1>2
    <3> QED
      BY <3>1, <3>2, <3>3
  <2> QED
    BY <2>5
<1> HIDE DEF sent
<1>7. sent[0] = <<>> /\ \A k \in 1 .. pieces : sent[k] = sent[k - 1] \o piece(k)
  <2>1. 0 \in 0 .. pieces /\ \A k \in 1 .. pieces : k \in 0 .. pieces /\ k # 0
    BY <1>2
  <2> QED
    BY <1>6, <2>1
<1>8. pieces = Pieces(bytes, good) /\ \A k \in 1 .. pieces : piece(k) = PieceSent(bytes, k)
  BY DEF pieces, piece, reversed, Pieces, PieceSent, Reversed
<1>9. IsBody(sent, bytes, good)
  BY <1>3, <1>5, <1>7, <1>8 DEF IsBody
<1> QED
  BY <1>2, <1>8, <1>9

LEMMA ArtixBodyType ==
  ASSUME NEW bytes \in Seq(Byte), NEW good \in 0 .. Len(bytes)
  PROVE  ArtixBody(bytes, good) \in Seq(Byte)
<1> DEFINE n == Pieces(bytes, good)
           T == [k \in 0 .. n |-> Seq(Byte)]
<1>1. n \in Nat
  BY ArtixBodyLoop
<1>2. PICK sent : IsBody(sent, bytes, good)
  BY ArtixBodyLoop
<1>3. /\ ArtixBody(bytes, good) = sent[n] /\ sent[0] = <<>>
      /\ \A k \in 1 .. n : sent[k] = sent[k - 1] \o PieceSent(bytes, k) /\ PieceSent(bytes, k) \in Seq(Byte)
  BY <1>2 DEF IsBody
<1> HIDE DEF n
<1>4. sent[0] \in T[0]
  BY <1>1, <1>3
<1>5. ASSUME NEW k \in 1 .. n, sent[k - 1] \in T[k - 1] PROVE sent[k] \in T[k]
  <2>1. k \in 0 .. n /\ k - 1 \in 0 .. n
    BY <1>1
  <2>2. sent[k - 1] \in Seq(Byte)
    BY <1>5, <2>1
  <2>3. sent[k] \in Seq(Byte)
    BY <1>3, <2>2, Joined
  <2> QED
    BY <2>1, <2>3
<1> HIDE DEF T
<1>6. \A k \in 0 .. n : sent[k] \in T[k]
  BY <1>1, <1>4, <1>5, LoopKeeps
<1>7. n \in 0 .. n
  BY <1>1
<1> QED
  BY <1>3, <1>6, <1>7 DEF T

LEMMA ArtixType ==
  ASSUME NEW bytes \in Seq(Byte), NEW good \in 0 .. Len(bytes)
  PROVE  ArtixBytes(bytes, good) \in Seq(Byte)
<1>1. /\ scan_ir(Artix, Artix.program) \in Seq(Byte) /\ scan_ir(Artix, Artix.config) \in Seq(Byte)
      /\ scan_ir(Artix, Artix.startup) \in Seq(Byte) /\ scan_ir(Artix, Artix.bypass) \in Seq(Byte)
  <2>1. Artix.program \in Nat /\ Artix.config \in Nat /\ Artix.startup \in Nat /\ Artix.bypass \in Nat
    BY DEF Artix
  <2> QED
    BY <2>1, ScanType
<1>2. tck_rti(ClearTicks) \in Seq(Byte) /\ tck_rti(StartTicks) \in Seq(Byte)
  BY MovesType, FpgaAssumption, BlasterAssumption
<1> DEFINE tail == IF good < Len(bytes) THEN <<>>
     ELSE scan_ir(Artix, Artix.startup) \o tck_rti(StartTicks) \o scan_ir(Artix, Artix.bypass)
          \o tck_rti(StartTicks) \o jtag_reset
<1>3. tail \in Seq(Byte)
  <2>1. <<>> \in Seq(Byte)
    OBVIOUS
  <2> QED
    BY <1>1, <1>2, <2>1, MovesType, Joined
<1> HIDE DEF tail
<1>4. ArtixBytes(bytes, good) =
        jtag_reset \o scan_ir(Artix, Artix.program) \o tck_rti(ClearTicks) \o scan_ir(Artix, Artix.config)
        \o enter_shift_dr \o ArtixBody(bytes, good) \o exit_shift_dr \o tail
  BY DEF ArtixBytes, tail
<1> QED
  BY <1>1, <1>2, <1>3, <1>4, MovesType, ArtixBodyType, Joined

\* What configuring the FPGA leaves of the wires.
LEMMA FlashConfigType ==
  ASSUME NEW w \in Wires, NEW bytes \in Seq(Byte), bytes # <<>>
  PROVE  /\ fpga_config_from_flash(w, bytes).j \in Wires
         /\ fpga_config_from_flash(w, bytes).j.fam = w.fam
         /\ fpga_config_from_flash(w, bytes).j
              = After(After(blaster_reset(w), CycloneBytes(bytes)), ReadConfDone)
<1> DEFINE i == blaster_reset(w)
           r == After(i, CycloneBytes(bytes))
           d == After(r, ReadConfDone)
<1>1. i \in Wires /\ i.fam = w.fam
  BY ResetType
<1>2. fpga_config_from_flash(w, bytes).j = d
  BY DEF fpga_config_from_flash, WithConfDone, After
<1> HIDE DEF i
<1>3. r \in Wires /\ r.fam = w.fam
  BY <1>1, CycloneType, AfterFam
<1> HIDE DEF r
<1>4. ReadConfDone \in Seq(Byte)
  BY DEF ReadConfDone, Byte
<1>5. d \in Wires /\ d.fam = w.fam
  BY <1>3, <1>4, AfterFam
<1> QED
  BY <1>2, <1>5 DEF d, r, i

LEMMA SdConfigType ==
  ASSUME NEW w \in Wires, NEW bytes \in Seq(Byte), NEW good \in 0 .. Len(bytes)
  PROVE  /\ fpga_config_from_sd(w, bytes, good).j \in Wires
         /\ fpga_config_from_sd(w, bytes, good).j.fam = w.fam
         /\ bytes # <<>> => fpga_config_from_sd(w, bytes, good).j
                              = After(blaster_reset(w), ArtixBytes(bytes, good))
<1> DEFINE i == blaster_reset(w)
           r == After(i, ArtixBytes(bytes, good))
<1>1. i \in Wires /\ i.fam = w.fam
  BY ResetType
<1>2. fpga_config_from_sd(w, bytes, good).j = IF bytes = <<>> THEN w ELSE r
  BY DEF fpga_config_from_sd, After
<1> HIDE DEF i
<1>3. r \in Wires /\ r.fam = w.fam
  BY <1>1, ArtixType, AfterFam
<1> HIDE DEF r
<1> QED
  BY <1>2, <1>3 DEF r, i

(***************************************************************************)
(* The staging region                                                      *)
(***************************************************************************)
Sums == {0} \cup {Sum(FileBytes[file]) : file \in Files}
Flashes == [hdr : [magic : BOOLEAN, len : Nat, sum : Sums, mtime : Nat],
            data : [1 .. StageMax -> Byte]]

LEMMA ByteAndType == ASSUME NEW a \in Byte, NEW b \in Byte PROVE ByteAnd(a, b) \in Byte
<1> DEFINE bit(v) == IF (a \div v) % 2 = 1 /\ (b \div v) % 2 = 1 THEN v ELSE 0
<1>1. /\ bit(1) \in 0 .. 1 /\ bit(2) \in 0 .. 2 /\ bit(4) \in 0 .. 4 /\ bit(8) \in 0 .. 8
      /\ bit(16) \in 0 .. 16 /\ bit(32) \in 0 .. 32 /\ bit(64) \in 0 .. 64 /\ bit(128) \in 0 .. 128
  OBVIOUS
<1>2. ByteAnd(a, b) = bit(1) + bit(2) + bit(4) + bit(8) + bit(16) + bit(32) + bit(64) + bit(128)
  BY DEF ByteAnd
<1> HIDE DEF bit
<1>3. PICK p \in 0 .. 1, q \in 0 .. 2, r \in 0 .. 4, s \in 0 .. 8, t \in 0 .. 16, u \in 0 .. 32, v \in 0 .. 64, z \in 0 .. 128 :
        /\ bit(1) = p /\ bit(2) = q /\ bit(4) = r /\ bit(8) = s
        /\ bit(16) = t /\ bit(32) = u /\ bit(64) = v /\ bit(128) = z
  BY <1>1
<1>4. p + q + r + s + t + u + v + z \in 0 .. 255
  OBVIOUS
<1>5. ByteAnd(a, b) = p + q + r + s + t + u + v + z
  BY <1>2, <1>3
<1> QED
  BY <1>4, <1>5 DEF Byte

\* Programming an erased byte leaves what was programmed.
LEMMA ByteAndErased == ASSUME NEW b \in Byte PROVE ByteAnd(255, b) = b
<1> DEFINE bit(v) == IF (b \div v) % 2 = 1 THEN v ELSE 0
<1>1. ByteAnd(255, b) = bit(1) + bit(2) + bit(4) + bit(8) + bit(16) + bit(32) + bit(64) + bit(128)
  BY DEF ByteAnd, Byte
<1>2. b = bit(1) + bit(2) + bit(4) + bit(8) + bit(16) + bit(32) + bit(64) + bit(128)
  BY DEF Byte
<1> QED
  BY <1>1, <1>2

LEMMA EraseCovers ==
  ASSUME NEW n \in Nat PROVE EraseLen(n) \in Nat /\ n <= EraseLen(n)
<1>1. \A a \in Nat, b \in Nat \ {0} : (a \div b) \in Nat /\ (a \div b) * b \in Nat /\ a < (a \div b) * b + b
  <2>1. \A a \in Nat, b \in Nat \ {0} : (a \div b) \in Nat /\ a < (a \div b) * b + b
    OBVIOUS
  <2>2. \A a, b \in Nat : a * b \in Nat
    OBVIOUS
  <2> QED
    BY <2>1, <2>2
<1>2. FlashSector \in Nat \ {0} /\ n + FlashSector - 1 \in Nat
  BY StageAssumption
<1> QED
  BY <1>1, <1>2 DEF EraseLen

LEMMA EraseType ==
  ASSUME NEW f \in Flashes, NEW n \in Nat
  PROVE  Erase(f, n) \in Flashes /\ TornErase(f, n) \subseteq Flashes
<1>1. NoHeader \in [magic : BOOLEAN, len : Nat, sum : Sums, mtime : Nat]
  BY DEF NoHeader, Sums
<1>2. /\ f.hdr \in [magic : BOOLEAN, len : Nat, sum : Sums, mtime : Nat]
      /\ f.data \in [1 .. StageMax -> Byte] /\ 255 \in Byte
  BY DEF Flashes, Byte
<1>3. Erase(f, n) \in Flashes
  BY <1>1, <1>2 DEF Erase, Flashes
<1>4. ASSUME NEW t \in TornErase(f, n) PROVE t \in Flashes
  <2>1. PICK keep \in BOOLEAN, kept \in SUBSET (0..((StageMax - 1) \div FlashSector)) :
          t = [hdr |-> IF keep THEN f.hdr ELSE NoHeader,
               data |-> [i \in 1..StageMax |->
                IF i <= EraseLen(n) /\ ((i - 1) \div FlashSector) \notin kept
                THEN 255 ELSE f.data[i]]]
    BY <1>4 DEF TornErase
  <2> QED
    BY <1>1, <1>2, <2>1 DEF Flashes
<1> QED
  BY <1>3, <1>4

LEMMA ProgramType ==
  ASSUME NEW f \in Flashes, NEW from \in Nat, NEW bytes \in Seq(Byte)
  PROVE  /\ Program(f, from, bytes) \in Flashes
         /\ Program(f, from, bytes).hdr = f.hdr
         /\ \A i \in 1 .. StageMax : Program(f, from, bytes).data[i] =
              IF i \in (from + 1) .. (from + Len(bytes)) THEN ByteAnd(f.data[i], bytes[i - from]) ELSE f.data[i]
<1> DEFINE d == [i \in 1 .. StageMax |->
     IF i \in (from + 1) .. (from + Len(bytes)) THEN ByteAnd(f.data[i], bytes[i - from]) ELSE f.data[i]]
<1>1. f.data \in [1 .. StageMax -> Byte] /\ StageMax \in Nat /\ Len(bytes) \in Nat
  BY StageAssumption DEF Flashes
<1>2. \A i \in 1 .. StageMax : i \in (from + 1) .. (from + Len(bytes)) => bytes[i - from] \in Byte
  <2>1. \A i \in 1 .. Len(bytes) : bytes[i] \in Byte
    BY ElementOfSeq
  <2>2. \A i \in (from + 1) .. (from + Len(bytes)) : i - from \in 1 .. Len(bytes)
    BY <1>1
  <2> QED
    BY <2>1, <2>2
<1>3. d \in [1 .. StageMax -> Byte]
  BY <1>1, <1>2, ByteAndType
<1>4. Program(f, from, bytes) = [f EXCEPT !.data = d]
  BY DEF Program
<1>5. \A i \in 1 .. StageMax : d[i] =
        IF i \in (from + 1) .. (from + Len(bytes)) THEN ByteAnd(f.data[i], bytes[i - from]) ELSE f.data[i]
  OBVIOUS
<1> HIDE DEF d
<1> QED
  BY <1>3, <1>4, <1>5 DEF Flashes

LEMMA TornProgramType ==
  ASSUME NEW f \in Flashes, NEW from \in Nat, NEW bytes \in Seq(Byte)
  PROVE  TornProgram(f, from, bytes) \subseteq Flashes
<1>1. ASSUME NEW n \in 0 .. Len(bytes) PROVE SubSeq(bytes, 1, n) \in Seq(Byte)
  BY SliceType
<1> QED
  BY <1>1, ProgramType DEF TornProgram

LEMMA StagedType ==
  ASSUME NEW f \in Flashes
  PROVE  /\ fpga_staged_len(f) \in 0 .. StageMax
         /\ Staged(f) \in Seq(Byte)
         /\ fpga_staged_len(f) # 0 => Staged(f) # <<>>
<1>1. f.data \in [1 .. StageMax -> Byte] /\ StageMax \in Nat
  BY StageAssumption DEF Flashes
<1>2. f.data \in Seq(Byte) /\ Len(f.data) = StageMax
  BY <1>1, FunSeq
<1>3. fpga_staged_len(f) \in 0 .. StageMax
  BY <1>1 DEF fpga_staged_len
<1>4. Staged(f) \in Seq(Byte) /\ Len(Staged(f)) = IF 1 <= fpga_staged_len(f) THEN fpga_staged_len(f) - 1 + 1 ELSE 0
  <2> DEFINE n == fpga_staged_len(f)
  <2>1. n \in Nat /\ n <= Len(f.data)
    BY <1>2, <1>3
  <2> HIDE DEF n
  <2>2. SubSeq(f.data, 1, n) \in Seq(Byte) /\ Len(SubSeq(f.data, 1, n)) = IF 1 <= n THEN n - 1 + 1 ELSE 0
    BY <1>2, <2>1, SliceType
  <2> QED
    BY <2>2 DEF Staged, n
<1>5. fpga_staged_len(f) # 0 => Staged(f) # <<>>
  BY <1>3, <1>4
<1> QED
  BY <1>3, <1>4, <1>5

\* A header programmed behind a file that is there whole vouches for it.
LEMMA HeaderVouches ==
  ASSUME NEW f \in Flashes, NEW file \in Files, Size(file) \in 1 .. StageMax, NEW t \in Nat,
         \A i \in 1 .. Size(file) : f.data[i] = FileBytes[file][i]
  PROVE  LET g == ProgramHeader(f, Size(file), Sum(FileBytes[file]), t)
         IN  g \in Flashes /\ fpga_staged_len(g) = Size(file) /\ Unchanged(g, Size(file), t)
<1> DEFINE n == Size(file)
           bytes == FileBytes[file]
           g == ProgramHeader(f, n, Sum(bytes), t)
<1>1. bytes \in Seq(Byte) /\ n = Len(bytes) /\ n \in Nat /\ n # 0
  BY BlasterAssumption DEF Files, Byte, Size
<1>2. f.data \in [1 .. StageMax -> Byte] /\ StageMax \in Nat /\ n \in 1 .. StageMax
  BY StageAssumption DEF Flashes
<1>3. f.data \in Seq(Byte) /\ Len(f.data) = StageMax
  BY <1>2, FunSeq
<1>4. g = [f EXCEPT !.hdr = [magic |-> TRUE, len |-> n, sum |-> Sum(bytes), mtime |-> t]]
  BY DEF ProgramHeader
<1>5. Sum(bytes) \in Sums
  BY DEF Sums
<1>6. \A i \in 1 .. n : f.data[i] = bytes[i]
  OBVIOUS
<1> HIDE DEF g, bytes, n
<1>7. g \in Flashes /\ g.data = f.data /\ g.hdr = [magic |-> TRUE, len |-> n, sum |-> Sum(bytes), mtime |-> t]
  BY <1>1, <1>4, <1>5 DEF Flashes
<1>8. SubSeq(f.data, 1, n) = bytes
  <2>1. \A i \in 1 .. n : f.data[i] \in Byte
    BY <1>2
  <2>2. /\ SubSeq(f.data, 1, n) \in Seq(Byte)
        /\ Len(SubSeq(f.data, 1, n)) = IF 1 <= n THEN n - 1 + 1 ELSE 0
        /\ \A i \in 1 .. n - 1 + 1 : SubSeq(f.data, 1, n)[i] = f.data[1 + i - 1]
    BY <1>1, <2>1, SubSeqProperties
  <2>3. n - 1 + 1 = n /\ (1 <= n) /\ \A i \in 1 .. n : 1 + i - 1 = i
    BY <1>1
  <2>4. Len(SubSeq(f.data, 1, n)) = Len(bytes) /\ \A i \in 1 .. Len(bytes) : SubSeq(f.data, 1, n)[i] = bytes[i]
    BY <1>1, <1>6, <2>2, <2>3
  <2> QED
    BY <1>1, <2>2, <2>4, SeqEqual
<1>9. fpga_staged_len(g) = n
  <2>1. g.hdr.magic = TRUE /\ g.hdr.len = n /\ g.hdr.sum = Sum(bytes) /\ g.data = f.data
    BY <1>7
  <2>2. Sum(SubSeq(g.data, 1, g.hdr.len)) = g.hdr.sum
    BY <1>8, <2>1
  <2> QED
    BY <1>2, <2>1, <2>2 DEF fpga_staged_len
<1>10. Unchanged(g, n, t)
  BY <1>7, <1>9 DEF Unchanged
<1> QED
  BY <1>7, <1>9, <1>10 DEF g, n, bytes

(***************************************************************************)
(* The packets                                                             *)
(***************************************************************************)
Pkts == {p \in Seq(Byte) : Len(p) <= Packet}

LEMMA Regroup ==
  ASSUME NEW a \in Seq(Byte), NEW b \in Seq(Byte), NEW d \in Seq(Byte) PROVE (a \o b) \o d = a \o (b \o d)
BY ConcatAssociative

LEMMA PacketsType == ASSUME NEW bytes \in Seq(Byte) PROVE Packets(bytes) \in Seq(Pkts)
<1> DEFINE n == (Len(bytes) + Packet - 1) \div Packet
           e(k) == SubSeq(bytes, (k - 1) * Packet + 1, Upto(bytes, k * Packet))
<1>1. Packet \in 3 .. 64 /\ Len(bytes) \in Nat
  BY FpgaAssumption
<1>2. n \in Nat
  <2>1. \A a \in Nat, b \in 3 .. 64 : (a \div b) \in Nat
    OBVIOUS
  <2> QED
    BY <1>1, <2>1
<1>3. ASSUME NEW k \in 1 .. n PROVE e(k) \in Pkts
  <2>1. (k - 1) * Packet \in Nat /\ k * Packet = (k - 1) * Packet + Packet /\ k - 1 \in Nat
    BY <1>1, <1>2
  <2> DEFINE from == (k - 1) * Packet
             to == Upto(bytes, k * Packet)
  <2>2. from \in Nat /\ to \in Nat /\ to <= Len(bytes) /\ to <= from + Packet
    BY <1>1, <2>1 DEF Upto
  <2>3. e(k) = SubSeq(bytes, from + 1, to)
    OBVIOUS
  <2> HIDE DEF from, to, e, n
  <2>4. e(k) \in Seq(Byte) /\ Len(e(k)) = IF from + 1 <= to THEN to - (from + 1) + 1 ELSE 0
    BY <2>2, <2>3, SliceType
  <2>5. Len(e(k)) <= Packet
    BY <1>1, <2>2, <2>4
  <2> QED
    BY <2>4, <2>5 DEF Pkts
<1> HIDE DEF e, n
<1>4. [k \in 1 .. n |-> e(k)] \in Seq(Pkts)
  BY <1>2, <1>3
<1> QED
  BY <1>4 DEF Packets, e, n

LEMMA SessionType == ReadSession \in Seq(Byte)
<1> DEFINE n == Packet - 1
           data == [i \in 1 .. n |-> 2 * i]
<1>1. n \in 2 .. 63
  BY FpgaAssumption
<1>2. data \in Seq(Byte)
  <2>1. \A i \in 1 .. n : 2 * i \in 0 .. 255
    BY <1>1
  <2>2. data \in [1 .. n -> Byte]
    BY <2>1 DEF Byte
  <2>3. n \in Nat
    BY <1>1
  <2> HIDE DEF data, n
  <2> QED
    BY <2>2, <2>3, FunSeq
<1>3. <<192 + n>> \in Seq(Byte) /\ <<193, 0>> \in Seq(Byte)
  BY <1>1 DEF Byte
<1> HIDE DEF data
<1>4. ReadSession = jtag_reset \o enter_shift_dr \o <<192 + n>> \o data \o <<193, 0>>
  BY DEF ReadSession, ReadData, data
<1> HIDE DEF n
<1> QED
  BY <1>2, <1>3, <1>4, MovesType, Joined

LEMMA SentImageType == ASSUME NEW img \in HostImages PROVE SendImage(img) \in Seq(Byte)
<1>1. FileBytes[img] \in Seq(Byte) /\ FileBytes[img] # <<>>
  BY BlasterAssumption, FpgaAssumption DEF Byte
<1>2. Size(img) \in 0 .. Len(FileBytes[img])
  BY <1>1 DEF Size
<1> QED
  BY <1>1, <1>2, CycloneType, ArtixType DEF SendImage

\* The loop of blaster_vendor_task: what its state is after i packets were looked at.
Taking == [j : Wires, tx : Seq(Byte), left : Seq(Pkts), new : Seq(Byte)]
TakenOf(s, i) ==
  /\ s.tx = tx \o s.new /\ Len(s.tx) <= 2 * Packet
  /\ Len(queue) - i <= Len(s.left) /\ Len(s.left) <= Len(queue)
  /\ s.j.fam = j.fam /\ (Len(s.left) = Len(queue) => s.j = j)

LEMMA TakeStep ==
  ASSUME tx \in Seq(Byte), queue \in Seq(Pkts), NEW i \in 1 .. Len(queue),
         NEW s \in Taking, TakenOf(s, i - 1)
  PROVE  TakePacket(s) \in Taking /\ TakenOf(TakePacket(s), i)
<1>1. /\ s.j \in Wires /\ s.tx \in Seq(Byte) /\ s.left \in Seq(Pkts) /\ s.new \in Seq(Byte)
      /\ Packet \in 3 .. 64 /\ i \in Nat /\ Len(queue) \in Nat
  BY FpgaAssumption DEF Taking
<1>2. Len(s.left) \in Nat /\ Len(s.left) >= 1 /\ s.left # <<>>
  <2>1. Len(s.left) \in Nat /\ Len(s.left) >= 1
    BY <1>1 DEF TakenOf
  <2> QED
    BY <2>1
<1>3. CASE Room(s.tx)
  <2> DEFINE r == blaster_process(s.j, Head(s.left))
             t == Took(s, r)
  <2>1. Head(s.left) \in Pkts /\ Tail(s.left) \in Seq(Pkts) /\ Len(Tail(s.left)) = Len(s.left) - 1
    BY <1>1, <1>2, HeadTailProperties
  <2>2. Head(s.left) \in Seq(Byte) /\ Len(Head(s.left)) <= Packet
    BY <2>1 DEF Pkts
  <2>3. r \in Runs /\ Len(r.tx) <= Len(Head(s.left))
    BY <1>1, <2>2, ProcessType
  <2>0. r.j.fam = s.j.fam
    BY <1>1, <2>2, AfterFam DEF After
  <2> HIDE DEF r
  <2>4. r.j \in Wires /\ r.tx \in Seq(Byte) /\ Len(r.tx) \in Nat /\ Len(r.tx) <= Packet
    <3>1. r.j \in Wires /\ r.tx \in Seq(Byte)
      BY <2>3 DEF Runs
    <3>2. Len(r.tx) \in Nat /\ Len(Head(s.left)) \in Nat
      BY <2>2, <3>1
    <3> QED
      BY <1>1, <2>2, <2>3, <3>1, <3>2
  <2>5. /\ s.tx \o r.tx \in Seq(Byte) /\ Len(s.tx \o r.tx) = Len(s.tx) + Len(r.tx)
        /\ s.new \o r.tx \in Seq(Byte)
    BY <1>1, <2>4, Joined
  <2>6. Len(s.tx) \in Nat /\ Len(s.tx) <= Packet
    BY <1>1, <1>3 DEF Room
  <2>7. Len(s.tx \o r.tx) <= 2 * Packet
    <3>1. \A a, b, p \in Nat : (a <= p /\ b <= p) => a + b <= 2 * p
      OBVIOUS
    <3>2. Packet \in Nat
      BY <1>1
    <3>3. Len(s.tx) + Len(r.tx) <= 2 * Packet
      BY <2>4, <2>6, <3>1, <3>2
    <3> QED
      BY <2>5, <3>3
  <2>8. t = [j |-> r.j, tx |-> s.tx \o r.tx, left |-> Tail(s.left), new |-> s.new \o r.tx]
    BY DEF Took
  <2>9. s.tx \o r.tx = tx \o (s.new \o r.tx)
    <3>1. s.tx = tx \o s.new
      BY DEF TakenOf
    <3> DEFINE a == s.new
               b == r.tx
    <3>2. a \in Seq(Byte) /\ b \in Seq(Byte)
      BY <1>1, <2>4
    <3> HIDE DEF a, b
    <3>3. (tx \o a) \o b = tx \o (a \o b)
      BY <3>2, Regroup
    <3> QED
      BY <3>1, <3>3 DEF a, b
  <2> HIDE DEF t
  <2>10. t \in Taking
    BY <2>1, <2>4, <2>5, <2>8 DEF Taking
  <2>11. Len(queue) - i <= Len(t.left) /\ Len(t.left) <= Len(queue)
    <3>1. Len(queue) - (i - 1) <= Len(s.left) /\ Len(s.left) <= Len(queue) /\ t.left = Tail(s.left)
      BY <2>8 DEF TakenOf
    <3> QED
      BY <1>1, <1>2, <2>1, <3>1
  <2>12. t.tx = tx \o t.new /\ Len(t.tx) <= 2 * Packet
    BY <2>7, <2>8, <2>9
  <2>13. TakePacket(s) = t
    BY <1>3 DEF TakePacket, t, r
  <2>14. t.j.fam = j.fam /\ Len(t.left) # Len(queue)
    <3>1. s.j.fam = j.fam /\ Len(s.left) <= Len(queue)
      BY DEF TakenOf
    <3>2. t.j = r.j /\ Len(t.left) = Len(s.left) - 1
      BY <2>1, <2>8
    <3> QED
      BY <1>1, <1>2, <2>0, <3>1, <3>2
  <2> QED
    BY <2>10, <2>11, <2>12, <2>13, <2>14 DEF TakenOf
<1>4. CASE ~Room(s.tx)
  <2>1. TakePacket(s) = s
    BY <1>4 DEF TakePacket
  <2>2. Len(queue) - i <= Len(s.left)
    BY <1>1, <1>2 DEF TakenOf
  <2> QED
    BY <2>1, <2>2 DEF TakenOf
<1> QED
  BY <1>3, <1>4

LEMMA TakesPackets ==
  ASSUME j \in Wires, tx \in Seq(Byte), queue \in Seq(Pkts), Len(tx) <= 2 * Packet
  PROVE  TakePackets \in Taking /\ TakenOf(TakePackets, Len(queue))
<1> DEFINE n == Len(queue)
           c == [j |-> j, tx |-> tx, left |-> queue, new |-> <<>>]
           after == CHOOSE h : h = [i \in 0 .. n |-> IF i = 0 THEN c ELSE TakePacket(h[i - 1])]
           T == [i \in 0 .. n |-> {s \in Taking : TakenOf(s, i)}]
<1>1. TakePackets = after[n]
  BY DEF TakePackets
<1>2. n \in Nat /\ n = Len(queue) /\ (\A i \in 1 .. n : i - 1 \in 0 .. n /\ i \in 0 .. n /\ i # 0)
      /\ \A i \in 0 .. n : i = 0 \/ i \in 1 .. n
  OBVIOUS
<1>3. c \in Taking /\ TakenOf(c, 0)
  <2>1. c \in Taking /\ c.tx = tx /\ c.new = <<>> /\ c.left = queue /\ c.j = j
    BY DEF Taking
  <2>2. tx \o <<>> = tx
    BY ConcatEmptySeq
  <2> QED
    BY <2>1, <2>2 DEF TakenOf
<1> HIDE DEF c, n
<1>4. ASSUME NEW f, NEW i \in 1 .. n, f[i - 1] \in T[i - 1], f[i] = TakePacket(f[i - 1])
      PROVE  f[i] \in T[i]
  <2>1. f[i - 1] \in Taking /\ TakenOf(f[i - 1], i - 1)
    BY <1>2, <1>4
  <2>2. f[i] \in Taking /\ TakenOf(f[i], i)
    BY <1>2, <1>4, <2>1, TakeStep
  <2> QED
    BY <1>2, <2>2
<1>5. T[0] = {s \in Taking : TakenOf(s, 0)} /\ \A i \in 0 .. n : T[i] \subseteq Taking
  BY <1>2
<1>6. T[n] = {s \in Taking : TakenOf(s, n)}
  BY <1>2
<1>7. after = [i \in 0 .. n |-> IF i = 0 THEN c ELSE TakePacket(after[i - 1])]
  <2> DEFINE step(s) == IF TakePacket(s) \in Taking THEN TakePacket(s) ELSE c
             g == [p \in Taking \X (1 .. n) |-> step(p[1])]
  <2>1. g \in Steps(Taking, n)
    BY <1>3 DEF Steps
  <2> HIDE DEF g
  <2>2. PICK f : IsLoop(f, Taking, c, g, n)
    BY <1>2, <1>3, <2>1, LoopExists
  <2>3. f \in [0 .. n -> Taking] /\ f[0] = c
    BY <2>2 DEF IsLoop
  <2>4. \A i \in 1 .. n : f[i] = step(f[i - 1])
    <3>1. \A i \in 1 .. n : f[i] = g[<<f[i - 1], i>>]
      BY <2>2 DEF IsLoop
    <3>2. \A i \in 1 .. n : <<f[i - 1], i>> \in Taking \X (1 .. n)
      BY <1>2, <2>3
    <3> QED
      BY <3>1, <3>2 DEF g
  <2> HIDE DEF T
  <2>5. f[0] \in T[0]
    BY <1>3, <1>5, <2>3
  <2>6. ASSUME NEW i \in 1 .. n, f[i - 1] \in T[i - 1] PROVE f[i] \in T[i]
    <3>1. f[i - 1] \in Taking /\ TakenOf(f[i - 1], i - 1) /\ i \in 1 .. Len(queue)
      BY <1>2, <2>6 DEF T
    <3>2. TakePacket(f[i - 1]) \in Taking
      BY <3>1, TakeStep
    <3>3. f[i] = TakePacket(f[i - 1])
      BY <2>4, <3>2
    <3> QED
      BY <1>4, <2>6, <3>3
  <2>7. \A i \in 0 .. n : f[i] \in T[i]
    BY <1>2, <2>5, <2>6, LoopKeeps
  <2>8. \A i \in 1 .. n : f[i] = TakePacket(f[i - 1])
    <3> SUFFICES ASSUME NEW i \in 1 .. n PROVE f[i] = TakePacket(f[i - 1])
      OBVIOUS
    <3>1. f[i - 1] \in Taking /\ TakenOf(f[i - 1], i - 1) /\ i \in 1 .. Len(queue)
      BY <1>2, <2>7 DEF T
    <3>2. TakePacket(f[i - 1]) \in Taking
      BY <3>1, TakeStep
    <3> QED
      BY <2>4, <3>2
  <2>9. f = [i \in 0 .. n |-> IF i = 0 THEN c ELSE TakePacket(f[i - 1])]
    <3>1. f = [i \in 0 .. n |-> f[i]]
      BY <2>3
    <3> QED
      BY <1>2, <2>3, <2>8, <3>1
  <2> QED
    BY <2>9
<1> HIDE DEF T, after
<1>8. after[0] \in T[0]
  BY <1>2, <1>3, <1>5, <1>7
<1>9. ASSUME NEW i \in 1 .. n, after[i - 1] \in T[i - 1] PROVE after[i] \in T[i]
  <2>1. after[i] = TakePacket(after[i - 1])
    BY <1>2, <1>7
  <2> QED
    BY <1>4, <1>9, <2>1
<1>10. \A i \in 0 .. n : after[i] \in T[i]
  BY <1>2, <1>8, <1>9, LoopKeeps
<1>11. after[n] \in T[n]
  BY <1>2, <1>10
<1> QED
  BY <1>1, <1>2, <1>6, <1>11

(***************************************************************************)
(* The invariant                                                           *)
(***************************************************************************)
Cards == [file : Files, mtime : 0 .. (MaxOps + 1)]

\* The region while a file is staged: what is written so far, and erased bytes behind it.
HalfStaged ==
  /\ written <= Size(card.file)
  /\ \A i \in 1 .. Size(card.file) : flash.data[i] = IF i <= written THEN CardBytes[i] ELSE 255

StageInv ==
  /\ board \in {"qmtech", "wukong"}
  /\ phase \in {"stage", "erase", "program", "stream", "config", "run"}
  /\ flash \in Flashes
  /\ card \in {NoCard} \cup Cards /\ home \in {NoCard} \cup Cards
  /\ written \in 0 .. StageMax /\ g_fpga_staged \in 0 .. StageMax
  /\ ops \in 0 .. MaxOps
  /\ phase \in {"erase", "program"} => card \in Cards /\ Size(card.file) \in 1 .. StageMax
  /\ phase \in {"stage", "erase", "program"} => g_fpga_staged = 0
  /\ phase = "erase" => home # card
  /\ phase = "program" => home = NoCard /\ HalfStaged
  /\ (phase = "config" /\ g_fpga_staged # 0) => fpga_staged_len(flash) = g_fpga_staged
  /\ home # NoCard => Unchanged(flash, Size(home.file), home.mtime)

UsbInv ==
  /\ script \in Seq(Pkts) /\ queue \in Seq(Pkts) /\ Len(queue) <= QueuePackets
  /\ tx \in Seq(Byte) /\ Len(tx) <= 2 * Packet
  /\ flight \in Seq(Byte) /\ Len(flight) <= Packet - 2
  /\ got \in Seq(Byte) /\ answers \in Seq(Byte)
  /\ answers = got \o flight \o tx

ConfigInv == StageInv /\ j \in Wires /\ UsbInv /\ FirstIdcodeGenuine

LEMMA FileType == ASSUME NEW file \in Files PROVE FileBytes[file] \in Seq(Byte) /\ Size(file) = Len(FileBytes[file]) /\ Size(file) \in Nat
BY BlasterAssumption DEF Files, Byte, Size

LEMMA PoweredType ==
  ASSUME NEW b, NEW ok \in BOOLEAN PROVE PoweredOn(b, ok) \in Wires
<1>1. Family(b) \in {Cyclone, Artix}
  BY DEF Family
<1>2. <<0>> \in Full /\ <<>> \in Seq(B01) /\ Factory \in Cores
  BY DEF Full, B01, Cores
<1> QED
  BY <1>1, <1>2 DEF PoweredOn, Wires, IdcodeIr, Taps, B01

LEMMA RestartedType == ASSUME NEW w \in Wires PROVE Restarted(w) \in Wires
<1> DEFINE k == [w EXCEPT !.pio = FALSE, !.dirT = FALSE, !.dirM = FALSE, !.tck = 0, !.tms = 0]
<1>1. 0 \in 0 .. 63 /\ 0 \in B01
  BY DEF B01
<1>2. k \in Wires
  BY <1>1 DEF Wires
<1>3. Restarted(w) = [k EXCEPT !.tdi = 0, !.oe = FALSE, !.left = 0, !.rd = FALSE, !.init = FALSE, !.jinit = FALSE]
  BY DEF Restarted, Wires
<1> HIDE DEF k
<1> QED
  BY <1>1, <1>2, <1>3 DEF Wires

(***************************************************************************)
(* The first state                                                         *)
(***************************************************************************)
LEMMA InitHolds == Init => ConfigInv
<1> SUFFICES ASSUME Init PROVE ConfigInv
  OBVIOUS
<1>1. j \in Wires
  BY PoweredType DEF Init
<1>2. UsbInv
  <2>1. /\ script = <<>> /\ queue = <<>> /\ tx = <<>> /\ flight = <<>> /\ got = <<>> /\ answers = <<>>
        /\ QueuePackets \in Nat /\ Packet \in 3 .. 64
    BY FpgaAssumption DEF Init
  <2>2. <<>> \o <<>> \o <<>> = <<>> /\ <<>> \in Seq(Byte)
    OBVIOUS
  <2> QED
    BY <2>1, <2>2 DEF UsbInv
<1>3. StageInv
  <2>1. ErasedFlash \in Flashes
    BY DEF ErasedFlash, Flashes, NoHeader, Sums, Byte
  <2>2. StageMax \in Nat /\ MaxOps \in Nat
    BY StageAssumption, FpgaAssumption
  <2>3. card \in {NoCard} \cup Cards
    <3>1. card \in {NoCard} \union [file : Files, mtime : {0}]
      BY DEF Init
    <3> QED
      BY <2>2, <3>1 DEF Cards
  <2> QED
    BY <2>1, <2>2, <2>3 DEF Init, StageInv
<1>4. FirstIdcodeGenuine
  BY DEF Init, FirstIdcodeGenuine, Nothing
<1> QED
  BY <1>1, <1>2, <1>3, <1>4 DEF ConfigInv

(***************************************************************************)
(* The wires                                                               *)
(***************************************************************************)
LEMMA ConfigureWires == ASSUME ConfigInv, Configure PROVE j' \in Wires
<1>0. j \in Wires /\ flash \in Flashes
  BY DEF ConfigInv, StageInv
<1>1. CASE g_fpga_staged = 0
  BY <1>0, <1>1, ResetType DEF Configure
<1>2. CASE g_fpga_staged # 0
  <2> DEFINE b == Staged(flash)
             f == fpga_config_from_flash(j, b)
             r == TryAgain(f, b)
  <2>1. fpga_staged_len(flash) # 0
    BY <1>2 DEF Configure, ConfigInv, StageInv
  <2>2. b \in Seq(Byte) /\ b # <<>>
    BY <1>0, <2>1, StagedType
  <2>3. j' = blaster_reset(r.j)
    BY <1>2 DEF Configure, ConfigureDone
  <2> HIDE DEF b
  <2>4. f.j \in Wires
    BY <1>0, <2>2, FlashConfigType
  <2> HIDE DEF f
  <2>5. r.j \in Wires
    BY <2>2, <2>4, FlashConfigType DEF TryAgain
  <2> QED
    BY <2>3, <2>5, ResetType
<1> QED
  BY <1>1, <1>2

LEMMA ReadableType ==
  ASSUME NEW b \in Seq(Byte), NEW good \in Readable(b) PROVE good \in 0 .. Len(b)
<1> DEFINE n == Len(b)
           q == (n - 1) \div ReadBuf
<1>1. n \in Nat /\ ReadBuf \in Nat \ {0}
  BY FpgaAssumption
<1>2. good = n \/ \E k \in 0 .. q : good = k * ReadBuf
  BY DEF Readable
<1>3. CASE good = n
  BY <1>1, <1>3
<1>4. CASE \E k \in 0 .. q : good = k * ReadBuf
  <2>1. PICK k \in 0 .. q : good = k * ReadBuf
    BY <1>4
  <2>2. \A a \in Int : (a \div ReadBuf) \in Int /\ (a \div ReadBuf) * ReadBuf <= a
    BY <1>1
  <2>3. q \in Int /\ q * ReadBuf <= n - 1
    BY <1>1, <2>2
  <2> HIDE DEF n, q
  <2>4. \A x, y \in Nat : x <= y => x * ReadBuf <= y * ReadBuf /\ x * ReadBuf \in Nat /\ y * ReadBuf \in Nat
    BY <1>1
  <2>5. k \in Nat /\ q \in Nat /\ k <= q
    BY <2>3
  <2>6. good \in Nat /\ good <= q * ReadBuf /\ q * ReadBuf \in Nat
    BY <2>1, <2>4, <2>5
  <2>7. good \in 0 .. n
    BY <1>1, <2>3, <2>6
  <2> QED
    BY <2>7 DEF n
<1> QED
  BY <1>2, <1>3, <1>4

LEMMA CardBytesType ==
  ASSUME StageInv, card # NoCard
  PROVE  CardBytes \in Seq(Byte) /\ Size(card.file) = Len(CardBytes) /\ Size(card.file) \in Nat /\ card \in Cards
<1>1. card \in Cards /\ card.file \in Files
  BY DEF StageInv, Cards
<1> QED
  BY <1>1, FileType DEF CardBytes

LEMMA StreamWires == ASSUME ConfigInv, Stream PROVE j' \in Wires
<1>0. j \in Wires /\ StageInv
  BY DEF ConfigInv
<1>1. CASE card = NoCard
  BY <1>0, <1>1, ResetType DEF Stream
<1>2. CASE card # NoCard
  <2>1. PICK good \in Readable(CardBytes) :
          ConfigureDone(fpga_config_from_sd(j, CardBytes, good), CardBytes, ~j.pio)
    BY <1>2 DEF Stream
  <2>2. CardBytes \in Seq(Byte)
    BY <1>0, <1>2, CardBytesType
  <2>3. good \in 0 .. Len(CardBytes)
    BY <2>2, ReadableType
  <2>4. fpga_config_from_sd(j, CardBytes, good).j \in Wires
    BY <1>0, <2>2, <2>3, SdConfigType
  <2> QED
    BY <2>1, <2>4, ResetType DEF ConfigureDone
<1> QED
  BY <1>1, <1>2

LEMMA FWires == ASSUME ConfigInv, F PROVE j' \in Wires
<1>0. j \in Wires /\ StageInv /\ flash \in Flashes
  BY DEF ConfigInv, StageInv
<1>1. CASE board = "wukong"
  <2>1. card # NoCard /\ \E good \in Readable(CardBytes) : Again(fpga_config_from_sd(j, CardBytes, good), CardBytes)
    BY <1>1 DEF F
  <2>2. CardBytes \in Seq(Byte)
    BY <1>0, <2>1, CardBytesType
  <2>3. PICK good \in Readable(CardBytes) : Again(fpga_config_from_sd(j, CardBytes, good), CardBytes)
    BY <2>1
  <2>4. good \in 0 .. Len(CardBytes)
    BY <2>2, ReadableType
  <2>5. fpga_config_from_sd(j, CardBytes, good).j \in Wires
    BY <1>0, <2>2, <2>4, SdConfigType
  <2> QED
    BY <2>3, <2>5 DEF Again
<1>2. CASE board # "wukong"
  <2>1. fpga_staged_len(flash) > 0 /\ Again(fpga_config_from_flash(j, Staged(flash)), Staged(flash))
    BY <1>2 DEF F
  <2>2. fpga_staged_len(flash) # 0
    BY <2>1
  <2>3. Staged(flash) \in Seq(Byte) /\ Staged(flash) # <<>>
    BY <1>0, <2>2, StagedType
  <2>4. fpga_config_from_flash(j, Staged(flash)).j \in Wires
    BY <1>0, <2>3, FlashConfigType
  <2> QED
    BY <2>1, <2>4 DEF Again
<1> QED
  BY <1>1, <1>2

LEMMA VendorTakes ==
  ASSUME j \in Wires, UsbInv
  PROVE  /\ TakePackets \in Taking
         /\ TakePackets.tx = tx \o TakePackets.new /\ Len(TakePackets.tx) <= 2 * Packet
         /\ Len(TakePackets.left) <= Len(queue)
         /\ TakePackets.j.fam = j.fam /\ (Len(TakePackets.left) = Len(queue) => TakePackets.j = j)
<1>1. TakePackets \in Taking /\ TakenOf(TakePackets, Len(queue))
  BY TakesPackets DEF UsbInv
<1> QED
  BY <1>1 DEF TakenOf

LEMMA WiresStep == ASSUME ConfigInv, [Next]_vars PROVE j' \in Wires
<1>0. j \in Wires /\ UsbInv
  BY DEF ConfigInv
<1>1. CASE StageSkipped \/ StageCheck \/ StageErase \/ StageSector \/ StageReadFails \/ StageHeader
  BY <1>0, <1>1 DEF StageSkipped, StageCheck, StageErase, StageSector, StageReadFails, StageHeader
<1>2. CASE Configure
  BY <1>2, ConfigureWires
<1>3. CASE Stream
  BY <1>3, StreamWires
<1>4. CASE HostOpen
  BY <1>0, <1>4, ResetType DEF HostOpen
<1>5. CASE HostSend \/ HostRead \/ Unplug \/ NewImage \/ RemoveImage
  BY <1>0, <1>5 DEF HostSend, HostRead, Unplug, NewImage, RemoveImage
<1>6. CASE blaster_vendor_task
  <2>1. j' = TakePackets.j
    BY <1>6 DEF blaster_vendor_task, SentNow, SendPacket
  <2> QED
    BY <1>0, <2>1, VendorTakes DEF Taking
<1>7. CASE F
  BY <1>7, FWires
<1>8. CASE J
  BY <1>0, <1>8, IdcodeRead DEF J, Read
<1>9. CASE Restart
  <2>1. j.pioOk \in BOOLEAN
    BY <1>0 DEF Wires
  <2> QED
    BY <1>0, <1>9, <2>1, PoweredType, RestartedType DEF Restart
<1>10. CASE UNCHANGED vars
  BY <1>0, <1>10 DEF vars
<1> QED
  BY <1>1, <1>2, <1>3, <1>4, <1>5, <1>6, <1>7, <1>8, <1>9, <1>10 DEF Next

(***************************************************************************)
(* The packets of the host                                                 *)
(***************************************************************************)
LEMMA ShortHead ==
  ASSUME NEW t \in Seq(Byte), NEW n \in 0 .. Len(t)
  PROVE  /\ SubSeq(t, 1, n) \in Seq(Byte) /\ Len(SubSeq(t, 1, n)) = n
         /\ Keep(t, n) \in Seq(Byte) /\ Len(Keep(t, n)) = Len(t) - n
         /\ SubSeq(t, 1, n) \o Keep(t, n) = t
<1>1. n \in Nat /\ n <= Len(t) /\ Len(t) \in Nat /\ n + 1 \in Nat \ {0}
  OBVIOUS
<1>2. SubSeq(t, 1, n) \in Seq(Byte) /\ Len(SubSeq(t, 1, n)) = n
  BY <1>1, SliceType
<1>3. SubSeq(t, n + 1, Len(t)) \in Seq(Byte) /\ Len(SubSeq(t, n + 1, Len(t))) = Len(t) - n
  <2>1. SubSeq(t, n + 1, Len(t)) \in Seq(Byte)
        /\ Len(SubSeq(t, n + 1, Len(t))) = IF n + 1 <= Len(t) THEN Len(t) - (n + 1) + 1 ELSE 0
    BY <1>1, SliceType
  <2> QED
    BY <1>1, <2>1
<1>4. SubSeq(t, 1, n) \o SubSeq(t, n + 1, Len(t)) = SubSeq(t, 1, Len(t))
  <2>1. 1 \in 1 .. Len(t) + 1 /\ n \in 1 - 1 .. Len(t) /\ Len(t) \in n .. Len(t)
    BY <1>1
  <2> QED
    BY <2>1, ConcatAdjacentSubSeq
<1>5. SubSeq(t, 1, Len(t)) = t
  BY SubSeqFull
<1> QED
  BY <1>2, <1>3, <1>4, <1>5 DEF Keep

LEMMA VendorUsb == ASSUME ConfigInv, blaster_vendor_task PROVE UsbInv'
<1> DEFINE s == TakePackets
           n == Upto(s.tx, Packet - 2)
<1>0. j \in Wires /\ UsbInv
  BY DEF ConfigInv
<1>1. /\ s \in Taking /\ s.tx = tx \o s.new /\ Len(s.tx) <= 2 * Packet /\ Len(s.left) <= Len(queue)
  BY <1>0, VendorTakes
<1>2. SendPacket(s, n) /\ UNCHANGED <<script, got>>
  BY DEF blaster_vendor_task, SentNow
<1> HIDE DEF s, n
<1>3. s.tx \in Seq(Byte) /\ s.left \in Seq(Pkts) /\ s.new \in Seq(Byte) /\ Len(s.tx) \in Nat /\ Packet \in 3 .. 64
  <2>1. s.tx \in Seq(Byte) /\ s.left \in Seq(Pkts) /\ s.new \in Seq(Byte)
    BY <1>1 DEF Taking
  <2>2. Len(s.tx) \in Nat
    BY <2>1
  <2> QED
    BY <2>1, <2>2, FpgaAssumption
<1>4. n \in 0 .. Len(s.tx) /\ n <= Packet - 2
  BY <1>3 DEF n, Upto
<1>5. /\ queue' = s.left /\ answers' = answers \o s.new /\ script' = script /\ got' = got
      /\ IF flight = <<>> THEN flight' = SubSeq(s.tx, 1, n) /\ tx' = Keep(s.tx, n)
         ELSE tx' = s.tx /\ flight' = flight
  BY <1>2 DEF SendPacket
<1>6. /\ script' \in Seq(Pkts) /\ queue' \in Seq(Pkts) /\ Len(queue') <= QueuePackets /\ got' \in Seq(Byte)
  <2>1. Len(queue) \in Nat /\ Len(s.left) \in Nat /\ QueuePackets \in Nat
    BY <1>0, <1>3, FpgaAssumption DEF UsbInv
  <2> QED
    BY <1>0, <1>1, <1>3, <1>5, <2>1 DEF UsbInv
<1> DEFINE add == s.new
<1>7. answers' = got \o flight \o (tx \o add) /\ answers' \in Seq(Byte)
  <2>1. add \in Seq(Byte) /\ got \in Seq(Byte) /\ flight \in Seq(Byte) /\ tx \in Seq(Byte)
        /\ answers = got \o flight \o tx /\ answers' = answers \o add
    BY <1>0, <1>3, <1>5 DEF UsbInv
  <2> HIDE DEF add
  <2>2. got \o flight \in Seq(Byte) /\ answers \in Seq(Byte)
    BY <2>1, Joined
  <2>3. ((got \o flight) \o tx) \o add = (got \o flight) \o (tx \o add)
    BY <2>1, <2>2, Regroup
  <2> QED
    BY <2>1, <2>2, <2>3, Joined
<1>8. CASE flight = <<>>
  <2> DEFINE out == SubSeq(s.tx, 1, n)
             rest == Keep(s.tx, n)
  <2>1. out \in Seq(Byte) /\ Len(out) = n /\ rest \in Seq(Byte) /\ Len(rest) = Len(s.tx) - n /\ out \o rest = s.tx
    BY <1>3, <1>4, ShortHead
  <2>2. flight' = out /\ tx' = rest
    BY <1>5, <1>8
  <2> HIDE DEF out, rest, add
  <2>3. Len(tx') <= 2 * Packet /\ Len(flight') <= Packet - 2
    <3>1. \A a, b, p \in Nat : (a <= p /\ b <= a) => a - b <= p
      OBVIOUS
    <3>2. n \in Nat /\ n <= Len(s.tx) /\ 2 * Packet \in Nat
      BY <1>3, <1>4
    <3>3. Len(s.tx) - n <= 2 * Packet
      BY <1>1, <1>3, <3>1, <3>2
    <3> QED
      BY <1>4, <2>1, <2>2, <3>3
  <2>4. got \in Seq(Byte) /\ got \o <<>> = got
    BY <1>0, ConcatEmptySeq DEF UsbInv
  <2>5. (got \o out) \o rest = got \o (out \o rest)
    BY <2>1, <2>4, Regroup
  <2>6. answers' = got' \o flight' \o tx'
    <3>1. answers' = got \o s.tx
      BY <1>1, <1>7, <1>8, <2>4 DEF add
    <3> QED
      BY <1>5, <2>1, <2>2, <2>5, <3>1
  <2> QED
    BY <1>6, <1>7, <2>1, <2>2, <2>3, <2>6 DEF UsbInv
<1>9. CASE flight # <<>>
  <2>1. tx' = s.tx /\ flight' = flight
    BY <1>5, <1>9
  <2>2. answers' = got' \o flight' \o tx'
    BY <1>1, <1>5, <1>7, <2>1
  <2>3. flight \in Seq(Byte) /\ Len(flight) <= Packet - 2
    BY <1>0 DEF UsbInv
  <2> QED
    BY <1>1, <1>3, <1>6, <1>7, <2>1, <2>2, <2>3 DEF UsbInv
<1> QED
  BY <1>8, <1>9

LEMMA UsbStep == ASSUME ConfigInv, [Next]_vars PROVE UsbInv'
<1>0. UsbInv
  BY DEF ConfigInv
<1>1. CASE UNCHANGED usb
  BY <1>0, <1>1 DEF usb, UsbInv
<1>2. CASE HostOpen
  <2>1. script' \in Seq(Pkts)
    BY <1>2, SessionType, SentImageType, PacketsType DEF HostOpen
  <2> QED
    BY <1>0, <1>2, <2>1 DEF HostOpen, UsbInv
<1>3. CASE HostSend
  <2>1. script # <<>> /\ Len(queue) < QueuePackets /\ queue' = Append(queue, Head(script)) /\ script' = Tail(script)
        /\ UNCHANGED <<tx, flight, got, answers>>
    BY <1>3 DEF HostSend
  <2>2. script \in Seq(Pkts) /\ queue \in Seq(Pkts) /\ QueuePackets \in Nat
    BY <1>0, FpgaAssumption DEF UsbInv
  <2>3. Head(script) \in Pkts /\ Tail(script) \in Seq(Pkts)
    BY <2>1, <2>2, HeadTailProperties
  <2>4. Append(queue, Head(script)) \in Seq(Pkts) /\ Len(Append(queue, Head(script))) = Len(queue) + 1
    BY <2>2, <2>3, AppendProperties
  <2>5. Len(queue') <= QueuePackets
    <3>1. Len(queue) \in Nat
      BY <2>2
    <3> QED
      BY <2>1, <2>2, <2>4, <3>1
  <2> QED
    BY <1>0, <2>1, <2>3, <2>4, <2>5 DEF UsbInv
<1>4. CASE HostRead
  <2>1. got' = got \o flight /\ flight' = <<>> /\ UNCHANGED <<script, queue, tx, answers>>
    BY <1>4 DEF HostRead
  <2>2. got \in Seq(Byte) /\ flight \in Seq(Byte) /\ tx \in Seq(Byte) /\ answers = got \o flight \o tx
    BY <1>0 DEF UsbInv
  <2>3. got \o flight \in Seq(Byte) /\ (got \o flight) \o <<>> = got \o flight
    BY <2>2, Joined, ConcatEmptySeq
  <2>4. answers' = got' \o flight' \o tx'
    BY <2>1, <2>2, <2>3
  <2>5. flight' \in Seq(Byte) /\ Len(flight') <= Packet - 2
    BY <2>1, FpgaAssumption
  <2> QED
    BY <1>0, <2>1, <2>3, <2>4, <2>5 DEF UsbInv
<1>5. CASE Unplug \/ Restart
  <2>1. /\ script' = <<>> /\ queue' = <<>> /\ tx' = <<>> /\ flight' = <<>> /\ got' = <<>> /\ answers' = <<>>
        /\ QueuePackets \in Nat /\ Packet \in 3 .. 64
    BY <1>5, FpgaAssumption DEF Unplug, Restart
  <2>2. <<>> \o <<>> \o <<>> = <<>> /\ <<>> \in Seq(Byte)
    OBVIOUS
  <2> QED
    BY <2>1, <2>2 DEF UsbInv
<1>6. CASE blaster_vendor_task
  BY <1>6, VendorUsb
<1>7. CASE StageSkipped \/ StageCheck \/ StageErase \/ StageSector \/ StageReadFails \/ StageHeader
  BY <1>1, <1>7 DEF StageSkipped, StageCheck, StageErase, StageSector, StageReadFails, StageHeader
<1>8. CASE Configure \/ Stream \/ F \/ J \/ NewImage \/ RemoveImage
  BY <1>1, <1>8 DEF Configure, Stream, F, J, NewImage, RemoveImage
<1>9. CASE UNCHANGED vars
  BY <1>1, <1>9 DEF vars, usb
<1> QED
  BY <1>2, <1>3, <1>4, <1>5, <1>6, <1>7, <1>8, <1>9 DEF Next

(***************************************************************************)
(* Staging                                                                 *)
(***************************************************************************)
LEMMA CheckStages == ASSUME StageInv, StageCheck PROVE StageInv'
<1>1. /\ phase = "stage" /\ UNCHANGED <<board, card, ops, flash, written, home>>
  BY DEF StageCheck
<1>2. CASE card = NoCard
  <2>1. phase' = "config" /\ g_fpga_staged' = fpga_staged_len(flash)
    BY <1>2 DEF StageCheck
  <2>2. fpga_staged_len(flash) \in 0 .. StageMax
    BY StagedType DEF StageInv
  <2> QED
    BY <1>1, <2>1, <2>2 DEF StageInv
<1>3. CASE card # NoCard /\ Unchanged(flash, Size(card.file), card.mtime)
  <2>1. phase' = "config" /\ g_fpga_staged' = Size(card.file)
    BY <1>3 DEF StageCheck
  <2>2. fpga_staged_len(flash) = Size(card.file) /\ fpga_staged_len(flash) \in 0 .. StageMax
    BY <1>3, StagedType DEF Unchanged, StageInv
  <2> QED
    BY <1>1, <2>1, <2>2 DEF StageInv
<1>4. CASE card # NoCard /\ ~Unchanged(flash, Size(card.file), card.mtime)
  <2>1. g_fpga_staged' = 0 /\ phase' = IF Size(card.file) \in 1..StageMax THEN "erase" ELSE "config"
    BY <1>4 DEF StageCheck
  <2>2. home # card /\ card \in Cards /\ 0 \in 0 .. StageMax
    BY <1>4, StageAssumption DEF StageInv
  <2>3. phase' \in {"erase", "config"} /\ (phase' = "erase" => Size(card.file) \in 1 .. StageMax)
    BY <2>1
  <2> QED
    BY <1>1, <2>1, <2>2, <2>3 DEF StageInv
<1> QED
  BY <1>2, <1>3, <1>4

LEMMA EraseStages == ASSUME StageInv, StageErase PROVE StageInv'
<1>1. /\ phase = "erase" /\ flash' = Erase(flash, Size(card.file)) /\ phase' = "program" /\ written' = 0
      /\ home' = NoCard /\ UNCHANGED <<board, card, g_fpga_staged, ops>>
  BY DEF StageErase
<1>2. card \in Cards /\ Size(card.file) \in 1 .. StageMax /\ g_fpga_staged = 0 /\ flash \in Flashes /\ StageMax \in Nat
  BY <1>1, StageAssumption DEF StageInv
<1>3. flash' \in Flashes /\ 0 \in 0 .. StageMax
  BY <1>1, <1>2, EraseType
<1>4. HalfStaged'
  <2> DEFINE n == Size(card.file)
  <2>1. n \in 1 .. StageMax /\ n \in Nat /\ n' = n
    BY <1>1, <1>2 DEF Size
  <2>2. n <= EraseLen(n) /\ EraseLen(n) \in Nat
    BY <2>1, EraseCovers
  <2>3. \A i \in 1 .. n : i \in 1 .. StageMax /\ i <= EraseLen(n)
    BY <1>2, <2>1, <2>2
  <2>4. flash' = Erase(flash, n)
    BY <1>1
  <2> HIDE DEF n
  <2>5. \A i \in 1 .. n : flash'.data[i] = 255
    BY <2>3, <2>4 DEF Erase
  <2>6. written' <= n /\ \A i \in 1 .. n : ~(i <= written')
    BY <1>1, <2>1
  <2> QED
    BY <2>1, <2>5, <2>6 DEF HalfStaged, n
<1> QED
  BY <1>1, <1>2, <1>3, <1>4 DEF StageInv

LEMMA SectorStages == ASSUME StageInv, StageSector PROVE StageInv'
<1> DEFINE n == Size(card.file)
           b == CardBytes
           to == Upto(b, written + FlashSector)
           next == NextSector
<1>1. /\ phase = "program" /\ written < n /\ flash' = Program(flash, written, next)
      /\ written' = written + Len(next)
      /\ UNCHANGED <<board, phase, card, g_fpga_staged, home, ops>>
  BY DEF StageSector
<1>2. /\ card \in Cards /\ card.file \in Files /\ n \in 1 .. StageMax /\ g_fpga_staged = 0 /\ flash \in Flashes
      /\ home = NoCard /\ HalfStaged /\ StageMax \in Nat /\ written \in Nat
  BY <1>1, StageAssumption DEF StageInv, Cards
<1>3. b \in Seq(Byte) /\ n = Len(b) /\ n \in Nat /\ FlashSector \in Nat \ {0}
  BY <1>2, FileType, StageAssumption DEF CardBytes
<1>4. n' = n /\ b' = b
  BY <1>1 DEF CardBytes, Size
<1>5. next = SubSeq(b, written + 1, to)
  BY DEF NextSector
<1>6. \A i \in 1 .. n : flash.data[i] = IF i <= written THEN b[i] ELSE 255
  BY <1>2 DEF HalfStaged
<1> HIDE DEF b, n, next
<1>7. to \in Nat /\ to <= n /\ written + 1 <= to
  BY <1>1, <1>2, <1>3 DEF Upto
<1> HIDE DEF to
<1>8. \A i \in 1 .. n : b[i] \in Byte
  BY <1>3, ElementOfSeq
<1>9. /\ next \in Seq(Byte) /\ Len(next) = to - written
      /\ \A i \in 1 .. to - written : next[i] = b[written + i]
  <2>1. \A i \in (written + 1) .. to : i \in 1 .. n
    BY <1>2, <1>3, <1>7
  <2>2. \A i \in (written + 1) .. to : b[i] \in Byte
    BY <1>8, <2>1
  <2>3. /\ next \in Seq(Byte)
        /\ Len(next) = IF written + 1 <= to THEN to - (written + 1) + 1 ELSE 0
        /\ \A i \in 1 .. to - (written + 1) + 1 : next[i] = b[(written + 1) + i - 1]
    <3>1. written + 1 \in Int /\ to \in Int
      BY <1>2, <1>7
    <3> DEFINE m == written + 1
    <3>2. m \in Int /\ \A i \in m .. to : b[i] \in Byte
      BY <2>2, <3>1
    <3>3. next = SubSeq(b, m, to)
      BY <1>5
    <3> HIDE DEF m
    <3>4. /\ next \in Seq(Byte)
          /\ Len(next) = IF m <= to THEN to - m + 1 ELSE 0
          /\ \A i \in 1 .. to - m + 1 : next[i] = b[m + i - 1]
      BY <3>1, <3>2, <3>3, SubSeqProperties
    <3> QED
      BY <3>4 DEF m
  <2>4. to - (written + 1) + 1 = to - written /\ \A i \in 1 .. to - written : (written + 1) + i - 1 = written + i
    BY <1>2, <1>7
  <2> QED
    BY <1>7, <2>3, <2>4
<1>10. written' = to
  BY <1>1, <1>2, <1>7, <1>9
<1>11. /\ flash' \in Flashes
       /\ \A i \in 1 .. StageMax : flash'.data[i] =
            IF i \in (written + 1) .. (written + Len(next)) THEN ByteAnd(flash.data[i], next[i - written]) ELSE flash.data[i]
  <2>1. flash \in Flashes /\ written \in Nat /\ next \in Seq(Byte)
    BY <1>2, <1>9
  <2> DEFINE p == Program(flash, written, next)
  <2>2. /\ p \in Flashes
        /\ \A i \in 1 .. StageMax : p.data[i] =
             IF i \in (written + 1) .. (written + Len(next)) THEN ByteAnd(flash.data[i], next[i - written]) ELSE flash.data[i]
    BY <2>1, ProgramType
  <2>3. flash' = p
    BY <1>1
  <2> HIDE DEF p
  <2> QED
    BY <2>2, <2>3
<1>12. ASSUME NEW i \in 1 .. n PROVE flash'.data[i] = IF i <= to THEN b[i] ELSE 255
  <2>1. i \in 1 .. StageMax
    BY <1>2, <1>3
  <2>2. written + Len(next) = to
    BY <1>2, <1>7, <1>9
  <2>3. CASE i \in (written + 1) .. to
    <3>1. flash'.data[i] = ByteAnd(flash.data[i], next[i - written])
      BY <1>11, <2>1, <2>2, <2>3
    <3>2. ~(i <= written) /\ i <= to
      BY <1>2, <1>7, <2>3
    <3>3. flash.data[i] = 255
      BY <1>6, <3>2
    <3>4. i - written \in 1 .. to - written /\ written + (i - written) = i
      BY <1>2, <1>7, <2>3
    <3>5. next[i - written] = b[i] /\ b[i] \in Byte
      BY <1>8, <1>9, <3>4
    <3>6. ByteAnd(255, b[i]) = b[i]
      BY <3>5, ByteAndErased
    <3> QED
      BY <3>1, <3>2, <3>3, <3>5, <3>6
  <2>4. CASE i \notin (written + 1) .. to
    <3>1. flash'.data[i] = flash.data[i]
      BY <1>11, <2>1, <2>2, <2>4
    <3>2. (i <= written) <=> (i <= to)
      BY <1>2, <1>3, <1>7, <2>4
    <3> QED
      BY <1>6, <3>1, <3>2
  <2> QED
    BY <2>3, <2>4
<1>13. HalfStaged'
  <2>1. written' <= n' /\ \A i \in 1 .. n' : flash'.data[i] = IF i <= written' THEN b'[i] ELSE 255
    BY <1>4, <1>7, <1>10, <1>12
  <2> QED
    BY <2>1 DEF HalfStaged, n, b
<1>14. written' \in 0 .. StageMax
  BY <1>2, <1>7, <1>10
<1>15. n' \in 1 .. StageMax
  BY <1>2, <1>4
<1> QED
  BY <1>1, <1>2, <1>11, <1>13, <1>14, <1>15 DEF StageInv, n

LEMMA HeaderStages == ASSUME StageInv, StageHeader PROVE StageInv'
<1>1. /\ phase = "program" /\ written = Size(card.file) /\ phase' = "config"
      /\ flash' = ProgramHeader(flash, Size(card.file), Sum(CardBytes), card.mtime)
      /\ g_fpga_staged' = Size(card.file) /\ home' = card
      /\ UNCHANGED <<board, card, written, ops>>
  BY DEF StageHeader
<1>2. /\ card \in Cards /\ card.file \in Files /\ card.mtime \in Nat /\ Size(card.file) \in 1 .. StageMax
      /\ flash \in Flashes /\ HalfStaged /\ StageMax \in Nat
  BY <1>1, StageAssumption, FpgaAssumption DEF StageInv, Cards
<1>3. \A i \in 1 .. Size(card.file) : flash.data[i] = FileBytes[card.file][i]
  BY <1>1, <1>2 DEF HalfStaged, CardBytes
<1>4. flash' \in Flashes /\ fpga_staged_len(flash') = Size(card.file)
      /\ Unchanged(flash', Size(card.file), card.mtime)
  BY <1>1, <1>2, <1>3, HeaderVouches DEF CardBytes
<1>5. Size(card.file) \in 0 .. StageMax /\ Unchanged(flash', Size(card'.file), card'.mtime)
  BY <1>1, <1>2, <1>4
<1> QED
  BY <1>1, <1>2, <1>4, <1>5 DEF StageInv

LEMMA RestartStages == ASSUME StageInv, Restart PROVE StageInv'
<1>1. /\ ops < MaxOps /\ ops' = ops + 1 /\ g_fpga_staged' = 0 /\ written' = 0
      /\ phase' = (IF board = "wukong" THEN "stream" ELSE "stage")
      /\ home' = IF phase = "erase" THEN NoCard ELSE home
      /\ UNCHANGED <<board, card>>
  BY DEF Restart
<1>2. flash \in Flashes /\ StageMax \in Nat /\ MaxOps \in Nat /\ ops \in 0 .. MaxOps
  BY StageAssumption, FpgaAssumption DEF StageInv
<1>3. flash' \in Flashes /\ (home' # NoCard => flash' = flash)
  <2>1. CASE phase = "erase"
    <3>1. card \in Cards /\ Size(card.file) \in Nat
      BY <1>2, <2>1 DEF StageInv
    <3>2. flash' \in TornErase(flash, Size(card.file))
      BY <2>1 DEF Restart
    <3> QED
      BY <1>1, <1>2, <2>1, <3>1, <3>2, EraseType
  <2>2. CASE phase = "program" /\ written < Size(card.file)
    <3>1. flash' \in TornProgram(flash, written, NextSector)
      BY <2>2 DEF Restart
    <3>2. card.file \in Files /\ written \in Nat /\ home = NoCard
      BY <2>2, StageAssumption DEF StageInv, Cards
    <3>3. CardBytes \in Seq(Byte) /\ FlashSector \in Nat
      BY <3>2, FileType, StageAssumption DEF CardBytes
    <3>4. NextSector \in Seq(Byte)
      <4>1. Upto(CardBytes, written + FlashSector) \in Nat
            /\ Upto(CardBytes, written + FlashSector) <= Len(CardBytes) /\ written + 1 \in Nat \ {0}
        BY <3>2, <3>3 DEF Upto
      <4> QED
        BY <3>3, <4>1, SliceType DEF NextSector
    <3>5. flash' \in Flashes
      BY <1>2, <3>1, <3>2, <3>4, TornProgramType
    <3> QED
      BY <1>1, <3>2, <3>5
  <2>3. CASE ~(phase = "erase") /\ ~(phase = "program" /\ written < Size(card.file))
    <3>1. flash' = flash
      BY <2>3 DEF Restart
    <3> QED
      BY <1>2, <3>1
  <2> QED
    BY <2>1, <2>2, <2>3
<1>4. ops' \in 0 .. MaxOps /\ 0 \in 0 .. StageMax
  BY <1>1, <1>2
<1>5. home' \in {NoCard} \cup Cards /\ (home' # NoCard => home' = home /\ home # NoCard)
  BY <1>1 DEF StageInv
<1>6. home' # NoCard => Unchanged(flash', Size(home'.file), home'.mtime)
  BY <1>3, <1>5 DEF StageInv
<1>7. phase' \in {"stage", "stream"} /\ board' \in {"qmtech", "wukong"} /\ card' \in {NoCard} \cup Cards
  BY <1>1 DEF StageInv
<1> QED
  BY <1>1, <1>3, <1>4, <1>5, <1>6, <1>7 DEF StageInv

LEMMA StageStep == ASSUME ConfigInv, [Next]_vars PROVE StageInv'
<1>0. StageInv /\ MaxOps \in Nat
  BY FpgaAssumption DEF ConfigInv
<1>1. CASE StageSkipped \/ StageReadFails
  <2>1. /\ phase \in {"stage", "program"} /\ phase' = "config" /\ ops < MaxOps /\ ops' = ops + 1
        /\ UNCHANGED <<board, card, flash, written, g_fpga_staged, home>>
    BY <1>1 DEF StageSkipped, StageReadFails, stage
  <2>2. g_fpga_staged = 0 /\ ops' \in 0 .. MaxOps
    BY <1>0, <2>1 DEF StageInv
  <2> QED
    BY <1>0, <2>1, <2>2 DEF StageInv
<1>2. CASE StageCheck
  BY <1>0, <1>2, CheckStages
<1>3. CASE StageErase
  BY <1>0, <1>3, EraseStages
<1>4. CASE StageSector
  BY <1>0, <1>4, SectorStages
<1>5. CASE StageHeader
  BY <1>0, <1>5, HeaderStages
<1>6. CASE Restart
  BY <1>0, <1>6, RestartStages
<1>7. CASE Configure \/ Stream
  <2>1. /\ phase' = "run" /\ UNCHANGED <<board, card, flash, written, g_fpga_staged, home>>
    BY <1>7 DEF Configure, Stream, stage
  <2>2. ops' \in 0 .. MaxOps
    <3>1. CASE ops' = ops
      BY <1>0, <3>1 DEF StageInv
    <3>2. CASE ops' # ops
      <4>1. card # NoCard /\ \E good \in Readable(CardBytes) : Faults(good)
        BY <1>7, <3>2 DEF Configure, Stream
      <4>2. PICK good \in Readable(CardBytes) : Faults(good)
        BY <4>1
      <4>3. ops' = ops + (IF good < Size(card.file) THEN 1 ELSE 0) /\ ops \in 0 .. MaxOps
        BY <1>0, <4>2 DEF Faults, StageInv
      <4>4. good < Size(card.file) /\ ops' = ops + 1
        BY <3>2, <4>3
      <4>5. CardBytes \in Seq(Byte) /\ Size(card.file) = Len(CardBytes) /\ Size(card.file) \in Nat
        BY <1>0, <4>1, CardBytesType
      <4>6. good # Len(CardBytes)
        BY <4>4, <4>5, ReadableType
      <4>7. ops < MaxOps
        BY <4>6 DEF Readable
      <4>8. \A k \in 0 .. MaxOps : k < MaxOps => k + 1 \in 0 .. MaxOps
        BY <1>0
      <4>9. ops + 1 \in 0 .. MaxOps
        BY <4>3, <4>7, <4>8
      <4> QED
        BY <4>4, <4>9
    <3> QED
      BY <3>1, <3>2
  <2> QED
    BY <1>0, <2>1, <2>2 DEF StageInv
<1>8. CASE HostOpen \/ Unplug \/ F \/ J
  <2>1. /\ phase = "run" /\ ops < MaxOps /\ ops' = ops + 1
        /\ UNCHANGED <<board, phase, card, flash, written, g_fpga_staged, home>>
    BY <1>8 DEF HostOpen, Unplug, F, J, Env, stage
  <2>2. ops' \in 0 .. MaxOps
    BY <1>0, <2>1 DEF StageInv
  <2> QED
    BY <1>0, <2>1, <2>2 DEF StageInv
<1>9. CASE HostSend \/ HostRead \/ blaster_vendor_task
  <2>1. UNCHANGED <<board, phase, card, flash, written, g_fpga_staged, home, ops>>
    BY <1>9 DEF HostSend, HostRead, blaster_vendor_task, stage
  <2> QED
    BY <1>0, <2>1 DEF StageInv, HalfStaged, CardBytes
<1>10. CASE NewImage \/ RemoveImage
  <2>1. /\ phase = "run" /\ ops < MaxOps /\ ops' = ops + 1
        /\ UNCHANGED <<board, phase, flash, written, g_fpga_staged, home>>
    BY <1>10 DEF NewImage, RemoveImage, Env, stage
  <2>2. ops' \in 0 .. MaxOps
    BY <1>0, <2>1 DEF StageInv
  <2>3. card' \in {NoCard} \cup Cards
    <3>1. CASE RemoveImage
      BY <3>1 DEF RemoveImage
    <3>2. CASE NewImage
      <4>1. PICK file \in Files, t \in {0, ops + 2} : card' = [file |-> file, mtime |-> t]
        BY <3>2 DEF NewImage
      <4>2. t \in 0 .. (MaxOps + 1)
        BY <1>0, <2>1, <4>1 DEF StageInv
      <4> QED
        BY <4>1, <4>2 DEF Cards
    <3> QED
      BY <1>10, <3>1, <3>2
  <2> QED
    BY <1>0, <2>1, <2>2, <2>3 DEF StageInv
<1>11. CASE UNCHANGED vars
  BY <1>0, <1>11 DEF vars, StageInv, HalfStaged, CardBytes
<1> QED
  BY <1>1, <1>2, <1>3, <1>4, <1>5, <1>6, <1>7, <1>8, <1>9, <1>10, <1>11 DEF Next

(***************************************************************************)
(* What the region's header vouches for                                    *)
(*                                                                         *)
(* The sum of the bytes is weak, but it is enough: behind a header there   *)
(* are only the bytes of the file it was written for, or ones erased since *)
(* (255), and erasing any other byte than 255 raises the sum.              *)
(***************************************************************************)
LEMMA SumLoop ==
  ASSUME NEW a \in Seq(Byte)
  PROVE  \E u \in [0 .. Len(a) -> Nat] :
           /\ Sum(a) = u[Len(a)] /\ u[0] = 0
           /\ \A i \in 1 .. Len(a) : u[i] = u[i - 1] + a[i]
<1> DEFINE n == Len(a)
           upto == CHOOSE h : h = [i \in 0 .. Len(a) |-> IF i = 0 THEN 0 ELSE h[i - 1] + a[i]]
<1>1. Sum(a) = upto[n]
  BY DEF Sum
<1>2. n \in Nat /\ \A i \in 1 .. n : a[i] \in Nat
  <2>1. \A i \in 1 .. Len(a) : a[i] \in Byte
    BY ElementOfSeq
  <2>2. Len(a) \in Nat /\ \A e \in Byte : e \in Nat
    BY DEF Byte
  <2> QED
    BY <2>1, <2>2
<1>3. upto = [i \in 0 .. n |-> IF i = 0 THEN 0 ELSE upto[i - 1] + a[i]]
  <2> DEFINE g == [p \in Nat \X (1 .. n) |-> p[1] + a[p[2]]]
  <2> HIDE DEF n
  <2>1. g \in Steps(Nat, n)
    BY <1>2 DEF Steps
  <2> HIDE DEF g
  <2>2. PICK f : IsLoop(f, Nat, 0, g, n)
    BY <1>2, <2>1, LoopExists
  <2>3. f \in [0 .. n -> Nat] /\ f[0] = 0
    BY <2>2 DEF IsLoop
  <2>4. ASSUME NEW i \in 1 .. n PROVE f[i] = f[i - 1] + a[i]
    <3>1. f[i] = g[<<f[i - 1], i>>] /\ f[i - 1] \in Nat
      BY <1>2, <2>2, <2>3 DEF IsLoop
    <3> QED
      BY <3>1 DEF g
  <2>5. ASSUME NEW i \in 0 .. n PROVE f[i] = IF i = 0 THEN 0 ELSE f[i - 1] + a[i]
    BY <1>2, <2>3, <2>4
  <2>6. f = [i \in 0 .. n |-> IF i = 0 THEN 0 ELSE f[i - 1] + a[i]]
    BY <2>3, <2>5
  <2> QED
    BY <2>6 DEF n
<1> HIDE DEF upto, n
<1> DEFINE T == [i \in 0 .. n |-> Nat]
<1>4. upto[0] \in T[0]
  BY <1>2, <1>3
<1>5. ASSUME NEW i \in 1 .. n, upto[i - 1] \in T[i - 1] PROVE upto[i] \in T[i]
  BY <1>2, <1>3, <1>5
<1> HIDE DEF T
<1>6. \A i \in 0 .. n : upto[i] \in T[i]
  BY <1>2, <1>4, <1>5, LoopKeeps
<1>7. upto \in [0 .. n -> Nat]
  BY <1>3, <1>6 DEF T
<1>8. upto[0] = 0 /\ \A i \in 1 .. n : upto[i] = upto[i - 1] + a[i]
  BY <1>2, <1>3
<1> QED
  BY <1>1, <1>7, <1>8 DEF n

\* Bytes that are all at least those of another string, and no more in sum, are those.
LEMMA SumTells ==
  ASSUME NEW a \in Seq(Byte), NEW b \in Seq(Byte), Len(a) = Len(b),
         \A i \in 1 .. Len(a) : a[i] <= b[i], Sum(a) = Sum(b)
  PROVE  a = b
<1> DEFINE n == Len(a)
<1>1. PICK u \in [0 .. n -> Nat] : Sum(a) = u[n] /\ u[0] = 0 /\ \A i \in 1 .. n : u[i] = u[i - 1] + a[i]
  BY SumLoop
<1>2. PICK v \in [0 .. n -> Nat] : Sum(b) = v[n] /\ v[0] = 0 /\ \A i \in 1 .. n : v[i] = v[i - 1] + b[i]
  BY SumLoop
<1>3. n \in Nat /\ \A i \in 1 .. n : a[i] \in Nat /\ b[i] \in Nat /\ a[i] <= b[i]
  <2>1. (\A i \in 1 .. Len(a) : a[i] \in Byte) /\ \A i \in 1 .. Len(b) : b[i] \in Byte
    BY ElementOfSeq
  <2>2. Len(a) \in Nat /\ \A e \in Byte : e \in Nat
    BY DEF Byte
  <2> QED
    BY <2>1, <2>2
<1> HIDE DEF n
<1> DEFINE f == [i \in 0 .. n |-> <<u[i], v[i]>>]
           T == [i \in 0 .. n |-> {p \in Nat \X Nat : p[1] <= p[2] /\ (p[1] = p[2] => \A k \in 1 .. i : a[k] = b[k])}]
<1>4. f[0] \in T[0]
  BY <1>1, <1>2, <1>3
<1>5. ASSUME NEW i \in 1 .. n, f[i - 1] \in T[i - 1] PROVE f[i] \in T[i]
  <2> DEFINE h == i - 1
  <2>1. i \in 0 .. n /\ h \in 0 .. n
    BY <1>3
  <2>2. f[h] = <<u[h], v[h]>> /\ f[i] = <<u[i], v[i]>>
    BY <2>1
  <2>3. <<u[h], v[h]>> \in {p \in Nat \X Nat : p[1] <= p[2] /\ (p[1] = p[2] => \A k \in 1 .. h : a[k] = b[k])}
    BY <1>5, <2>1, <2>2
  <2>4. u[h] \in Nat /\ v[h] \in Nat /\ u[h] <= v[h] /\ (u[h] = v[h] => \A k \in 1 .. h : a[k] = b[k])
    BY <2>3
  <2>5. u[i] = u[h] + a[i] /\ v[i] = v[h] + b[i] /\ a[i] \in Nat /\ b[i] \in Nat /\ a[i] <= b[i]
    BY <1>1, <1>2, <1>3
  <2>6. \A p, q, r, s \in Nat : p <= q /\ r <= s => p + r \in Nat /\ q + s \in Nat /\ p + r <= q + s /\ (p + r = q + s => p = q /\ r = s)
    OBVIOUS
  <2> HIDE DEF f
  <2>7. \A k \in 1 .. i : k = i \/ k \in 1 .. h
    BY <1>3
  <2> HIDE DEF h
  <2>8. u[i] \in Nat /\ v[i] \in Nat /\ u[i] <= v[i] /\ (u[i] = v[i] => u[h] = v[h] /\ a[i] = b[i])
    BY <2>4, <2>5, <2>6
  <2>9. u[i] = v[i] => \A k \in 1 .. i : a[k] = b[k]
    BY <2>4, <2>7, <2>8
  <2> QED
    BY <2>1, <2>2, <2>8, <2>9
<1> HIDE DEF f, T
<1>6. \A i \in 0 .. n : f[i] \in T[i]
  BY <1>3, <1>4, <1>5, LoopKeeps
<1>7. n \in 0 .. n /\ u[n] = v[n]
  <2>1. n \in 0 .. n
    BY <1>3
  <2>2. u[n] = v[n]
    BY <1>1, <1>2
  <2> QED
    BY <2>1, <2>2
<1>8. \A k \in 1 .. n : a[k] = b[k]
  BY <1>6, <1>7 DEF f, T
<1> QED
  BY <1>8, SeqEqual DEF n

\* A header, the file it was written for, and what is behind it.
Behind(f, file) ==
  /\ f.hdr.len = Size(file) /\ f.hdr.sum = Sum(FileBytes[file]) /\ Size(file) \in 1 .. StageMax
  /\ \A i \in 1 .. Size(file) : f.data[i] \in {FileBytes[file][i], 255}

\* Erasing keeps what is behind a header of that kind.
LEMMA ErasedBehind ==
  ASSUME NEW f \in Flashes, NEW file \in Files, Behind(f, file), NEW n \in Nat,
         NEW t \in TornErase(f, n), t.hdr.magic
  PROVE  Behind(t, file) /\ t.hdr = f.hdr
<1>1. PICK keep \in BOOLEAN, kept \in SUBSET (0..((StageMax - 1) \div FlashSector)) :
        t = [hdr |-> IF keep THEN f.hdr ELSE NoHeader,
             data |-> [i \in 1..StageMax |->
              IF i <= EraseLen(n) /\ ((i - 1) \div FlashSector) \notin kept
              THEN 255 ELSE f.data[i]]]
  BY DEF TornErase
<1>2. t.hdr = f.hdr
  BY <1>1 DEF NoHeader
<1>3. \A i \in 1 .. StageMax : t.data[i] \in {f.data[i], 255}
  BY <1>1
<1>4. \A i \in 1 .. Size(file) : i \in 1 .. StageMax
  BY StageAssumption DEF Behind
<1> QED
  BY <1>2, <1>3, <1>4 DEF Behind

\* What a header with its sum vouches for is the file.
LEMMA VouchedIsFile ==
  ASSUME NEW f \in Flashes, NEW file \in Files, Behind(f, file), fpga_staged_len(f) # 0
  PROVE  Staged(f) = FileBytes[file]
<1> DEFINE b == FileBytes[file]
           n == Size(file)
           s == SubSeq(f.data, 1, n)
<1>1. b \in Seq(Byte) /\ n = Len(b) /\ n \in Nat
  BY FileType
<1>2. f.data \in [1 .. StageMax -> Byte] /\ StageMax \in Nat /\ n \in 1 .. StageMax
  BY StageAssumption DEF Flashes, Behind
<1>3. f.hdr.len = n /\ f.hdr.sum = Sum(b) /\ \A i \in 1 .. n : f.data[i] \in {b[i], 255}
  BY DEF Behind
<1>4. fpga_staged_len(f) = n /\ Sum(s) = Sum(b)
  BY <1>3 DEF fpga_staged_len
<1>5. Staged(f) = s
  BY <1>4 DEF Staged
<1>6. f.data \in Seq(Byte) /\ Len(f.data) = StageMax
  BY <1>2, FunSeq
<1> HIDE DEF b, n
<1>7. s \in Seq(Byte) /\ Len(s) = n /\ \A i \in 1 .. n : s[i] = f.data[i]
  <2>1. \A i \in 1 .. n : f.data[i] \in Byte
    BY <1>2
  <2>2. /\ s \in Seq(Byte) /\ Len(s) = (IF 1 <= n THEN n - 1 + 1 ELSE 0)
        /\ \A i \in 1 .. n - 1 + 1 : s[i] = f.data[1 + i - 1]
    BY <1>1, <2>1, SubSeqProperties
  <2>3. n - 1 + 1 = n /\ 1 <= n /\ \A i \in 1 .. n : 1 + i - 1 = i
    BY <1>1, <1>2
  <2> QED
    BY <2>2, <2>3
<1> HIDE DEF s
<1>8. ASSUME NEW i \in 1 .. n PROVE b[i] <= s[i]
  <2>1. b[i] \in Byte
    BY <1>1, ElementOfSeq
  <2>2. s[i] = b[i] \/ s[i] = 255
    BY <1>3, <1>7
  <2> QED
    BY <2>1, <2>2 DEF Byte
<1>9. b = s
  BY <1>1, <1>4, <1>7, <1>8, SumTells
<1> QED
  BY <1>5, <1>9 DEF b

\* The time in the header is that of a file that was at the core's path no later than now; a file
\* put there since has a later time, or none.
Stamped(file) ==
  flash.hdr.mtime # 0 /\ card # NoCard /\ card.mtime = flash.hdr.mtime => card.file = file

WholeInv ==
  /\ flash.hdr.magic => \E file \in Files : Behind(flash, file) /\ Stamped(file)
  /\ phase = "program" => ~flash.hdr.magic
  /\ phase \in {"erase", "program"} => card # NoCard
  /\ flash.hdr.mtime <= ops + 1 /\ (card # NoCard => card.mtime <= ops + 1)
  /\ (phase = "config" /\ g_fpga_staged # 0 /\ card # NoCard) =>
       Unchanged(flash, Size(card.file), card.mtime)

\* Steps that leave the region and the card alone.
LEMMA WholeStays ==
  ASSUME WholeInv, UNCHANGED <<flash, card>>, ops \in Nat, ops' \in {ops, ops + 1}, phase' # "program",
         phase' = "erase" => card # NoCard,
         (phase' = "config" /\ g_fpga_staged' # 0 /\ card # NoCard) => Unchanged(flash, Size(card.file), card.mtime),
         flash.hdr.mtime \in Nat, card # NoCard => card.mtime \in Nat
  PROVE  WholeInv'
<1>1. flash'.hdr.mtime <= ops' + 1 /\ (card' # NoCard => card'.mtime <= ops' + 1)
  BY DEF WholeInv
<1>2. flash'.hdr.magic => \E file \in Files : Behind(flash', file) /\ Stamped(file)'
  BY DEF WholeInv, Stamped
<1>3. (phase' = "config" /\ g_fpga_staged' # 0 /\ card' # NoCard) =>
         Unchanged(flash', Size(card'.file), card'.mtime)
  OBVIOUS
<1> QED
  BY <1>1, <1>2, <1>3 DEF WholeInv

LEMMA WholeStep == ASSUME ConfigInv, WholeInv, [Next]_vars PROVE WholeInv'
<1>0. /\ StageInv /\ MaxOps \in Nat /\ ops \in Nat /\ flash \in Flashes /\ flash.hdr.mtime \in Nat
      /\ card # NoCard => card \in Cards /\ card.mtime \in Nat /\ card.file \in Files
  <2>1. StageInv /\ MaxOps \in Nat
    BY FpgaAssumption DEF ConfigInv
  <2>2. flash \in Flashes /\ ops \in 0 .. MaxOps /\ (card # NoCard => card \in Cards)
    BY <2>1 DEF StageInv
  <2> QED
    BY <2>1, <2>2 DEF Flashes, Cards
<1>1. CASE StageSkipped \/ StageReadFails
  <2>1. /\ phase \in {"stage", "program"} /\ phase' = "config" /\ ops' = ops + 1
        /\ UNCHANGED <<card, flash, g_fpga_staged>>
    BY <1>1 DEF StageSkipped, StageReadFails, stage
  <2>2. g_fpga_staged = 0
    BY <1>0, <2>1 DEF StageInv
  <2> QED
    BY <1>0, <2>1, <2>2, WholeStays
<1>2. CASE StageCheck
  <2>1. phase' \in {"config", "erase"} /\ UNCHANGED <<card, flash, ops>>
    BY <1>2 DEF StageCheck
  <2>2. (phase' = "config" /\ g_fpga_staged' # 0 /\ card # NoCard) => Unchanged(flash, Size(card.file), card.mtime)
    BY <1>2 DEF StageCheck
  <2>3. phase' = "erase" => card # NoCard
    BY <1>2 DEF StageCheck
  <2> QED
    BY <1>0, <2>1, <2>2, <2>3, WholeStays
<1>3. CASE StageErase
  <2>1. phase = "erase" /\ phase' = "program" /\ flash' = Erase(flash, Size(card.file)) /\ UNCHANGED <<card, ops>>
    BY <1>3 DEF StageErase
  <2>2. ~flash'.hdr.magic /\ flash'.hdr.mtime = 0
    BY <2>1 DEF Erase, NoHeader
  <2> QED
    BY <1>0, <2>1, <2>2 DEF WholeInv
<1>4. CASE StageSector
  <2>1. phase = "program" /\ UNCHANGED <<phase, card, ops>>
    BY <1>4 DEF StageSector
  <2>2. flash'.hdr = flash.hdr
    BY <1>0, <1>4 DEF StageSector, Program, Flashes
  <2> QED
    BY <1>0, <2>1, <2>2 DEF WholeInv
<1>5. CASE StageHeader
  <2>1. /\ phase = "program" /\ written = Size(card.file) /\ phase' = "config"
        /\ flash' = ProgramHeader(flash, Size(card.file), Sum(CardBytes), card.mtime)
        /\ UNCHANGED <<card, ops>> /\ home' = card
    BY <1>5 DEF StageHeader
  <2>2. card \in Cards /\ card.file \in Files /\ Size(card.file) \in 1 .. StageMax /\ HalfStaged
    BY <1>0, <2>1 DEF StageInv, Cards
  <2>3. card # NoCard /\ card.mtime \in Nat /\ card.mtime <= ops + 1
    BY <1>0, <2>1 DEF WholeInv
  <2>4. flash'.data = flash.data /\ flash'.hdr = [magic |-> TRUE, len |-> Size(card.file), sum |-> Sum(CardBytes), mtime |-> card.mtime]
    BY <1>0, <2>1 DEF ProgramHeader, Flashes
  <2>5. Behind(flash', card.file)
    BY <2>1, <2>2, <2>4 DEF Behind, HalfStaged, CardBytes
  <2>6. Stamped(card.file)'
    BY <2>1 DEF Stamped
  <2>7. Unchanged(flash', Size(card.file), card.mtime)
    <3>1. StageInv'
      BY StageStep
    <3> QED
      BY <2>1, <2>3, <3>1 DEF StageInv
  <2> QED
    BY <2>1, <2>2, <2>3, <2>4, <2>5, <2>6, <2>7 DEF WholeInv
<1>6. CASE Restart
  <2>1. ops' = ops + 1 /\ phase' \in {"stage", "stream"} /\ UNCHANGED card
    BY <1>6 DEF Restart
  <2>2. CASE phase = "erase"
    <3>1. Size(card.file) \in Nat /\ flash' \in TornErase(flash, Size(card.file))
      BY <1>0, <1>6, <2>2, StageAssumption DEF Restart, StageInv
    <3>2. flash'.hdr \in {flash.hdr, NoHeader}
      BY <3>1 DEF TornErase
    <3>3. flash'.hdr.mtime <= ops' + 1 /\ (card' # NoCard => card'.mtime <= ops' + 1)
      BY <1>0, <2>1, <3>2 DEF WholeInv, NoHeader
    <3>4. ASSUME flash'.hdr.magic PROVE \E file \in Files : Behind(flash', file) /\ Stamped(file)'
      <4>1. flash'.hdr = flash.hdr /\ flash.hdr.magic
        BY <3>2, <3>4 DEF NoHeader
      <4>2. PICK file \in Files : Behind(flash, file) /\ Stamped(file)
        BY <4>1 DEF WholeInv
      <4>3. Behind(flash', file)
        BY <1>0, <3>1, <3>4, <4>2, ErasedBehind
      <4> QED
        BY <2>1, <4>1, <4>2, <4>3 DEF Stamped
    <3> QED
      BY <2>1, <3>3, <3>4 DEF WholeInv
  <2>3. CASE phase = "program" /\ written < Size(card.file)
    <3>1. flash' \in TornProgram(flash, written, NextSector) /\ ~flash.hdr.magic
      BY <1>6, <2>3 DEF Restart, WholeInv
    <3>2. flash'.hdr = flash.hdr
      BY <1>0, <3>1 DEF TornProgram, Program, Flashes
    <3> QED
      BY <1>0, <2>1, <3>1, <3>2 DEF WholeInv
  <2>4. CASE ~(phase = "erase") /\ ~(phase = "program" /\ written < Size(card.file))
    <3>1. flash' = flash
      BY <1>6, <2>4 DEF Restart
    <3> QED
      BY <1>0, <2>1, <3>1, WholeStays
  <2> QED
    BY <2>2, <2>3, <2>4
<1>7. CASE Configure \/ Stream
  <2>1. phase' = "run" /\ UNCHANGED <<card, flash>>
    BY <1>7 DEF Configure, Stream, stage
  <2>2. ops' \in {ops, ops + 1}
    BY <1>0, <1>7 DEF Configure, Stream, Faults
  <2> QED
    BY <1>0, <2>1, <2>2, WholeStays
<1>8. CASE HostOpen \/ Unplug \/ F \/ J
  <2>1. phase' = "run" /\ ops' = ops + 1 /\ UNCHANGED <<card, flash>>
    BY <1>8 DEF HostOpen, Unplug, F, J, Env, stage
  <2> QED
    BY <1>0, <2>1, WholeStays
<1>9. CASE HostSend \/ HostRead \/ blaster_vendor_task
  <2>1. UNCHANGED <<phase, card, flash, g_fpga_staged, ops>>
    BY <1>9 DEF HostSend, HostRead, blaster_vendor_task, stage
  <2> QED
    BY <2>1 DEF WholeInv, Stamped
<1>10. CASE NewImage
  <2>1. phase' = "run" /\ ops' = ops + 1 /\ UNCHANGED flash
    BY <1>10 DEF NewImage, Env, stage
  <2>2. PICK file \in Files, t \in {0, ops + 2} : card' = [file |-> file, mtime |-> t]
    BY <1>10 DEF NewImage
  <2>3. flash'.hdr.mtime <= ops' + 1 /\ card'.mtime <= ops' + 1
    BY <1>0, <2>1, <2>2 DEF WholeInv
  <2>4. flash.hdr.mtime # 0 => card'.mtime # flash.hdr.mtime
    BY <1>0, <2>2 DEF WholeInv
  <2>5. \A f \in Files : Stamped(f)'
    BY <2>1, <2>4 DEF Stamped
  <2> QED
    BY <2>1, <2>3, <2>5 DEF WholeInv
<1>11. CASE RemoveImage
  <2>1. phase' = "run" /\ ops' = ops + 1 /\ card' = NoCard /\ UNCHANGED flash
    BY <1>11 DEF RemoveImage, Env, stage
  <2>2. \A f \in Files : Stamped(f)'
    BY <2>1 DEF Stamped
  <2>3. flash'.hdr.mtime <= ops' + 1
    BY <1>0, <2>1 DEF WholeInv
  <2> QED
    BY <2>1, <2>2, <2>3 DEF WholeInv
<1>12. CASE UNCHANGED vars
  BY <1>12 DEF vars, WholeInv, Stamped, stage
<1> QED
  BY <1>1, <1>2, <1>3, <1>4, <1>5, <1>6, <1>7, <1>8, <1>9, <1>10, <1>11, <1>12 DEF Next

(***************************************************************************)
(* The IDCODE, and the theorems                                            *)
(***************************************************************************)
LEMMA IdStep == ASSUME ConfigInv, [Next]_vars PROVE FirstIdcodeGenuine'
<1>0. FirstIdcodeGenuine /\ j \in Wires
  BY DEF ConfigInv
<1>1. CASE last' = last
  BY <1>0, <1>1 DEF FirstIdcodeGenuine
<1>2. CASE last' = Nothing
  BY <1>2 DEF FirstIdcodeGenuine, Nothing
<1>3. CASE \E bytes, ok, clean : last' = Configured(bytes, ok, clean)
  BY <1>3 DEF FirstIdcodeGenuine, Configured
<1>4. CASE J
  <2>1. last' = Identified(jtag_read_idcode(j).id, ~j.jinit)
    BY <1>4 DEF J, Read
  <2>2. j.jinit \in BOOLEAN /\ (~j.jinit => jtag_read_idcode(j).id = IdCode)
    BY <1>0, IdcodeRead DEF Wires
  <2> QED
    BY <2>1, <2>2 DEF FirstIdcodeGenuine, Identified
<1>5. CASE StageSkipped \/ StageCheck \/ StageErase \/ StageSector \/ StageReadFails \/ StageHeader
  BY <1>1, <1>5 DEF StageSkipped, StageCheck, StageErase, StageSector, StageReadFails, StageHeader
<1>6. CASE Configure
  BY <1>1, <1>3, <1>6 DEF Configure, ConfigureDone
<1>7. CASE Stream
  BY <1>1, <1>3, <1>7 DEF Stream, ConfigureDone
<1>8. CASE HostOpen \/ Restart
  BY <1>2, <1>8 DEF HostOpen, Restart
<1>9. CASE HostSend \/ HostRead \/ Unplug \/ NewImage \/ RemoveImage
  BY <1>1, <1>9 DEF HostSend, HostRead, Unplug, NewImage, RemoveImage
<1>10. CASE blaster_vendor_task
  BY <1>1, <1>2, <1>10 DEF blaster_vendor_task, SentNow, SendPacket
<1>11. CASE F
  BY <1>3, <1>11 DEF F, Again
<1>12. CASE UNCHANGED vars
  BY <1>1, <1>12 DEF vars
<1> QED
  BY <1>4, <1>5, <1>6, <1>7, <1>8, <1>9, <1>10, <1>11, <1>12 DEF Next

LEMMA Kept == ConfigInv /\ [Next]_vars => ConfigInv'
<1> SUFFICES ASSUME ConfigInv, [Next]_vars PROVE ConfigInv'
  OBVIOUS
<1> QED
  BY StageStep, WiresStep, UsbStep, IdStep DEF ConfigInv

LEMMA ConfigHolds == Spec => []ConfigInv
<1> QED
  BY InitHolds, Kept, PTL DEF Spec

\* The wires, the engine, the staging region and the buffers of the packets stay what they are:
\* the answers waiting in tx_buf never outgrow it, the command counter of the engine its six bits.
THEOREM ConfigTypes == Spec => []TypeOK
<1>1. ConfigInv => TypeOK
  <2> SUFFICES ASSUME ConfigInv PROVE TypeOK
    OBVIOUS
  <2>1. j.core \in {Blank, Factory} \cup Images /\ j.left \in 0 .. 63
    BY DEF ConfigInv, Wires, Cores
  <2>2. card \in {NoCard} \union [file : Files, mtime : 0..(MaxOps + 1)]
    BY DEF ConfigInv, StageInv, Cards
  <2> QED
    BY <2>1, <2>2 DEF ConfigInv, StageInv, UsbInv, TypeOK
<1> QED
  BY <1>1, ConfigHolds, PTL

\* What the host asked to read back reaches it once and in order: blaster_vendor_task's buffer and
\* the packet in flight hold exactly what was answered and not yet read.
THEOREM AnswersInOrder == Spec => []ReadbackInOrder
<1>1. ConfigInv => ReadbackInOrder
  BY DEF ConfigInv, UsbInv, ReadbackInOrder
<1> QED
  BY <1>1, ConfigHolds, PTL

\* The first IDCODE that jtag.c reads after a restart is the one of the FPGA, whatever its length
\* and wherever the blaster or a host left the TAP and the pins.
THEOREM IdcodeIsGenuine == Spec => []FirstIdcodeGenuine
<1>1. ConfigInv => FirstIdcodeGenuine
  BY DEF ConfigInv
<1> QED
  BY <1>1, ConfigHolds, PTL

\* fpga_stage_if_changed never erases the region for the file it was last staged from.
THEOREM FlashIsSpared == Spec => NoNeedlessErase
<1>1. ConfigInv /\ [Next]_vars => [phase = "erase" /\ phase' = "program" => home # card]_vars
  BY DEF ConfigInv, StageInv
<1> QED
  BY <1>1, ConfigHolds, PTL DEF Spec, NoNeedlessErase

LEMMA WholeHolds == Spec => []WholeInv
<1>1. ASSUME Init PROVE WholeInv
  <2>1. flash.hdr = NoHeader /\ phase \in {"stream", "stage"} /\ ops = 0 /\ (card # NoCard => card.mtime = 0)
    BY <1>1 DEF Init, ErasedFlash
  <2> QED
    BY <2>1 DEF WholeInv, NoHeader
<1>2. ConfigInv /\ WholeInv /\ [Next]_vars => WholeInv'
  BY WholeStep
<1> QED
  BY <1>1, <1>2, ConfigHolds, PTL DEF Spec

\* The header vouches for a whole file that was on the card, whatever the power did to the region
\* while fpga_stage_rbf erased and programmed it, and for every set of files: the plain sum of
\* fpga_staged_len tells any erasure that was cut short.
THEOREM StagedFileIsWhole == Spec => []StagedIsWhole
<1>1. ConfigInv /\ WholeInv => StagedIsWhole
  <2> SUFFICES ASSUME ConfigInv, WholeInv, fpga_staged_len(flash) # 0
               PROVE  \E file \in Files : Staged(flash) = FileBytes[file]
    BY DEF StagedIsWhole
  <2>1. flash.hdr.magic /\ flash \in Flashes
    BY DEF fpga_staged_len, ConfigInv, StageInv
  <2>2. PICK file \in Files : Behind(flash, file)
    BY <2>1 DEF WholeInv
  <2> QED
    BY <2>1, <2>2, VouchedIsFile
<1> QED
  BY <1>1, ConfigHolds, WholeHolds, PTL

\* The core that is about to be configured is the one on the card, if its file has a time of its
\* own: size and time alone decide, after the sum, that the region is not staged again.
THEOREM StagedFileIsNewest == Spec => []StagedIsNewest
<1>1. ConfigInv /\ WholeInv => StagedIsNewest
  <2> SUFFICES ASSUME ConfigInv, WholeInv, phase = "config", g_fpga_staged # 0, card # NoCard, card.mtime # 0
               PROVE  Staged(flash) = CardBytes
    BY DEF StagedIsNewest
  <2>1. Unchanged(flash, Size(card.file), card.mtime)
    BY DEF WholeInv
  <2>2. flash \in Flashes /\ g_fpga_staged = fpga_staged_len(flash)
    BY DEF ConfigInv, StageInv
  <2>3. flash.hdr.magic /\ flash.hdr.mtime = card.mtime /\ fpga_staged_len(flash) # 0
    BY <2>1, <2>2 DEF Unchanged
  <2>4. PICK file \in Files : Behind(flash, file) /\ Stamped(file)
    BY <2>3 DEF WholeInv
  <2>5. card.file = file
    BY <2>3, <2>4 DEF Stamped
  <2> QED
    BY <2>2, <2>3, <2>4, <2>5, VouchedIsFile DEF CardBytes
<1> QED
  BY <1>1, ConfigHolds, WholeHolds, PTL

(***************************************************************************)
(* The byte strings of fpga_config.c configure the FPGA                    *)
(***************************************************************************)
\* What the FPGA runs when it has been configured with these bytes.
RunBy(bytes) == IF FileRun(bytes) = {} THEN {Blank} ELSE FileRun(bytes)
Loaded(fam, bytes) == {t \in TapStates : t.fam = fam /\ t.core \in RunBy(bytes)}
OfFamily(fam) == {t \in TapStates : t.fam = fam}

\* Reset, the instruction that erases, and the clocks it takes.
LEMMA ClearLeads ==
  ASSUME NEW fam \in Families, NEW code \in Nat, Bits(code, fam.ir) = Erasing(fam), Erasing(fam) # Starting(fam)
  PROVE  Leads(Ready(OfFamily(fam)), jtag_reset \o scan_ir(fam, code) \o tck_rti(ClearTicks),
               Ready(With(Erasing(fam), At(fam, "RTI", Blank, <<>>))))
<1>1. Leads(Ready(OfFamily(fam)), jtag_reset, Ready({t \in TapStates : t.fam = fam /\ t.tap = "RTI"}))
  BY ResetLeads DEF OfFamily
<1>2. Leads(Ready({t \in TapStates : t.fam = fam /\ t.tap = "RTI"}), scan_ir(fam, code),
            Ready(With(Erasing(fam), At(fam, "RTI", Blank, <<>>))))
  BY EraseLeads
<1>3. Leads(Ready(With(Erasing(fam), At(fam, "RTI", Blank, <<>>))), tck_rti(ClearTicks),
            Ready(With(Erasing(fam), At(fam, "RTI", Blank, <<>>))))
  BY RtiLeads, FpgaAssumption
<1> QED
  BY <1>1, <1>2, <1>3, LeadsOn

\* The bits of the image, from Run-Test/Idle and back to it.
LEMMA FillLeads ==
  ASSUME NEW fam \in Families, Configuring(fam) # Starting(fam), NEW c \in Seq(B01), NEW body,
         Leads(Held(Given(fam, "ShDR", c, 0), 0), body, Ready(Given(fam, "Ex1DR", c, Len(c))))
  PROVE  /\ Leads(Ready(With(Configuring(fam), At(fam, "RTI", Blank, <<>>))), enter_shift_dr,
                  Held(Given(fam, "ShDR", c, 0), 0))
         /\ Leads(Ready(Given(fam, "Ex1DR", c, Len(c))), exit_shift_dr, Ready(At(fam, "RTI", Blank, c)))
<1> DEFINE S == With(Configuring(fam), At(fam, "ShDR", Blank, <<>>))
           X == With(Configuring(fam), At(fam, "Ex1DR", Blank, c))
           G == Given(fam, "ShDR", c, 0)
           H == Given(fam, "Ex1DR", c, Len(c))
<1>1. Leads(Ready(With(Configuring(fam), At(fam, "RTI", Blank, <<>>))), enter_shift_dr, Held(S, 0))
  BY EnterShiftLeads
<1>2. \A t \in S : t \in G
  BY GivenNone
<1>3. \A t \in H : t \in X
  BY GivenAll
<1>4. Leads(Ready(X), exit_shift_dr, Ready(At(fam, "RTI", Blank, c)))
  BY ExitShiftLeads
<1> HIDE DEF S, X, G, H
<1>5. \A w \in Held(S, 0) \cap Wires : w \in Held(G, 0)
  BY <1>2 DEF Held, Ready
<1>6. \A w \in Ready(H) \cap Wires : w \in Ready(X)
  BY <1>3 DEF Ready
<1>7. Leads(Ready(With(Configuring(fam), At(fam, "RTI", Blank, <<>>))), enter_shift_dr, Held(G, 0))
  BY <1>1, <1>5, LeadsWithin
<1>8. Leads(Ready(H), exit_shift_dr, Ready(At(fam, "RTI", Blank, c)))
  BY <1>4, <1>6, LeadsWithin
<1> QED
  BY <1>7, <1>8 DEF G, H

\* The instruction that starts the FPGA, and the clocks it takes.
LEMMA WakeLeads ==
  ASSUME NEW fam \in Families, Starting(fam) # Erasing(fam), NEW c
  PROVE  /\ Leads(Ready(At(fam, "RTI", Blank, c)), scan_ir(fam, fam.startup), Ready(Waking(fam, c, 1)))
         /\ Leads(Ready(Waking(fam, c, 1)), tck_rti(StartTicks), Ready(At(fam, "RTI", Started(fam, c), c)))
<1>1. fam.startup \in Nat /\ Bits(fam.startup, fam.ir) = Starting(fam)
  BY DEF Families, Cyclone, Artix, Starting
<1>2. Leads(Ready(At(fam, "RTI", Blank, c)), scan_ir(fam, fam.startup), Ready(Waking(fam, c, 1)))
  BY <1>1, ScanLeads
<1> QED
  BY <1>2, StartLeads

\* An instruction that neither erases nor starts it.
LEMMA HarmlessLeads ==
  ASSUME NEW fam \in Families, NEW code \in Nat, Bits(code, fam.ir) # Erasing(fam),
         Bits(code, fam.ir) # Starting(fam), NEW core, NEW c
  PROVE  Leads(Ready(At(fam, "RTI", core, c)), scan_ir(fam, code),
               Ready(With(Bits(code, fam.ir), At(fam, "RTI", core, c))))
BY ScanLeads

LEMMA WithinWith ==
  ASSUME NEW i, NEW S PROVE \A w \in Ready(With(i, S)) \cap Wires : w \in Ready(S)
BY DEF Ready, With

LEMMA CycloneLeads ==
  ASSUME NEW bytes \in Seq(Byte), bytes # <<>>
  PROVE  Leads(Ready(OfFamily(Cyclone)), CycloneBytes(bytes), Ready(Loaded(Cyclone, bytes)))
<1> DEFINE fam == Cyclone
           c == Wired(bytes)
           n == Len(bytes)
           clear == jtag_reset \o scan_ir(Cyclone, Cyclone.config) \o tck_rti(ClearTicks)
           body == AllButLast(bytes) \o LastByte(bytes)
           Idle(core) == Ready(At(Cyclone, "RTI", core, c))
           check == Bits(Cyclone.check, Cyclone.ir)
           bypass == Bits(Cyclone.bypass, Cyclone.ir)
<1>0. /\ Cyclone \in Families /\ Cyclone.config \in Nat /\ Cyclone.check \in Nat /\ Cyclone.bypass \in Nat
      /\ Cyclone.reversed = FALSE
  BY DEF Families, Cyclone
<1>1. c \in Seq(B01) /\ Len(c) = 8 * n
  BY WiredType
<1>2. Carries(c, 0, bytes)
  <2>1. n \in Nat /\ 0 \in 0 .. n /\ n \in 0 .. n
    OBVIOUS
  <2>2. SubSeq(bytes, 0 + 1, n) = bytes
    OBVIOUS
  <2>3. Carries(c, 0, SubSeq(bytes, 0 + 1, n))
    BY <2>1, CarriesWired
  <2> QED
    BY <2>2, <2>3
<1>3. Leads(Held(Given(Cyclone, "ShDR", c, 0), 0), body, Ready(Given(Cyclone, "Ex1DR", c, Len(c))))
  <2>1. 8 * 0 = 0 /\ 8 * (0 + n) = Len(c) /\ ShiftMax \in 1 .. 63 /\ 0 \in Nat
    BY <1>1, FpgaAssumption
  <2>2. body = ShiftChunks(SubSeq(bytes, 1, n - 1), ShiftMax) \o LastHigh(ByteBits[bytes[n]])
    BY DEF AllButLast, LastByte
  <2>3. Leads(Held(Given(Cyclone, "ShDR", c, 8 * 0), 0),
              ShiftChunks(SubSeq(bytes, 1, n - 1), ShiftMax) \o LastHigh(ByteBits[bytes[n]]),
              Ready(Given(Cyclone, "Ex1DR", c, 8 * (0 + n))))
    <3> HIDE DEF c
    <3> QED
      BY <1>0, <1>2, <2>1, BodyLeads
  <2> HIDE DEF c, body, n
  <2> QED
    BY <2>1, <2>2, <2>3
<1>4. Leads(Ready(OfFamily(Cyclone)), clear, Ready(With(Configuring(Cyclone), At(Cyclone, "RTI", Blank, <<>>))))
  <2>1. Bits(Cyclone.config, Cyclone.ir) = Erasing(Cyclone) /\ Erasing(Cyclone) # Starting(Cyclone)
        /\ Configuring(Cyclone) = Erasing(Cyclone)
    BY CodesDiffer DEF Configuring
  <2> QED
    BY <1>0, <2>1, ClearLeads
<1> HIDE DEF c, clear, body
<1>5. /\ Leads(Ready(With(Configuring(Cyclone), At(Cyclone, "RTI", Blank, <<>>))), enter_shift_dr,
               Held(Given(Cyclone, "ShDR", c, 0), 0))
      /\ Leads(Ready(Given(Cyclone, "Ex1DR", c, Len(c))), exit_shift_dr, Idle(Blank))
  BY <1>0, <1>1, <1>3, CodesDiffer, FillLeads
<1>6. Leads(Idle(Blank), scan_ir(Cyclone, Cyclone.check), Ready(With(check, At(Cyclone, "RTI", Blank, c))))
  BY <1>0, CodesDiffer, HarmlessLeads
<1>7. Leads(Ready(With(check, At(Cyclone, "RTI", Blank, c))), tck_rti(StartTicks), Idle(Blank))
  <2>1. Leads(Ready(With(check, At(Cyclone, "RTI", Blank, c))), tck_rti(StartTicks),
              Ready(With(check, At(Cyclone, "RTI", Blank, c))))
    BY CodesDiffer, RtiLeads, BlasterAssumption
  <2> QED
    BY <2>1, WithinWith, LeadsWithin
<1>8. /\ Leads(Idle(Blank), scan_ir(Cyclone, Cyclone.startup), Ready(Waking(Cyclone, c, 1)))
      /\ Leads(Ready(Waking(Cyclone, c, 1)), tck_rti(StartTicks), Idle(Started(Cyclone, c)))
  BY <1>0, CodesDiffer, WakeLeads
<1>9. Leads(Idle(Started(Cyclone, c)), scan_ir(Cyclone, Cyclone.bypass),
            Ready(With(bypass, At(Cyclone, "RTI", Started(Cyclone, c), c))))
  BY <1>0, CodesDiffer, HarmlessLeads
<1>10. \A w \in Ready(With(bypass, At(Cyclone, "RTI", Started(Cyclone, c), c))) \cap Wires : w \in Ready(Loaded(Cyclone, bytes))
  <2>1. Started(Cyclone, c) \in RunBy(bytes)
    <3>1. c = Bitstream(Cyclone, bytes)
      BY <1>0, StreamIsWired DEF Shifted8, c
    <3> QED
      BY <1>0, <3>1, StartedRight DEF RunBy, FileRun
  <2> QED
    BY <2>1 DEF Ready, With, At, Loaded
<1> HIDE DEF check, bypass, Idle
<1>11. Leads(Ready(OfFamily(Cyclone)), clear \o enter_shift_dr \o body \o exit_shift_dr
             \o scan_ir(Cyclone, Cyclone.check) \o tck_rti(StartTicks)
             \o scan_ir(Cyclone, Cyclone.startup) \o tck_rti(StartTicks) \o scan_ir(Cyclone, Cyclone.bypass),
             Ready(Loaded(Cyclone, bytes)))
  <2>1. Leads(Ready(OfFamily(Cyclone)), clear \o enter_shift_dr, Held(Given(Cyclone, "ShDR", c, 0), 0))
    BY <1>4, <1>5, LeadsOn
  <2>2. Leads(Ready(OfFamily(Cyclone)), clear \o enter_shift_dr \o body, Ready(Given(Cyclone, "Ex1DR", c, Len(c))))
    BY <1>3, <2>1, LeadsOn
  <2>3. Leads(Ready(OfFamily(Cyclone)), clear \o enter_shift_dr \o body \o exit_shift_dr, Idle(Blank))
    BY <1>5, <2>2, LeadsOn
  <2>4. Leads(Ready(OfFamily(Cyclone)), clear \o enter_shift_dr \o body \o exit_shift_dr
              \o scan_ir(Cyclone, Cyclone.check), Ready(With(check, At(Cyclone, "RTI", Blank, c))))
    BY <1>6, <2>3, LeadsOn
  <2>5. Leads(Ready(OfFamily(Cyclone)), clear \o enter_shift_dr \o body \o exit_shift_dr
              \o scan_ir(Cyclone, Cyclone.check) \o tck_rti(StartTicks), Idle(Blank))
    BY <1>7, <2>4, LeadsOn
  <2>6. Leads(Ready(OfFamily(Cyclone)), clear \o enter_shift_dr \o body \o exit_shift_dr
              \o scan_ir(Cyclone, Cyclone.check) \o tck_rti(StartTicks) \o scan_ir(Cyclone, Cyclone.startup),
              Ready(Waking(Cyclone, c, 1)))
    BY <1>8, <2>5, LeadsOn
  <2>7. Leads(Ready(OfFamily(Cyclone)), clear \o enter_shift_dr \o body \o exit_shift_dr
              \o scan_ir(Cyclone, Cyclone.check) \o tck_rti(StartTicks) \o scan_ir(Cyclone, Cyclone.startup)
              \o tck_rti(StartTicks), Idle(Started(Cyclone, c)))
    BY <1>8, <2>6, LeadsOn
  <2>8. Leads(Ready(OfFamily(Cyclone)), clear \o enter_shift_dr \o body \o exit_shift_dr
              \o scan_ir(Cyclone, Cyclone.check) \o tck_rti(StartTicks) \o scan_ir(Cyclone, Cyclone.startup)
              \o tck_rti(StartTicks) \o scan_ir(Cyclone, Cyclone.bypass),
              Ready(With(bypass, At(Cyclone, "RTI", Started(Cyclone, c), c))))
    BY <1>9, <2>7, LeadsOn
  <2>9. \A w \in Ready(OfFamily(Cyclone)) \cap Wires : w \in Ready(OfFamily(Cyclone))
    OBVIOUS
  <2> QED
    BY <1>10, <2>8, <2>9, LeadsWithin
<1>12. CycloneBytes(bytes) = clear \o enter_shift_dr \o body \o exit_shift_dr
             \o scan_ir(Cyclone, Cyclone.check) \o tck_rti(StartTicks)
             \o scan_ir(Cyclone, Cyclone.startup) \o tck_rti(StartTicks) \o scan_ir(Cyclone, Cyclone.bypass)
  <2>1. AllButLast(bytes) \in Seq(Byte) /\ LastByte(bytes) \in Seq(Byte)
    BY BodyType
  <2>2. clear \o enter_shift_dr \in Seq(Byte)
    BY <1>4, MovesType, Joined DEF Leads
  <2>3. clear \o enter_shift_dr \o AllButLast(bytes) \o LastByte(bytes) = clear \o enter_shift_dr \o body
    <3> DEFINE x == clear \o enter_shift_dr
               y == AllButLast(bytes)
               z == LastByte(bytes)
    <3>1. x \in Seq(Byte) /\ y \in Seq(Byte) /\ z \in Seq(Byte)
      BY <2>1, <2>2
    <3> HIDE DEF x, y, z
    <3>2. (x \o y) \o z = x \o (y \o z)
      BY <3>1, ConcatAssociative
    <3> QED
      BY <3>2 DEF x, y, z, body
  <2>4. CycloneBytes(bytes) = clear \o enter_shift_dr \o AllButLast(bytes) \o LastByte(bytes) \o exit_shift_dr
             \o scan_ir(Cyclone, Cyclone.check) \o tck_rti(StartTicks)
             \o scan_ir(Cyclone, Cyclone.startup) \o tck_rti(StartTicks) \o scan_ir(Cyclone, Cyclone.bypass)
    BY DEF CycloneBytes, clear
  <2> QED
    BY <2>3, <2>4
<1> QED
  BY <1>11, <1>12

LEMMA ReversedIsTurned == ASSUME NEW bytes \in Seq(Byte) PROVE Reversed(bytes) = Turned(bytes)
BY DEF Reversed, Turned, reverse_byte

\* One piece of the stream of an Artix.
LEMMA PieceLeads ==
  ASSUME NEW bytes \in Seq(Byte), NEW c, c = Wired(Turned(bytes)),
         NEW k \in 1 .. Pieces(bytes, Len(bytes))
  PROVE  /\ (k - 1) * ReadBuf < Len(bytes)
         /\ Leads(Held(Given(Artix, "ShDR", c, 8 * ((k - 1) * ReadBuf)), 0), PieceSent(bytes, k),
                  IF k * ReadBuf < Len(bytes) THEN Held(Given(Artix, "ShDR", c, 8 * (k * ReadBuf)), 0)
                  ELSE Ready(Given(Artix, "Ex1DR", c, 8 * Len(bytes))))
<1> DEFINE n == Len(bytes)
           r == Turned(bytes)
           from == (k - 1) * ReadBuf
           past == k * ReadBuf
           to == IF past < n THEN past ELSE n
           p == SubSeq(r, from + 1, to)
<1>1. n \in Nat /\ ReadBuf \in Nat \ {0} /\ ShiftMax \in 1 .. 63 /\ Artix \in Families
  BY FpgaAssumption DEF Families
<1>2. r \in Seq(Byte) /\ Len(r) = n
  BY TurnedType
<1>3. from \in Nat /\ from < n /\ past = from + ReadBuf /\ past \in Nat
  <2>1. k \in 1 .. (IF n < n THEN n \div ReadBuf ELSE (n + ReadBuf - 1) \div ReadBuf) /\ n \in 0 .. n
    BY <1>1 DEF Pieces
  <2> HIDE DEF n
  <2> QED
    BY <1>1, <2>1, PieceArith
<1>4. PieceSent(bytes, k) = SentPiece(p, past >= n)
  <2>1. Piece(r, k - 1) = SubSeq(r, from + 1, Upto(r, past))
    <3>1. (k - 1) + 1 = k
      OBVIOUS
    <3> HIDE DEF r
    <3> QED
      BY <3>1 DEF Piece
  <2>2. Upto(r, past) = to
    BY <1>2 DEF Upto
  <2> HIDE DEF r
  <2> QED
    BY <2>1, <2>2, ReversedIsTurned DEF PieceSent, r
<1> HIDE DEF n, r, from, past
<1>5. to \in from .. Len(r) /\ from \in 0 .. Len(r) /\ from + 1 <= to /\ to <= Len(r) /\ from + 1 \in Nat \ {0}
  BY <1>1, <1>2, <1>3
<1> HIDE DEF to
<1>6. p \in Seq(Byte) /\ Len(p) = to - from
  <2>1. to \in Nat
    BY <1>1, <1>2, <1>5
  <2>2. p \in Seq(Byte) /\ Len(p) = to - (from + 1) + 1
    BY <1>2, <1>5, <2>1, SliceType
  <2> HIDE DEF p
  <2> QED
    BY <1>3, <2>1, <2>2
<1>7. Carries(c, from, p)
  BY <1>2, <1>5, CarriesWired DEF r
<1>8. p # <<>>
  <2> HIDE DEF p
  <2> QED
    BY <1>3, <1>5, <1>6
<1>9. from + Len(p) = to
  <2> HIDE DEF p
  <2> QED
    BY <1>1, <1>2, <1>3, <1>5, <1>6
<1> HIDE DEF p
<1>10. CASE past < n
  <2>1. PieceSent(bytes, k) = ShiftChunks(p, ShiftMax)
    BY <1>1, <1>3, <1>4, <1>10 DEF SentPiece
  <2>2. to = past
    BY <1>10 DEF to
  <2>3. Leads(Held(Given(Artix, "ShDR", c, 8 * from), 0), ShiftChunks(p, ShiftMax),
              Held(Given(Artix, "ShDR", c, 8 * (from + Len(p))), 0))
    BY <1>1, <1>3, <1>6, <1>7, ChunksLead
  <2>4. Leads(Held(Given(Artix, "ShDR", c, 8 * from), 0), PieceSent(bytes, k), Held(Given(Artix, "ShDR", c, 8 * past), 0))
    BY <1>9, <2>1, <2>2, <2>3
  <2> QED
    BY <1>3, <1>10, <2>4 DEF from, past, n
<1>11. CASE ~(past < n)
  <2>1. PieceSent(bytes, k) = AllButLast(p) \o LastByte(p)
    BY <1>1, <1>3, <1>4, <1>11 DEF SentPiece
  <2>2. to = n
    BY <1>11 DEF to
  <2>3. Leads(Held(Given(Artix, "ShDR", c, 8 * from), 0),
              ShiftChunks(SubSeq(p, 1, Len(p) - 1), ShiftMax) \o LastHigh(ByteBits[p[Len(p)]]),
              Ready(Given(Artix, "Ex1DR", c, 8 * (from + Len(p)))))
    BY <1>1, <1>3, <1>6, <1>7, <1>8, BodyLeads
  <2>4. PieceSent(bytes, k) = ShiftChunks(SubSeq(p, 1, Len(p) - 1), ShiftMax) \o LastHigh(ByteBits[p[Len(p)]])
    BY <2>1 DEF AllButLast, LastByte
  <2>5. Leads(Held(Given(Artix, "ShDR", c, 8 * from), 0), PieceSent(bytes, k), Ready(Given(Artix, "Ex1DR", c, 8 * n)))
    BY <1>9, <2>2, <2>3, <2>4
  <2> QED
    BY <1>3, <1>11, <2>5 DEF from, past, n
<1> QED
  BY <1>10, <1>11

LEMMA StreamLeads ==
  ASSUME NEW bytes \in Seq(Byte), bytes # <<>>, NEW c, c = Wired(Turned(bytes))
  PROVE  Leads(Held(Given(Artix, "ShDR", c, 0), 0), ArtixBody(bytes, Len(bytes)),
               Ready(Given(Artix, "Ex1DR", c, 8 * Len(bytes))))
<1> DEFINE n == Len(bytes)
           last_ == Pieces(bytes, n)
           P == Held(Given(Artix, "ShDR", c, 0), 0)
           Z(k) == IF k * ReadBuf < n THEN Held(Given(Artix, "ShDR", c, 8 * (k * ReadBuf)), 0)
                   ELSE Ready(Given(Artix, "Ex1DR", c, 8 * n))
           T == [k \in 0 .. last_ |-> {s \in Seq(Byte) : Leads(P, s, Z(k))}]
<1>1. n \in Nat \ {0} /\ n \in 0 .. n /\ ReadBuf \in Nat \ {0}
  <2>1. n \in Nat \ {0}
    BY EmptySeq
  <2> HIDE DEF n
  <2> QED
    BY <2>1, FpgaAssumption
<1>2. last_ \in Nat /\ last_ * ReadBuf >= n
  <2>1. last_ \in Nat
    BY <1>1, ArtixBodyLoop
  <2>2. last_ = (n + ReadBuf - 1) \div ReadBuf
    BY <1>1 DEF Pieces
  <2> HIDE DEF n, last_
  <2>3. \A a \in Nat, b \in Nat \ {0} : a <= (a \div b) * b + b - 1
    OBVIOUS
  <2>4. n + ReadBuf - 1 \in Nat
    BY <1>1
  <2>5. n + ReadBuf - 1 <= last_ * ReadBuf + ReadBuf - 1
    BY <1>1, <2>2, <2>3, <2>4
  <2>6. last_ * ReadBuf \in Nat
    BY <1>1, <2>1
  <2> DEFINE z == last_ * ReadBuf
  <2>7. z \in Nat /\ n + ReadBuf - 1 <= z + ReadBuf - 1
    BY <2>5, <2>6
  <2> HIDE DEF z
  <2>8. z >= n
    BY <1>1, <2>7
  <2> QED
    BY <2>1, <2>8 DEF z
<1>3. PICK sent : IsBody(sent, bytes, n)
  BY <1>1, ArtixBodyLoop
<1>4. /\ ArtixBody(bytes, n) = sent[last_] /\ sent[0] = <<>>
      /\ \A k \in 1 .. last_ : sent[k] = sent[k - 1] \o PieceSent(bytes, k)
  BY <1>3 DEF IsBody
<1>5. ASSUME NEW k \in 1 .. last_ PROVE Leads(Z(k - 1), PieceSent(bytes, k), Z(k))
  <2>1. /\ (k - 1) * ReadBuf < n
        /\ Leads(Held(Given(Artix, "ShDR", c, 8 * ((k - 1) * ReadBuf)), 0), PieceSent(bytes, k), Z(k))
    BY PieceLeads
  <2>2. Z(k - 1) = Held(Given(Artix, "ShDR", c, 8 * ((k - 1) * ReadBuf)), 0)
    BY <2>1
  <2> HIDE DEF Z
  <2> QED
    BY <2>1, <2>2
<1>6. Z(0) = P
  <2>1. 0 * ReadBuf = 0 /\ 8 * 0 = 0 /\ 0 < n
    BY <1>1
  <2> HIDE DEF n
  <2> QED
    BY <2>1
<1>7. Z(last_) = Ready(Given(Artix, "Ex1DR", c, 8 * n))
  <2> DEFINE z == last_ * ReadBuf
  <2>1. ~(z < n)
    <3>1. z >= n /\ z \in Nat
      BY <1>1, <1>2
    <3> HIDE DEF z, n
    <3> QED
      BY <1>1, <3>1
  <2> QED
    BY <2>1
<1> HIDE DEF P, Z, last_, n
<1>8. sent[0] \in T[0]
  <2>1. <<>> \in Seq(Byte) /\ Leads(P, <<>>, P) /\ 0 \in 0 .. last_
    BY <1>2, LeadsNone
  <2> QED
    BY <1>4, <1>6, <2>1
<1>9. ASSUME NEW k \in 1 .. last_, sent[k - 1] \in T[k - 1] PROVE sent[k] \in T[k]
  <2>1. k \in 0 .. last_ /\ k - 1 \in 0 .. last_
    BY <1>2
  <2>2. Leads(P, sent[k - 1], Z(k - 1))
    BY <1>9, <2>1
  <2>3. Leads(P, sent[k], Z(k))
    BY <1>4, <1>5, <2>2, LeadsOn
  <2>4. sent[k] \in Seq(Byte)
    BY <2>3 DEF Leads
  <2> QED
    BY <2>1, <2>3, <2>4
<1> HIDE DEF T
<1>10. \A k \in 0 .. last_ : sent[k] \in T[k]
  BY <1>2, <1>8, <1>9, LoopKeeps
<1>11. last_ \in 0 .. last_
  BY <1>2
<1>12. Leads(P, sent[last_], Z(last_))
  BY <1>10, <1>11 DEF T
<1> QED
  BY <1>4, <1>7, <1>12 DEF P, n

LEMMA ArtixLeads ==
  ASSUME NEW bytes \in Seq(Byte), bytes # <<>>
  PROVE  Leads(Ready(OfFamily(Artix)), ArtixBytes(bytes, Len(bytes)), Ready(Loaded(Artix, bytes)))
<1> DEFINE c == Wired(Turned(bytes))
           n == Len(bytes)
           clear == jtag_reset \o scan_ir(Artix, Artix.program) \o tck_rti(ClearTicks)
           body == ArtixBody(bytes, n)
           Idle(core) == Ready(At(Artix, "RTI", core, c))
           bypass == Bits(Artix.bypass, Artix.ir)
<1>0. /\ Artix \in Families /\ Artix.config \in Nat /\ Artix.program \in Nat /\ Artix.bypass \in Nat
      /\ Artix.reversed = TRUE
  BY DEF Families, Artix
<1>1. c \in Seq(B01) /\ Len(c) = 8 * n
  BY TurnedType, WiredType
<1>2. Leads(Held(Given(Artix, "ShDR", c, 0), 0), body, Ready(Given(Artix, "Ex1DR", c, Len(c))))
  <2>1. Leads(Held(Given(Artix, "ShDR", c, 0), 0), body, Ready(Given(Artix, "Ex1DR", c, 8 * n)))
    BY StreamLeads
  <2> HIDE DEF c, n, body
  <2> QED
    BY <1>1, <2>1
<1>3. Leads(Ready(OfFamily(Artix)), clear, Ready(With(Erasing(Artix), At(Artix, "RTI", Blank, <<>>))))
  <2>1. Bits(Artix.program, Artix.ir) = Erasing(Artix) /\ Erasing(Artix) # Starting(Artix)
    BY CodesDiffer
  <2> QED
    BY <1>0, <2>1, ClearLeads
<1> HIDE DEF c, clear, body
<1>4. Leads(Ready(With(Erasing(Artix), At(Artix, "RTI", Blank, <<>>))), scan_ir(Artix, Artix.config),
            Ready(With(Configuring(Artix), At(Artix, "RTI", Blank, <<>>))))
  <2>1. Bits(Artix.config, Artix.ir) = Configuring(Artix)
    BY DEF Configuring
  <2>2. Leads(Ready(At(Artix, "RTI", Blank, <<>>)), scan_ir(Artix, Artix.config),
              Ready(With(Bits(Artix.config, Artix.ir), At(Artix, "RTI", Blank, <<>>))))
    BY <1>0, <2>1, CodesDiffer, HarmlessLeads
  <2>3. \A w \in Ready(With(Configuring(Artix), At(Artix, "RTI", Blank, <<>>))) \cap Wires :
          w \in Ready(With(Configuring(Artix), At(Artix, "RTI", Blank, <<>>)))
    OBVIOUS
  <2> QED
    BY <2>1, <2>2, <2>3, WithinWith, LeadsWithin
<1>5. /\ Leads(Ready(With(Configuring(Artix), At(Artix, "RTI", Blank, <<>>))), enter_shift_dr,
               Held(Given(Artix, "ShDR", c, 0), 0))
      /\ Leads(Ready(Given(Artix, "Ex1DR", c, Len(c))), exit_shift_dr, Idle(Blank))
  BY <1>0, <1>1, <1>2, CodesDiffer, FillLeads
<1>6. /\ Leads(Idle(Blank), scan_ir(Artix, Artix.startup), Ready(Waking(Artix, c, 1)))
      /\ Leads(Ready(Waking(Artix, c, 1)), tck_rti(StartTicks), Idle(Started(Artix, c)))
  BY <1>0, CodesDiffer, WakeLeads
<1> DEFINE Done == Ready(With(bypass, At(Artix, "RTI", Started(Artix, c), c)))
<1>7. Leads(Idle(Started(Artix, c)), scan_ir(Artix, Artix.bypass), Done)
  BY <1>0, CodesDiffer, HarmlessLeads
<1>8. Leads(Done, tck_rti(StartTicks), Idle(Started(Artix, c)))
  <2>1. Leads(Done, tck_rti(StartTicks), Done)
    BY CodesDiffer, RtiLeads, BlasterAssumption
  <2> QED
    BY <2>1, WithinWith, LeadsWithin
<1>9. Leads(Idle(Started(Artix, c)), jtag_reset, Idle(Started(Artix, c)))
  BY <1>0, ParkLeads
<1>10. \A w \in Idle(Started(Artix, c)) \cap Wires : w \in Ready(Loaded(Artix, bytes))
  <2>1. Started(Artix, c) \in RunBy(bytes)
    <3>1. c = Bitstream(Artix, bytes)
      BY <1>0, StreamIsWired DEF Shifted8, c
    <3> QED
      BY <1>0, <3>1, StartedRight DEF RunBy, FileRun
  <2> QED
    BY <2>1 DEF Ready, At, Loaded
<1> HIDE DEF bypass, Idle, Done
<1> DEFINE S == Ready(OfFamily(Artix))
           head == clear \o scan_ir(Artix, Artix.config) \o enter_shift_dr \o body \o exit_shift_dr
           tail == scan_ir(Artix, Artix.startup) \o tck_rti(StartTicks) \o scan_ir(Artix, Artix.bypass)
                   \o tck_rti(StartTicks) \o jtag_reset
<1>11. Leads(S, head, Idle(Blank))
  <2>1. Leads(S, clear \o scan_ir(Artix, Artix.config), Ready(With(Configuring(Artix), At(Artix, "RTI", Blank, <<>>))))
    BY <1>3, <1>4, LeadsOn
  <2>2. Leads(S, clear \o scan_ir(Artix, Artix.config) \o enter_shift_dr, Held(Given(Artix, "ShDR", c, 0), 0))
    BY <1>5, <2>1, LeadsOn
  <2>3. Leads(S, clear \o scan_ir(Artix, Artix.config) \o enter_shift_dr \o body, Ready(Given(Artix, "Ex1DR", c, Len(c))))
    BY <1>2, <2>2, LeadsOn
  <2> QED
    BY <1>5, <2>3, LeadsOn
<1>12. Leads(Idle(Blank), tail, Idle(Started(Artix, c)))
  <2>1. Leads(Idle(Blank), scan_ir(Artix, Artix.startup) \o tck_rti(StartTicks), Idle(Started(Artix, c)))
    BY <1>6, LeadsOn
  <2>2. Leads(Idle(Blank), scan_ir(Artix, Artix.startup) \o tck_rti(StartTicks) \o scan_ir(Artix, Artix.bypass), Done)
    BY <1>7, <2>1, LeadsOn
  <2>3. Leads(Idle(Blank), scan_ir(Artix, Artix.startup) \o tck_rti(StartTicks) \o scan_ir(Artix, Artix.bypass)
              \o tck_rti(StartTicks), Idle(Started(Artix, c)))
    BY <1>8, <2>2, LeadsOn
  <2> QED
    BY <1>9, <2>3, LeadsOn
<1>13. ArtixBytes(bytes, n) = head \o tail
  <2>1. ~(n < n)
    <3>1. n \in Nat
      OBVIOUS
    <3> HIDE DEF n
    <3> QED
      BY <3>1
  <2> QED
    BY <2>1 DEF ArtixBytes, clear, body
<1> HIDE DEF head, tail
<1>14. Leads(S, head \o tail, Idle(Started(Artix, c)))
  BY <1>11, <1>12, LeadsOn
<1>15. Leads(S, head \o tail, Ready(Loaded(Artix, bytes)))
  <2>1. \A w \in S \cap Wires : w \in S
    OBVIOUS
  <2> QED
    BY <1>10, <1>14, <2>1, LeadsWithin
<1> QED
  BY <1>13, <1>15 DEF n

\* fpga_config_from_flash, from wherever the TAP was left.
LEMMA FlashLoads ==
  ASSUME NEW w \in Wires, w.fam = Cyclone, ~w.pio, NEW bytes \in Seq(Byte), bytes # <<>>
  PROVE  LET v == fpga_config_from_flash(w, bytes).j
         IN  v \in Wires /\ v.fam = Cyclone /\ ~v.pio /\ v.core \in RunBy(bytes)
<1> DEFINE i == blaster_reset(w)
           r == After(i, CycloneBytes(bytes))
           d == After(r, ReadConfDone)
<1>1. d = fpga_config_from_flash(w, bytes).j /\ d \in Wires /\ d.fam = Cyclone
  BY FlashConfigType
<1>2. i \in Ready(OfFamily(Cyclone))
  BY ResetReady DEF OfFamily
<1>3. i \in Wires
  BY ResetType
<1> HIDE DEF i
<1>4. r \in Ready(Loaded(Cyclone, bytes))
  BY <1>2, <1>3, CycloneLeads DEF Leads
<1> HIDE DEF r
<1>5. r \in Wires /\ Calm(r) /\ TapOf(r) \in Loaded(Cyclone, bytes)
  BY <1>4 DEF Ready
<1>6. TapOf(d) = TapOf(r) /\ ~d.pio
  BY <1>5, DoneRead DEF ReadConfDone
<1> HIDE DEF d
<1>7. TapOf(d).core \in RunBy(bytes)
  BY <1>5, <1>6 DEF Loaded
<1>8. d.core \in RunBy(bytes)
  BY <1>7 DEF TapOf
<1> QED
  BY <1>1, <1>6, <1>8

\* fpga_config_from_sd, when all of the file can be read.
LEMMA SdLoads ==
  ASSUME NEW w \in Wires, w.fam = Artix, ~w.pio, NEW bytes \in Seq(Byte), bytes # <<>>
  PROVE  fpga_config_from_sd(w, bytes, Len(bytes)).j.core \in RunBy(bytes)
<1> DEFINE i == blaster_reset(w)
           r == After(i, ArtixBytes(bytes, Len(bytes)))
<1>1. r = fpga_config_from_sd(w, bytes, Len(bytes)).j
  <2>1. Len(bytes) \in 0 .. Len(bytes)
    OBVIOUS
  <2> QED
    BY <2>1, SdConfigType
<1>2. i \in Ready(OfFamily(Artix))
  BY ResetReady DEF OfFamily
<1>3. i \in Wires
  BY ResetType
<1> HIDE DEF i
<1>4. r \in Ready(Loaded(Artix, bytes))
  BY <1>2, <1>3, ArtixLeads DEF Leads
<1> HIDE DEF r
<1>5. TapOf(r).core \in RunBy(bytes)
  BY <1>4 DEF Ready, Loaded
<1> QED
  BY <1>1, <1>5 DEF TapOf

LEMMA ResetKeepsCore == ASSUME NEW w \in Wires PROVE blaster_reset(w).core = w.core
<1>1. TapOf(blaster_reset(w)).core = TapOf(w).core
  BY ResetKeepsTap
<1> QED
  BY <1>1 DEF TapOf

(***************************************************************************)
(* What was configured runs                                                *)
(***************************************************************************)
\* The FPGA is of its board's family, and main's start is that board's.
BoardInv ==
  /\ j.fam = Family(board)
  /\ phase \in {"stage", "erase", "program", "config"} => board # "wukong"
  /\ phase = "stream" => board = "wukong"

LEMMA BoardStep == ASSUME ConfigInv, BoardInv, [Next]_vars PROVE BoardInv'
<1>0. j \in Wires /\ StageInv /\ UsbInv /\ flash \in Flashes
  BY DEF ConfigInv, StageInv
<1> DEFINE SameFam == j'.fam = j.fam
<1>1. CASE StageSkipped \/ StageCheck \/ StageErase \/ StageSector \/ StageReadFails \/ StageHeader
  BY <1>1 DEF StageSkipped, StageCheck, StageErase, StageSector, StageReadFails, StageHeader, BoardInv
<1>2. CASE Configure
  <2>1. SameFam
    <3>1. CASE g_fpga_staged = 0
      BY <1>0, <1>2, <3>1, ResetType DEF Configure
    <3>2. CASE g_fpga_staged # 0
      <4> DEFINE b == Staged(flash)
                 f == fpga_config_from_flash(j, b)
                 r == TryAgain(f, b)
      <4>1. fpga_staged_len(flash) # 0
        BY <1>2, <3>2 DEF Configure, ConfigInv, StageInv
      <4>2. b \in Seq(Byte) /\ b # <<>>
        BY <1>0, <4>1, StagedType
      <4>3. j' = blaster_reset(r.j)
        BY <1>2, <3>2 DEF Configure, ConfigureDone
      <4> HIDE DEF b
      <4>4. f.j \in Wires /\ f.j.fam = j.fam
        BY <1>0, <4>2, FlashConfigType
      <4> HIDE DEF f
      <4>5. r.j \in Wires /\ r.j.fam = j.fam
        <5>1. fpga_config_from_flash(f.j, b).j \in Wires /\ fpga_config_from_flash(f.j, b).j.fam = f.j.fam
          BY <4>2, <4>4, FlashConfigType
        <5> QED
          BY <4>4, <5>1 DEF TryAgain
      <4> QED
        BY <4>3, <4>5, ResetType
    <3> QED
      BY <3>1, <3>2
  <2>2. phase' = "run" /\ UNCHANGED board
    BY <1>2 DEF Configure
  <2> QED
    BY <2>1, <2>2 DEF BoardInv
<1>3. CASE Stream
  <2>1. SameFam
    <3>1. CASE card = NoCard
      BY <1>0, <1>3, <3>1, ResetType DEF Stream
    <3>2. CASE card # NoCard
      <4>1. PICK good \in Readable(CardBytes) :
              ConfigureDone(fpga_config_from_sd(j, CardBytes, good), CardBytes, ~j.pio)
        BY <1>3, <3>2 DEF Stream
      <4>2. CardBytes \in Seq(Byte)
        BY <1>0, <3>2, CardBytesType
      <4>3. good \in 0 .. Len(CardBytes)
        BY <4>2, ReadableType
      <4>4. fpga_config_from_sd(j, CardBytes, good).j \in Wires /\ fpga_config_from_sd(j, CardBytes, good).j.fam = j.fam
        BY <1>0, <4>2, <4>3, SdConfigType
      <4> QED
        BY <4>1, <4>4, ResetType DEF ConfigureDone
    <3> QED
      BY <3>1, <3>2
  <2>2. phase' = "run" /\ UNCHANGED board
    BY <1>3 DEF Stream
  <2> QED
    BY <2>1, <2>2 DEF BoardInv
<1>4. CASE HostOpen
  <2>1. SameFam
    BY <1>0, <1>4, ResetType DEF HostOpen
  <2>2. UNCHANGED <<board, phase>>
    BY <1>4 DEF HostOpen, Env
  <2> QED
    BY <2>1, <2>2 DEF BoardInv
<1>5. CASE HostSend \/ HostRead \/ Unplug \/ NewImage \/ RemoveImage
  BY <1>5 DEF HostSend, HostRead, Unplug, NewImage, RemoveImage, Env, BoardInv
<1>6. CASE blaster_vendor_task
  <2>1. j' = TakePackets.j /\ UNCHANGED <<board, phase>>
    BY <1>6 DEF blaster_vendor_task, SentNow, SendPacket
  <2>2. SameFam
    BY <1>0, <2>1, VendorTakes
  <2> QED
    BY <2>1, <2>2 DEF BoardInv
<1>7. CASE F
  <2>1. SameFam
    <3>1. CASE board = "wukong"
      <4>1. card # NoCard /\ \E good \in Readable(CardBytes) : Again(fpga_config_from_sd(j, CardBytes, good), CardBytes)
        BY <1>7, <3>1 DEF F
      <4>2. CardBytes \in Seq(Byte)
        BY <1>0, <4>1, CardBytesType
      <4>3. PICK good \in Readable(CardBytes) : Again(fpga_config_from_sd(j, CardBytes, good), CardBytes)
        BY <4>1
      <4>4. good \in 0 .. Len(CardBytes)
        BY <4>2, ReadableType
      <4>5. fpga_config_from_sd(j, CardBytes, good).j.fam = j.fam
        BY <1>0, <4>2, <4>4, SdConfigType
      <4> QED
        BY <4>3, <4>5 DEF Again
    <3>2. CASE board # "wukong"
      <4>1. fpga_staged_len(flash) > 0 /\ Again(fpga_config_from_flash(j, Staged(flash)), Staged(flash))
        BY <1>7, <3>2 DEF F
      <4>2. fpga_staged_len(flash) # 0
        BY <4>1
      <4>3. Staged(flash) \in Seq(Byte) /\ Staged(flash) # <<>>
        BY <1>0, <4>2, StagedType
      <4>4. fpga_config_from_flash(j, Staged(flash)).j.fam = j.fam
        BY <1>0, <4>3, FlashConfigType
      <4> QED
        BY <4>1, <4>4 DEF Again
    <3> QED
      BY <3>1, <3>2
  <2>2. UNCHANGED <<board, phase>>
    BY <1>7 DEF F, Env
  <2> QED
    BY <2>1, <2>2 DEF BoardInv
<1>8. CASE J
  <2>1. SameFam
    BY <1>0, <1>8, IdcodeRead DEF J, Read
  <2>2. UNCHANGED <<board, phase>>
    BY <1>8 DEF J, Env
  <2> QED
    BY <2>1, <2>2 DEF BoardInv
<1>9. CASE Restart
  <2>1. j'.fam = Family(board)
    <3>1. j' = Restarted(j) \/ j' = PoweredOn(board, j.pioOk)
      BY <1>9 DEF Restart
    <3>2. Restarted(j).fam = j.fam
      BY <1>0 DEF Restarted, Wires
    <3>3. PoweredOn(board, j.pioOk).fam = Family(board)
      BY DEF PoweredOn
    <3> QED
      BY <3>1, <3>2, <3>3 DEF BoardInv
  <2>2. phase' = (IF board = "wukong" THEN "stream" ELSE "stage") /\ UNCHANGED board
    BY <1>9 DEF Restart
  <2> QED
    BY <2>1, <2>2 DEF BoardInv
<1>10. CASE UNCHANGED vars
  BY <1>10 DEF vars, BoardInv
<1> QED
  BY <1>1, <1>2, <1>3, <1>4, <1>5, <1>6, <1>7, <1>8, <1>9, <1>10 DEF Next

\* What a configuration has to show.
LEMMA Judged ==
  ASSUME NEW bytes, NEW ok, NEW clean, NEW w, last' = Configured(bytes, ok, clean), j' = w,
         (ok /\ clean) => w.core \in RunBy(bytes)
  PROVE  FlashConfigures'
<1>1. last'.ok = ok /\ last'.clean = clean /\ last'.bytes = bytes
  BY DEF Configured
<1> SUFFICES ASSUME last'.ok, last'.clean, FileRun(last'.bytes) # {}
             PROVE  j'.core \in FileRun(last'.bytes)
  BY DEF FlashConfigures
<1> QED
  BY <1>1 DEF RunBy

LEMMA ConfigureRuns ==
  ASSUME ConfigInv, BoardInv, FlashConfigures, Configure PROVE FlashConfigures'
<1>0. j \in Wires /\ flash \in Flashes /\ j.fam = Cyclone
  <2>1. board # "wukong" /\ j.fam = Family(board)
    BY DEF Configure, BoardInv
  <2> QED
    BY <2>1 DEF Family, ConfigInv, StageInv
<1>1. CASE g_fpga_staged = 0
  <2>1. last' = last /\ j' = blaster_reset(j)
    BY <1>1 DEF Configure
  <2>2. j'.core = j.core
    BY <1>0, <2>1, ResetKeepsCore
  <2> QED
    BY <2>1, <2>2 DEF FlashConfigures
<1>2. CASE g_fpga_staged # 0
  <2> DEFINE b == Staged(flash)
             f == fpga_config_from_flash(j, b)
             r == TryAgain(f, b)
  <2>1. fpga_staged_len(flash) # 0
    BY <1>2 DEF Configure, ConfigInv, StageInv
  <2>2. b \in Seq(Byte) /\ b # <<>>
    BY <1>0, <2>1, StagedType
  <2>3. j' = blaster_reset(r.j) /\ last' = Configured(b, r.ok, ~j.pio)
    BY <1>2 DEF Configure, ConfigureDone
  <2> HIDE DEF b
  <2>4. ASSUME ~j.pio PROVE blaster_reset(r.j).core \in RunBy(b)
    <3>1. f.j \in Wires /\ f.j.fam = Cyclone /\ ~f.j.pio /\ f.j.core \in RunBy(b)
      BY <1>0, <2>2, <2>4, FlashLoads
    <3> HIDE DEF f
    <3> DEFINE g == fpga_config_from_flash(f.j, b)
    <3>2. g.j \in Wires /\ g.j.core \in RunBy(b)
      BY <2>2, <3>1, FlashLoads
    <3>3. r = IF f.ok THEN f ELSE g
      BY DEF TryAgain
    <3> HIDE DEF g, r
    <3>4. r.j \in Wires /\ r.j.core \in RunBy(b)
      BY <3>1, <3>2, <3>3
    <3> QED
      BY <3>4, ResetKeepsCore
  <2> HIDE DEF r
  <2> QED
    BY <2>3, <2>4, Judged
<1> QED
  BY <1>1, <1>2

\* A configuration from the card that says it went well read all of a file that is not empty.
LEMMA SdJudged ==
  ASSUME NEW bytes \in Seq(Byte), NEW good \in 0 .. Len(bytes), j \in Wires, j.fam = Artix, ~j.pio,
         fpga_config_from_sd(j, bytes, good).ok
  PROVE  fpga_config_from_sd(j, bytes, good).j.core \in RunBy(bytes)
<1>1. bytes # <<>> /\ good = Len(bytes)
  BY DEF fpga_config_from_sd
<1> QED
  BY <1>1, SdLoads

LEMMA StreamRuns ==
  ASSUME ConfigInv, BoardInv, FlashConfigures, Stream PROVE FlashConfigures'
<1>0. j \in Wires /\ StageInv /\ j.fam = Artix
  <2>1. board = "wukong" /\ j.fam = Family(board)
    BY DEF Stream, BoardInv
  <2> QED
    BY <2>1 DEF Family, ConfigInv
<1>1. CASE card = NoCard
  <2>1. last' = last /\ j' = blaster_reset(j)
    BY <1>1 DEF Stream
  <2>2. j'.core = j.core
    BY <1>0, <2>1, ResetKeepsCore
  <2> QED
    BY <2>1, <2>2 DEF FlashConfigures
<1>2. CASE card # NoCard
  <2>1. PICK good \in Readable(CardBytes) :
          ConfigureDone(fpga_config_from_sd(j, CardBytes, good), CardBytes, ~j.pio)
    BY <1>2 DEF Stream
  <2> DEFINE r == fpga_config_from_sd(j, CardBytes, good)
  <2>2. CardBytes \in Seq(Byte)
    BY <1>0, <1>2, CardBytesType
  <2>3. good \in 0 .. Len(CardBytes)
    BY <2>2, ReadableType
  <2>4. r.j \in Wires
    BY <1>0, <2>2, <2>3, SdConfigType
  <2>5. ASSUME r.ok, ~j.pio PROVE r.j.core \in RunBy(CardBytes)
    BY <1>0, <2>2, <2>3, <2>5, SdJudged
  <2>6. j' = blaster_reset(r.j) /\ last' = Configured(CardBytes, r.ok, ~j.pio)
    BY <2>1 DEF ConfigureDone
  <2> HIDE DEF r
  <2>7. blaster_reset(r.j).core = r.j.core
    BY <2>4, ResetKeepsCore
  <2> QED
    BY <2>5, <2>6, <2>7, Judged
<1> QED
  BY <1>1, <1>2

LEMMA FRuns ==
  ASSUME ConfigInv, BoardInv, F PROVE FlashConfigures'
<1>0. j \in Wires /\ StageInv /\ flash \in Flashes /\ j.fam = Family(board)
  BY DEF ConfigInv, StageInv, BoardInv
<1>1. CASE board = "wukong"
  <2>0. j.fam = Artix
    BY <1>0, <1>1 DEF Family
  <2>1. card # NoCard /\ \E good \in Readable(CardBytes) : Again(fpga_config_from_sd(j, CardBytes, good), CardBytes)
    BY <1>1 DEF F
  <2>2. CardBytes \in Seq(Byte)
    BY <1>0, <2>1, CardBytesType
  <2>3. PICK good \in Readable(CardBytes) : Again(fpga_config_from_sd(j, CardBytes, good), CardBytes)
    BY <2>1
  <2> DEFINE r == fpga_config_from_sd(j, CardBytes, good)
  <2>4. good \in 0 .. Len(CardBytes)
    BY <2>2, ReadableType
  <2>5. ASSUME r.ok, ~j.pio PROVE r.j.core \in RunBy(CardBytes)
    BY <1>0, <2>0, <2>2, <2>4, <2>5, SdJudged
  <2>6. j' = r.j /\ last' = Configured(CardBytes, r.ok, ~j.pio)
    BY <2>3 DEF Again
  <2> HIDE DEF r
  <2> QED
    BY <2>5, <2>6, Judged
<1>2. CASE board # "wukong"
  <2> DEFINE b == Staged(flash)
             r == fpga_config_from_flash(j, b)
  <2>0. j.fam = Cyclone
    BY <1>0, <1>2 DEF Family
  <2>1. fpga_staged_len(flash) > 0 /\ Again(r, b)
    BY <1>2 DEF F
  <2>2. fpga_staged_len(flash) # 0
    BY <2>1
  <2>3. b \in Seq(Byte) /\ b # <<>>
    BY <1>0, <2>2, StagedType
  <2>4. j' = r.j /\ last' = Configured(b, r.ok, ~j.pio)
    BY <2>1 DEF Again
  <2> HIDE DEF b
  <2>5. ASSUME ~j.pio PROVE r.j.core \in RunBy(b)
    BY <1>0, <2>0, <2>3, <2>5, FlashLoads
  <2> HIDE DEF r
  <2> QED
    BY <2>4, <2>5, Judged
<1> QED
  BY <1>1, <1>2

LEMMA RunsStep == ASSUME ConfigInv, BoardInv, FlashConfigures, [Next]_vars PROVE FlashConfigures'
<1>1. CASE last' = last /\ j' = j
  BY <1>1 DEF FlashConfigures
<1>2. CASE last' = Nothing
  BY <1>2 DEF FlashConfigures, Nothing
<1>3. CASE J
  BY <1>3 DEF J, Read, FlashConfigures, Identified
<1>4. CASE StageSkipped \/ StageCheck \/ StageErase \/ StageSector \/ StageReadFails \/ StageHeader
  BY <1>1, <1>4 DEF StageSkipped, StageCheck, StageErase, StageSector, StageReadFails, StageHeader
<1>5. CASE Configure
  BY <1>5, ConfigureRuns
<1>6. CASE Stream
  BY <1>6, StreamRuns
<1>7. CASE HostOpen \/ Restart
  BY <1>2, <1>7 DEF HostOpen, Restart
<1>8. CASE HostSend \/ HostRead \/ Unplug \/ NewImage \/ RemoveImage
  BY <1>1, <1>8 DEF HostSend, HostRead, Unplug, NewImage, RemoveImage
<1>9. CASE blaster_vendor_task
  <2>1. j \in Wires /\ UsbInv
    BY DEF ConfigInv
  <2>2. j' = TakePackets.j /\ last' = IF TakePackets.left = queue THEN last ELSE Nothing
    BY <1>9 DEF blaster_vendor_task, SentNow, SendPacket
  <2>3. TakePackets.left = queue => TakePackets.j = j
    BY <2>1, VendorTakes
  <2> QED
    BY <1>1, <1>2, <2>2, <2>3
<1>10. CASE F
  BY <1>10, FRuns
<1>11. CASE UNCHANGED vars
  BY <1>1, <1>11 DEF vars
<1> QED
  BY <1>3, <1>4, <1>5, <1>6, <1>7, <1>8, <1>9, <1>10, <1>11 DEF Next

\* A configuration that found the pins with the bit-banger and reported success, at boot or by F,
\* from the staged flash or the card, has left the FPGA running the image it shifted, if the bytes
\* are one: whatever state the TAP was in, however fpga_config.c cuts the bytes into shift
\* commands and pieces, and however they are turned for the family.  Nothing is said of bytes that
\* are no image (the file is never looked at): they leave the FPGA with nothing (FlashLoads).
THEOREM FlashGivesCore == Spec => []FlashConfigures
<1>1. Init => BoardInv /\ FlashConfigures
  <2>1. Init => BoardInv
    BY DEF Init, BoardInv, PoweredOn
  <2>2. Init => FlashConfigures
    BY DEF Init, FlashConfigures, Nothing
  <2> QED
    BY <2>1, <2>2
<1>2. ConfigInv /\ BoardInv /\ FlashConfigures /\ [Next]_vars => BoardInv' /\ FlashConfigures'
  BY BoardStep, RunsStep
<1> QED
  BY <1>1, <1>2, ConfigHolds, PTL DEF Spec
=============================================================================
