-------------------------- MODULE SpiLoaderProofs --------------------------
(***************************************************************************)
(* Proofs about SpiLoader for every depth of the queue, list of files and   *)
(* number of presses, reads and errors.                                     *)
(***************************************************************************)
EXTENDS SpiLoader, SequenceTheorems, TLAPS

Loading == pc \in {"stream", "status", "ok"}

\* What was counted is in the queue or was drained: no push was lost.
Complete == drainCnt + Len(wq) >= ldCnt

\* A held slave is empty; a write in flight has its entry.
QueueInv ==
  /\ held => wq = <<>> /\ ldCnt = 0 /\ drainCnt = 0 /\ flight = "none"
  /\ flight = "write" => wq # <<>>
  /\ pc \in {"dest", "zero"} => flight = "lost" \/ wq = <<>>

\* The queue is the end of what was counted, and what was counted is the end of
\* what was sent; a block is never behind, so no push to it is lost.
OrderInv ==
  Loading /\ flight # "lost" =>
    /\ drainCnt + Len(wq) <= ldCnt
    /\ dest # "sdram" => Complete
    /\ Complete => \A i \in 1..Len(wq) : wq[i] + ldCnt + 1 = sent + drainCnt + i

\* What was drained is written.
WrittenInv ==
  Loading /\ Complete =>
    \A a \in 0..(sent + drainCnt) :
      sent <= a + ldCnt /\ a + ldCnt < sent + drainCnt => <<dest, a>> \in written

\* While nobody presses reset or uses the read commands no request is lost, and
\* in a boot the blocks are loaded with the 6502 halted.
QuietInv ==
  resets = 0 /\ reads = 0 =>
    /\ ~held /\ ~ldIsRead /\ ~wrValid /\ vLen = 0 /\ flight # "lost"
    /\ dest # "sdram" => halt /\ work = "boot" /\ pc \notin {"idle", "verify"}
    /\ work = "boot" /\ pc \in {"open", "dest", "zero", "stream", "status", "ok"} => halt
    /\ work = "boot" /\ pc \in {"zero", "stream", "status", "ok"} => dest = File.dest
    /\ pc \in {"status", "ok"} /\ errors = 0 => sent = Whole(File.len)
    /\ pc = "ok" => sent = ldCnt
    /\ pc = "ok" /\ work = "boot" => wq = <<>>

\* The destination is the file's from the B frame on, unless reset took it back: in
\* time for no byte to go there (stray), or later, and then it took the count too.
AimInv ==
  /\ held => dest = "sdram"
  /\ pc \in {"idle", "verify"} \/ work = "load" => dest = "sdram"
  /\ pc \in {"open", "dest", "finish", "failed"} => work = "boot"
  /\ work = "boot" /\ ~stray /\ Aimed => dest = File.dest
  /\ work = "boot" /\ ~stray /\ Loading => dest = File.dest \/ sent = 0 \/ ldCnt < sent

LoadInv == TypeOK /\ QueueInv /\ OrderInv /\ WrittenInv /\ AimInv

-----------------------------------------------------------------------------
(* A job is a list of files. *)

\* Every file has a destination.
LEMMA FileDest ==
  ASSUME TypeOK PROVE File.dest \in Dests /\ (work = "boot" => File.dest \in Blocks)
<1>1. CASE work = "boot"
  <2>1. BootFiles \in Seq([dest : Blocks, len : Nat]) /\ file \in 1..Len(BootFiles)
    BY <1>1, LoaderAssumption DEF TypeOK, Job
  <2>2. BootFiles[file] \in [dest : Blocks, len : Nat]
    BY <2>1, ElementOfSeq
  <2> QED
    BY <1>1, <2>2 DEF Job, File, Dests
<1>2. CASE work = "load"
  BY <1>2 DEF TypeOK, Job, File, Dests
<1> QED
  BY <1>1, <1>2 DEF TypeOK

\* The empty queue, and the queue with one entry more.
LEMMA EmptyQueue == <<>> \in Seq(Nat) /\ Len(<<>>) = 0 /\ Len(<<>>) <= QueueDepth
<1>1. <<>> \in Seq(Nat) /\ Len(<<>>) = 0
  BY EmptySeq
<1> QED
  BY <1>1, LoaderAssumption

LEMMA AppendQueue ==
  ASSUME TypeOK, NEW b \in Nat
  PROVE  /\ Append(wq, b) \in Seq(Nat) /\ Append(wq, b) # <<>>
         /\ Len(wq) \in Nat /\ Len(Append(wq, b)) = Len(wq) + 1
         /\ \A i \in 1..Len(wq) : Append(wq, b)[i] = wq[i]
         /\ Append(wq, b)[Len(wq) + 1] = b
         /\ Len(wq) < QueueDepth => Len(Append(wq, b)) <= QueueDepth
<1>1. wq \in Seq(Nat) /\ Len(wq) \in Nat /\ QueueDepth \in Nat
  BY LenProperties, LoaderAssumption DEF TypeOK
<1> QED
  BY <1>1, AppendProperties

-----------------------------------------------------------------------------
(* Every step keeps the invariants. *)

\* The type invariant.
LEMMA TypeStep ==
  ASSUME TypeOK, QueueInv, [Next]_vars PROVE TypeOK'
<1> USE DEF TypeOK, vars, fpga, queue, drain, job, count
<1>1. CASE DrainStart
  BY <1>1 DEF DrainStart, Job
<1>2. CASE DrainWrite
  <2>1. wq # <<>> /\ Head(wq) \in Nat /\ Tail(wq) \in Seq(Nat) /\ Len(Tail(wq)) <= QueueDepth
    BY <1>2, HeadTailProperties, LoaderAssumption DEF QueueInv, DrainWrite
  <2> QED
    BY <1>2, <2>1 DEF DrainWrite, Dests, Blocks, Job
<1>3. CASE DrainRead
  <2>1. vLen' \in Nat
    BY <1>3 DEF DrainRead
  <2> QED
    BY <1>3, <2>1 DEF DrainRead, Job
<1>4. CASE Open
  BY <1>4 DEF Open, StreamFailed, Job
<1>5. CASE SetDest
  BY <1>5, FileDest DEF SetDest, Select, Job
<1>6. CASE Zero
  BY <1>6 DEF Zero, Job
<1>7. CASE SendByte
  <2>1. wq' \in Seq(Nat) /\ Len(wq') <= QueueDepth
    BY <1>7, AppendQueue DEF SendByte, Push
  <2>2. ldCnt' \in Nat /\ drainCnt' \in Nat /\ sent' \in Nat
    BY <1>7 DEF SendByte, Push
  <2>3. wqOvf' \in BOOLEAN
    BY <1>7 DEF SendByte, Push
  <2> QED
    BY <1>7, <2>1, <2>2, <2>3 DEF SendByte, Job
<1>8. CASE EndOfFile
  BY <1>8 DEF EndOfFile, Job
<1>9. CASE Match
  BY <1>9 DEF Match, Job
<1>10. CASE Mismatch
  BY <1>10, LoaderAssumption DEF Mismatch, StreamFailed, Job
<1>11. CASE BootBegin
  BY <1>11, LoaderAssumption DEF BootBegin, Begin, Control, Job
<1>12. CASE NextFile
  BY <1>12, LoaderAssumption DEF NextFile, Job
<1>13. CASE LastFile
  BY <1>13 DEF LastFile, Job
<1>14. CASE Finish
  BY <1>14, EmptyQueue DEF Finish, ClearFpga, Job, Dests
<1>15. CASE GiveUp
  BY <1>15 DEF GiveUp, Select, Control, Job, Dests
<1>16. CASE LoadBegin
  BY <1>16, LoaderAssumption DEF LoadBegin, Begin, Job
<1>17. CASE ReadBack
  BY <1>17 DEF ReadBack, ReadFrame, Job
<1>18. CASE Peek
  BY <1>18 DEF Peek, ReadFrame, Job
<1>19. CASE Verify
  BY <1>19, LoaderAssumption DEF Verify, ReadFrame, Control, Job
<1>20. CASE VerifyEnd
  BY <1>20 DEF VerifyEnd, Control, Job
<1>21. CASE Button
  <2>1. resets' \in Nat /\ held' = TRUE /\ Job' = Job
    BY <1>21 DEF Button, Job
  <2>2. stray' \in BOOLEAN
    BY <1>21 DEF Button
  <2> QED
    BY <1>21, <2>1, <2>2, EmptyQueue DEF Button, ClearFpga, Dests
<1>22. CASE Release
  <2>1. held' \in BOOLEAN /\ Job' = Job
    BY <1>22 DEF Release, Job
  <2> QED
    BY <1>22, <2>1 DEF Release
<1>23. CASE UNCHANGED vars
  BY <1>23 DEF Job
<1> QED
  BY <1>1, <1>2, <1>3, <1>4, <1>5, <1>6, <1>7, <1>8, <1>9, <1>10, <1>11, <1>12, <1>13, <1>14, <1>15, <1>16, <1>17, <1>18, <1>19, <1>20, <1>21, <1>22, <1>23
     DEF Next, Loader, Stream, Boot, Console

\* A write in flight has its entry, and a load begins with an empty queue.
LEMMA QueueStep ==
  ASSUME TypeOK, QueueInv, [Next]_vars PROVE QueueInv'
<1> USE DEF QueueInv, vars, fpga, queue, drain, job, count
<1>1. CASE DrainStart
  BY <1>1 DEF DrainStart
<1>2. CASE DrainWrite
  BY <1>2 DEF DrainWrite, TypeOK
<1>3. CASE DrainRead
  BY <1>3 DEF DrainRead
<1>4. CASE Open
  BY <1>4 DEF Open, StreamFailed, Settled, Wanted
<1>5. CASE SetDest
  BY <1>5 DEF SetDest, Select
<1>6. CASE Zero
  BY <1>6 DEF Zero
<1>7. CASE SendByte
  BY <1>7, AppendProperties DEF SendByte, Push, TypeOK
<1>8. CASE EndOfFile
  BY <1>8 DEF EndOfFile
<1>9. CASE Match
  BY <1>9 DEF Match
<1>10. CASE Mismatch
  BY <1>10 DEF Mismatch, StreamFailed
<1>11. CASE BootBegin
  BY <1>11 DEF BootBegin, Begin, Control
<1>12. CASE NextFile
  BY <1>12 DEF NextFile
<1>13. CASE LastFile
  BY <1>13 DEF LastFile
<1>14. CASE Finish
  BY <1>14 DEF Finish, ClearFpga
<1>15. CASE GiveUp
  BY <1>15 DEF GiveUp, Select, Control
<1>16. CASE LoadBegin
  BY <1>16 DEF LoadBegin, Begin, Settled, Wanted
<1>17. CASE ReadBack
  BY <1>17 DEF ReadBack, ReadFrame
<1>18. CASE Peek
  BY <1>18 DEF Peek, ReadFrame
<1>19. CASE Verify
  BY <1>19 DEF Verify, ReadFrame, Control
<1>20. CASE VerifyEnd
  BY <1>20 DEF VerifyEnd, Control
<1>21. CASE Button
  BY <1>21 DEF Button, ClearFpga
<1>22. CASE Release
  BY <1>22 DEF Release
<1>23. CASE UNCHANGED vars
  BY <1>23
<1> QED
  BY <1>1, <1>2, <1>3, <1>4, <1>5, <1>6, <1>7, <1>8, <1>9, <1>10, <1>11, <1>12, <1>13, <1>14, <1>15, <1>16, <1>17, <1>18, <1>19, <1>20, <1>21, <1>22, <1>23
     DEF Next, Loader, Stream, Boot, Console

\* The queue stays in order and in step with the counters: the next byte sent has
\* the address that follows the last entry.
LEMMA OrderStep ==
  ASSUME TypeOK, QueueInv, OrderInv, [Next]_vars PROVE OrderInv'
<1> USE DEF OrderInv, vars, fpga, queue, drain, job, count
<1>1. CASE DrainStart
  BY <1>1 DEF DrainStart, Loading, Complete
<1>2. CASE DrainWrite
  <2>1. wq \in Seq(Nat) /\ wq # <<>> /\ flight = "write"
    BY <1>2 DEF DrainWrite, TypeOK, QueueInv
  <2>2. /\ Len(wq) \in Nat /\ Len(wq') = Len(wq) - 1
        /\ \A i \in 1..Len(wq') : wq'[i] = wq[i + 1] /\ i + 1 \in 1..Len(wq) /\ wq[i + 1] \in Nat
    <3>1. wq' = Tail(wq) /\ \A i \in 1..Len(wq) : wq[i] \in Nat
      BY <1>2, <2>1, ElementOfSeq DEF DrainWrite
    <3> QED
      BY <2>1, <3>1, HeadTailProperties, LenProperties
  <2>3. /\ drainCnt' = drainCnt + 1 /\ ldCnt' = ldCnt /\ sent' = sent
        /\ drainCnt \in Nat /\ ldCnt \in Nat /\ sent \in Nat
    BY <1>2 DEF DrainWrite, TypeOK
  <2>5. drainCnt' + Len(wq') = drainCnt + Len(wq)
    <3>1. \A d, n, m \in Int : m = n - 1 => (d + 1) + m = d + n
      OBVIOUS
    <3>2. Len(wq) \in Int /\ Len(wq') \in Int /\ Len(wq') = Len(wq) - 1 /\ drainCnt \in Int
      BY <2>2, <2>3
    <3>3. (drainCnt + 1) + Len(wq') = drainCnt + Len(wq)
      BY <3>1, <3>2
    <3> QED
      BY <2>3, <3>3
  <2>4. Complete' <=> Complete
    BY <2>3, <2>5 DEF Complete
  <2>6. ASSUME Loading, Complete, NEW i \in 1..Len(wq') PROVE wq'[i] + ldCnt' + 1 = sent' + drainCnt' + i
    <3>1. wq[i + 1] + ldCnt + 1 = sent + drainCnt + (i + 1) /\ i \in Nat
      BY <2>1, <2>2, <2>6
    <3> QED
      BY <2>2, <2>3, <3>1
  <2> QED
    BY <1>2, <2>1, <2>3, <2>4, <2>5, <2>6 DEF DrainWrite, Loading
<1>3. CASE DrainRead
  BY <1>3 DEF DrainRead, Loading, Complete
<1>4. CASE Open
  BY <1>4 DEF Open, StreamFailed, Loading, Complete
<1>5. CASE SetDest
  BY <1>5 DEF SetDest, Select, Loading, Complete
<1>6. CASE Zero
  BY <1>6, EmptyQueue DEF Zero, Loading, Complete, QueueInv
<1>7. CASE SendByte
  <2> SUFFICES ASSUME flight # "lost"
               PROVE  /\ drainCnt' + Len(wq') <= ldCnt'
                      /\ dest # "sdram" => Complete'
                      /\ Complete' => \A i \in 1..Len(wq') : wq'[i] + ldCnt' + 1 = sent' + drainCnt' + i
    BY <1>7 DEF SendByte
  <2>1. CASE held
    BY <1>7, <2>1, EmptyQueue DEF SendByte, Push, QueueInv, Complete
  <2>2. CASE ~held
    <3>1. /\ drainCnt + Len(wq) <= ldCnt
          /\ dest # "sdram" => Complete
          /\ Complete => \A i \in 1..Len(wq) : wq[i] + ldCnt + 1 = sent + drainCnt + i
      BY <1>7 DEF SendByte, Loading
    <3>2. dest # "sdram" => Len(wq) < QueueDepth
      <4>1. dest # "sdram" => wq = <<>>
        BY <1>7 DEF SendByte, BlockKeepsUp, Settled, Wanted
      <4> QED
        BY <4>1, EmptyQueue, LoaderAssumption
    <3>3. ldCnt' = ldCnt + 1 /\ sent' = sent + 1 /\ drainCnt' = drainCnt
      BY <1>7, <2>2 DEF SendByte, Push
    <3>4. /\ sent \in Nat /\ ldCnt \in Nat /\ drainCnt \in Nat
          /\ Len(wq) \in Nat /\ \A i \in 1..Len(wq) : wq[i] \in Nat
      BY AppendQueue, ElementOfSeq DEF TypeOK
    <3>5. CASE Len(wq) < QueueDepth
      <4>1. wq' = Append(wq, sent)
        BY <1>7, <2>2, <3>5 DEF SendByte, Push
      <4>2. /\ Len(wq') = Len(wq) + 1 /\ wq'[Len(wq) + 1] = sent
            /\ \A i \in 1..Len(wq) : wq'[i] = wq[i]
        BY <4>1, <3>4, AppendQueue
      <4>3. Complete' <=> Complete
        BY <3>3, <3>4, <4>2 DEF Complete
      <4>4. ASSUME Complete, NEW i \in 1..Len(wq') PROVE wq'[i] + ldCnt' + 1 = sent' + drainCnt' + i
        <5>1. drainCnt + Len(wq) = ldCnt
          <6>1. \A x, y \in Int : x <= y /\ x >= y => x = y
            OBVIOUS
          <6>2. drainCnt + Len(wq) \in Int /\ ldCnt \in Int
            BY <3>4
          <6> QED
            BY <3>1, <4>4, <6>1, <6>2 DEF Complete
        <5>2. CASE i \in 1..Len(wq)
          BY <3>1, <3>3, <3>4, <4>2, <4>4, <5>2
        <5>3. CASE i = Len(wq) + 1
          BY <3>3, <3>4, <4>2, <5>1, <5>3
        <5> QED
          BY <3>4, <4>2, <5>2, <5>3
      <4>5. drainCnt' + Len(wq') <= ldCnt'
        <5>1. \A d, n, m, c \in Int : d + n <= c /\ m = n + 1 => d + m <= c + 1
          OBVIOUS
        <5> QED
          BY <3>1, <3>3, <3>4, <4>2, <5>1
      <4> QED
        BY <3>1, <4>3, <4>4, <4>5
    <3>6. CASE ~(Len(wq) < QueueDepth)
      <4>1. wq' = wq /\ dest = "sdram"
        BY <1>7, <2>2, <3>2, <3>6 DEF SendByte, Push
      <4>2. ~Complete'
        BY <3>1, <3>3, <3>4, <4>1 DEF Complete
      <4> QED
        BY <3>1, <3>3, <3>4, <4>1, <4>2
    <3> QED
      BY <3>5, <3>6
  <2> QED
    BY <2>1, <2>2
<1>8. CASE EndOfFile
  BY <1>8 DEF EndOfFile, Loading, Complete
<1>9. CASE Match
  BY <1>9 DEF Match, Loading, Complete
<1>10. CASE Mismatch
  BY <1>10 DEF Mismatch, StreamFailed, Loading, Complete
<1>11. CASE BootBegin
  BY <1>11 DEF BootBegin, Begin, Control, Loading, Complete
<1>12. CASE NextFile
  BY <1>12 DEF NextFile, Loading, Complete
<1>13. CASE LastFile
  BY <1>13 DEF LastFile, Loading, Complete
<1>14. CASE Finish
  BY <1>14 DEF Finish, ClearFpga, Loading
<1>15. CASE GiveUp
  BY <1>15 DEF GiveUp, Select, Control, Loading, Complete
<1>16. CASE LoadBegin
  BY <1>16 DEF LoadBegin, Begin, Loading, Complete
<1>17. CASE ReadBack
  BY <1>17 DEF ReadBack, ReadFrame, Loading, Complete
<1>18. CASE Peek
  BY <1>18 DEF Peek, ReadFrame, Loading, Complete
<1>19. CASE Verify
  BY <1>19 DEF Verify, ReadFrame, Control, Loading, Complete
<1>20. CASE VerifyEnd
  BY <1>20 DEF VerifyEnd, Control, Loading, Complete
<1>21. CASE Button
  BY <1>21, EmptyQueue DEF Button, ClearFpga, Loading
<1>22. CASE Release
  BY <1>22 DEF Release, Loading, Complete
<1>23. CASE UNCHANGED vars
  BY <1>23 DEF Loading, Complete
<1> QED
  BY <1>1, <1>2, <1>3, <1>4, <1>5, <1>6, <1>7, <1>8, <1>9, <1>10, <1>11, <1>12, <1>13, <1>14, <1>15, <1>16, <1>17, <1>18, <1>19, <1>20, <1>21, <1>22, <1>23
     DEF Next, Loader, Stream, Boot, Console

\* What was drained stays written, and the entry written next is the next one.
LEMMA WrittenStep ==
  ASSUME TypeOK, QueueInv, OrderInv, WrittenInv, [Next]_vars PROVE WrittenInv'
<1> USE DEF WrittenInv, vars, fpga, queue, drain, job, count
<1>1. CASE DrainStart
  BY <1>1 DEF DrainStart, Loading, Complete
<1>2. CASE DrainWrite
  <2> SUFFICES ASSUME Loading, Complete,
                      NEW a \in 0..(sent + drainCnt + 1),
                      sent <= a + ldCnt, a + ldCnt < sent + drainCnt + 1
               PROVE  <<dest, a>> \in written \cup {<<dest, Head(wq)>>}
    <3>1. wq \in Seq(Nat) /\ wq # <<>> /\ drainCnt \in Nat /\ ldCnt \in Nat
      BY <1>2 DEF DrainWrite, TypeOK, QueueInv
    <3>2. Len(wq) \in Nat /\ Len(Tail(wq)) = Len(wq) - 1
      BY <3>1, HeadTailProperties, LenProperties
    <3>3. Complete' => Complete
      BY <1>2, <3>1, <3>2 DEF DrainWrite, Complete
    <3> QED
      BY <1>2, <3>3 DEF DrainWrite, Loading, TypeOK
  <2>1. wq \in Seq(Nat) /\ wq # <<>> /\ flight # "lost"
    BY <1>2 DEF DrainWrite, TypeOK, QueueInv
  <2>2. Head(wq) = wq[1] /\ wq[1] \in Nat /\ 1 \in 1..Len(wq)
    BY <2>1, ElementOfSeq, EmptySeq
  <2>3. Head(wq) + ldCnt + 1 = sent + drainCnt + 1
    BY <2>1, <2>2 DEF OrderInv
  <2>4. CASE a + ldCnt < sent + drainCnt
    BY <2>4 DEF TypeOK
  <2>5. CASE a + ldCnt = sent + drainCnt
    BY <2>2, <2>3, <2>5 DEF TypeOK
  <2> QED
    BY <2>4, <2>5 DEF TypeOK
<1>3. CASE DrainRead
  BY <1>3 DEF DrainRead, Loading, Complete
<1>4. CASE Open
  BY <1>4 DEF Open, StreamFailed, Loading, Complete
<1>5. CASE SetDest
  BY <1>5 DEF SetDest, Select, Loading, Complete
<1>6. CASE Zero
  BY <1>6 DEF Zero, TypeOK
<1>7. CASE SendByte
  <2>0. Complete' => Complete
    <3>1. Len(wq) \in Nat /\ Len(wq') \in Nat /\ Len(wq') <= Len(wq) + 1 /\ (held => wq' = wq)
      BY <1>7, AppendQueue DEF SendByte, Push
    <3>2. drainCnt' = drainCnt /\ drainCnt \in Nat /\ ldCnt \in Nat
          /\ ldCnt' = (IF held THEN ldCnt ELSE ldCnt + 1)
      BY <1>7 DEF SendByte, Push, TypeOK
    <3> QED
      BY <3>1, <3>2 DEF Complete
  <2>1. Loading /\ dest' = dest /\ written' = written /\ (Complete' => Complete)
    BY <1>7, <2>0 DEF SendByte, Loading
  <2>2. CASE held
    BY <1>7, <2>2 DEF SendByte, Push, QueueInv, TypeOK
  <2>3. CASE ~held
    <3>1. sent' = sent + 1 /\ ldCnt' = ldCnt + 1 /\ drainCnt' = drainCnt
      BY <1>7, <2>3 DEF SendByte, Push
    <3> QED
      BY <2>1, <3>1 DEF TypeOK
  <2> QED
    BY <2>2, <2>3
<1>8. CASE EndOfFile
  BY <1>8 DEF EndOfFile, Loading, Complete
<1>9. CASE Match
  BY <1>9 DEF Match, Loading, Complete
<1>10. CASE Mismatch
  BY <1>10 DEF Mismatch, StreamFailed, Loading, Complete
<1>11. CASE BootBegin
  BY <1>11 DEF BootBegin, Begin, Control, Loading, Complete
<1>12. CASE NextFile
  BY <1>12 DEF NextFile, Loading, Complete
<1>13. CASE LastFile
  BY <1>13 DEF LastFile, Loading, Complete
<1>14. CASE Finish
  BY <1>14 DEF Finish, ClearFpga, Loading
<1>15. CASE GiveUp
  BY <1>15 DEF GiveUp, Select, Control, Loading, Complete
<1>16. CASE LoadBegin
  BY <1>16 DEF LoadBegin, Begin, Loading, Complete
<1>17. CASE ReadBack
  BY <1>17 DEF ReadBack, ReadFrame, Loading, Complete
<1>18. CASE Peek
  BY <1>18 DEF Peek, ReadFrame, Loading, Complete
<1>19. CASE Verify
  BY <1>19 DEF Verify, ReadFrame, Control, Loading, Complete
<1>20. CASE VerifyEnd
  BY <1>20 DEF VerifyEnd, Control, Loading, Complete
<1>21. CASE Button
  BY <1>21 DEF Button, ClearFpga, TypeOK
<1>22. CASE Release
  BY <1>22 DEF Release, Loading, Complete
<1>23. CASE UNCHANGED vars
  BY <1>23 DEF Loading, Complete
<1> QED
  BY <1>1, <1>2, <1>3, <1>4, <1>5, <1>6, <1>7, <1>8, <1>9, <1>10, <1>11, <1>12, <1>13, <1>14, <1>15, <1>16, <1>17, <1>18, <1>19, <1>20, <1>21, <1>22, <1>23
     DEF Next, Loader, Stream, Boot, Console

\* The destination, and what tells that it was lost.
LEMMA AimStep ==
  ASSUME TypeOK, QueueInv, AimInv, [Next]_vars PROVE AimInv'
<1> USE DEF AimInv, vars, fpga, queue, drain, job, count
<1>1. CASE DrainStart
  BY <1>1 DEF DrainStart, File, Job, Aimed, Loading
<1>2. CASE DrainWrite
  BY <1>2 DEF DrainWrite, File, Job, Aimed, Loading
<1>3. CASE DrainRead
  BY <1>3 DEF DrainRead, File, Job, Aimed, Loading
<1>4. CASE Open
  BY <1>4 DEF Open, StreamFailed, File, Job, Aimed, Loading
<1>5. CASE SetDest
  BY <1>5 DEF SetDest, Select, File, Job, Aimed, Loading
<1>6. CASE Zero
  BY <1>6 DEF Zero, File, Job, Aimed, Loading
<1>7. CASE SendByte
  <2>1. ldCnt' = (IF held THEN ldCnt ELSE ldCnt + 1) /\ sent' = sent + 1 /\ sent' # 0
        /\ sent \in Nat /\ ldCnt \in Nat
    BY <1>7 DEF SendByte, Push, TypeOK
  <2>2. pc = "stream" /\ UNCHANGED <<held, dest, pc, work, file, stray>> /\ File' = File
    BY <1>7 DEF SendByte, File, Job
  <2> QED
    BY <2>1, <2>2 DEF Aimed, Loading
<1>8. CASE EndOfFile
  BY <1>8 DEF EndOfFile, File, Job, Aimed, Loading
<1>9. CASE Match
  BY <1>9 DEF Match, File, Job, Aimed, Loading
<1>10. CASE Mismatch
  BY <1>10 DEF Mismatch, StreamFailed, File, Job, Aimed, Loading, TypeOK
<1>11. CASE BootBegin
  BY <1>11 DEF BootBegin, Begin, Control, Aimed, Loading
<1>12. CASE NextFile
  BY <1>12 DEF NextFile, Job, Aimed, Loading, TypeOK
<1>13. CASE LastFile
  BY <1>13 DEF LastFile, File, Job, Aimed, Loading, TypeOK
<1>14. CASE Finish
  BY <1>14 DEF Finish, ClearFpga, Aimed, Loading
<1>15. CASE GiveUp
  BY <1>15 DEF GiveUp, Select, Control, Aimed, Loading
<1>16. CASE LoadBegin
  BY <1>16 DEF LoadBegin, Begin, Aimed, Loading
<1>17. CASE ReadBack
  BY <1>17 DEF ReadBack, ReadFrame, Aimed, Loading
<1>18. CASE Peek
  BY <1>18 DEF Peek, ReadFrame, Aimed, Loading
<1>19. CASE Verify
  BY <1>19 DEF Verify, ReadFrame, Control, Aimed, Loading
<1>20. CASE VerifyEnd
  BY <1>20 DEF VerifyEnd, Control, Aimed, Loading
<1>21. CASE Button
  <2>1. dest' = "sdram" /\ ldCnt' = 0 /\ UNCHANGED <<pc, work, file, sent>> /\ sent \in Nat
    BY <1>21 DEF Button, ClearFpga, TypeOK
  <2>2. ~stray' => ~Aimed
    BY <1>21 DEF Button
  <2>3. ~stray' => ~Aimed'
    BY <2>1, <2>2 DEF Aimed
  <2>4. Loading' => sent' = 0 \/ ldCnt' < sent'
    BY <2>1
  <2> QED
    BY <2>1, <2>3, <2>4
<1>22. CASE Release
  BY <1>22 DEF Release, File, Job, Aimed, Loading
<1>23. CASE UNCHANGED vars
  BY <1>23 DEF File, Job, Aimed, Loading
<1> QED
  BY <1>1, <1>2, <1>3, <1>4, <1>5, <1>6, <1>7, <1>8, <1>9, <1>10, <1>11, <1>12, <1>13, <1>14, <1>15, <1>16, <1>17, <1>18, <1>19, <1>20, <1>21, <1>22, <1>23
     DEF Next, Loader, Stream, Boot, Console

\* Without resets and reads, no request to a block is lost.
LEMMA QuietStep ==
  ASSUME TypeOK, QueueInv, QuietInv, [Next]_vars PROVE QuietInv'
<1> USE DEF QuietInv, vars, fpga, queue, drain, job, count
<1>1. CASE DrainStart
  BY <1>1 DEF DrainStart, Accepted, Wanted, File, Job
<1>2. CASE DrainWrite
  BY <1>2 DEF DrainWrite, QueueInv, File, Job
<1>3. CASE DrainRead
  BY <1>3 DEF DrainRead, File, Job
<1>4. CASE Open
  BY <1>4 DEF Open, StreamFailed, File, Job
<1>5. CASE SetDest
  BY <1>5, FileDest DEF SetDest, Select, File, Job, TypeOK
<1>6. CASE Zero
  BY <1>6 DEF Zero, File, Job, Loading
<1>7. CASE SendByte
  BY <1>7 DEF SendByte, Push, File, Job
<1>8. CASE EndOfFile
  BY <1>8 DEF EndOfFile, File, Job, TypeOK
<1>9. CASE Match
  <2> SUFFICES ASSUME resets = 0, reads = 0, work = "boot" PROVE wq = <<>>
    BY <1>9 DEF Match, File, Job
  <2>1. dest = File.dest /\ dest # "sdram" /\ flight # "lost"
    BY <1>9, FileDest DEF Match, Blocks
  <2> QED
    BY <1>9, <2>1 DEF Match, BlockKeepsUp, Settled, Wanted
<1>10. CASE Mismatch
  BY <1>10 DEF Mismatch, StreamFailed, File, Job
<1>11. CASE BootBegin
  BY <1>11 DEF BootBegin, Begin, Control
<1>12. CASE NextFile
  BY <1>12 DEF NextFile, Job, TypeOK
<1>13. CASE LastFile
  BY <1>13 DEF LastFile, File, Job
<1>14. CASE Finish
  BY <1>14 DEF Finish, ClearFpga, File, Job
<1>15. CASE GiveUp
  BY <1>15 DEF GiveUp, Select, Control, File, Job
<1>16. CASE LoadBegin
  BY <1>16 DEF LoadBegin, Begin
<1>17. CASE ReadBack
  BY <1>17 DEF ReadBack, ReadFrame, TypeOK
<1>18. CASE Peek
  BY <1>18 DEF Peek, ReadFrame, TypeOK
<1>19. CASE Verify
  BY <1>19 DEF Verify, ReadFrame, Control, TypeOK
<1>20. CASE VerifyEnd
  BY <1>20 DEF VerifyEnd, Control, File, Job
<1>21. CASE Button
  BY <1>21 DEF Button, ClearFpga, TypeOK
<1>22. CASE Release
  BY <1>22 DEF Release, File, Job
<1>23. CASE UNCHANGED vars
  BY <1>23 DEF File, Job
<1> QED
  BY <1>1, <1>2, <1>3, <1>4, <1>5, <1>6, <1>7, <1>8, <1>9, <1>10, <1>11, <1>12, <1>13, <1>14, <1>15, <1>16, <1>17, <1>18, <1>19, <1>20, <1>21, <1>22, <1>23
     DEF Next, Loader, Stream, Boot, Console

-----------------------------------------------------------------------------
(* The theorems. *)

THEOREM LoadInvariant == Spec => [](LoadInv /\ QuietInv)
<1>1. Init => LoadInv /\ QuietInv
  <2> SUFFICES ASSUME Init PROVE LoadInv /\ QuietInv
    OBVIOUS
  <2>1. TypeOK
    <3>1. 1 \in 1..Len(BootFiles)
      BY LoaderAssumption, EmptySeq
    <3>2. file \in 1..Len(Job) /\ attempt \in 1..MaxAttempts
      BY <3>1, LoaderAssumption DEF Init, Job
    <3> QED
      BY <3>2, EmptyQueue DEF Init, TypeOK, Dests
  <2>2. QueueInv /\ OrderInv /\ WrittenInv /\ AimInv
    BY DEF Init, QueueInv, OrderInv, WrittenInv, AimInv, Loading, Aimed
  <2>3. QuietInv
    BY DEF Init, QuietInv
  <2> QED
    BY <2>1, <2>2, <2>3 DEF LoadInv
<1>2. LoadInv /\ QuietInv /\ [Next]_vars => LoadInv' /\ QuietInv'
  BY TypeStep, QueueStep, OrderStep, WrittenStep, AimStep, QuietStep DEF LoadInv
<1> QED
  BY <1>1, <1>2, PTL DEF Spec

\* Every variable keeps its type, and the queue its bound.
THEOREM TypeCorrect == Spec => []TypeOK
<1>1. LoadInv => TypeOK
  BY DEF LoadInv
<1> QED
  BY <1>1, LoadInvariant, PTL

\* A load of the whole file that matched, with as much drained as counted, is in the
\* file's memory unless reset took the destination back before its first byte: for any
\* queue, files, lost pushes, resets, reads and card errors.
THEOREM CleanLoad == Spec => []CleanLoadIsWritten
<1>1. LoadInv => CleanLoadIsWritten
  <2> SUFFICES ASSUME LoadInv, pc = "ok", sent = ldCnt, drainCnt = ldCnt,
                      sent = Whole(File.len), work = "load" \/ ~stray,
                      NEW a \in 0..(Whole(File.len) - 1)
               PROVE  <<File.dest, a>> \in written
    BY DEF CleanLoadIsWritten, LoadsFile
  <2>1. sent \in Nat /\ ldCnt \in Nat /\ drainCnt \in Nat /\ Len(wq) \in Nat
    BY LenProperties DEF LoadInv, TypeOK
  <2>2. a \in 0..(sent + drainCnt) /\ sent <= a + ldCnt /\ a + ldCnt < sent + drainCnt /\ sent # 0
    BY <2>1
  <2>3. Complete
    BY <2>1 DEF Complete
  <2>4. <<dest, a>> \in written
    BY <2>2, <2>3 DEF LoadInv, WrittenInv, Loading
  <2>5. dest = File.dest
    <3>1. CASE work = "load"
      BY <3>1 DEF LoadInv, AimInv, File, Job, TypeOK
    <3>2. CASE work = "boot"
      BY <2>1, <2>2, <3>2 DEF LoadInv, AimInv, Loading
    <3> QED
      BY <3>1, <3>2 DEF LoadInv, TypeOK
  <2> QED
    BY <2>4, <2>5
<1> QED
  BY <1>1, LoadInvariant, PTL

\* A boot that no reset, read command or card error disturbs loads its files.
THEOREM QuietBoot == Spec => []QuietBootLoadsFiles
<1>1. LoadInv /\ QuietInv => QuietBootLoadsFiles
  <2> SUFFICES ASSUME LoadInv, QuietInv, pc = "ok", work = "boot",
                      resets = 0, reads = 0, errors = 0,
                      NEW a \in 0..(Whole(File.len) - 1)
               PROVE  <<File.dest, a>> \in written
    BY DEF QuietBootLoadsFiles, LoadsFile
  <2>1. /\ dest = File.dest /\ wq = <<>> /\ flight # "lost"
        /\ sent = Whole(File.len) /\ sent = ldCnt
    BY DEF QuietInv
  <2>2. dest # "sdram"
    BY <2>1, FileDest DEF LoadInv, Blocks
  <2>3. drainCnt = ldCnt /\ drainCnt \in Nat /\ Complete
    BY <2>1, <2>2, EmptyQueue DEF LoadInv, OrderInv, TypeOK, Loading, Complete
  <2>4. a \in 0..(sent + drainCnt) /\ sent <= a + ldCnt /\ a + ldCnt < sent + drainCnt
    BY <2>1, <2>3 DEF LoadInv, TypeOK
  <2> QED
    BY <2>1, <2>3, <2>4 DEF LoadInv, WrittenInv, Loading
<1> QED
  BY <1>1, LoadInvariant, PTL

=============================================================================
