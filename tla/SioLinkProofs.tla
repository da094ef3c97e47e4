---------------------------- MODULE SioLinkProofs ----------------------------
(***************************************************************************)
(* Proofs about SioLink for every frame length, FIFO depth, set of drives  *)
(* and bound.                                                              *)
(***************************************************************************)
EXTENDS SioLink, SequenceTheorems, TLAPS

USE SioAssumption DEF SioAssumption, RawLen

\* The empty FIFO, frame and answer are sequences of whatever they hold.
LEMMA NoBytes ==
  /\ <<>> \in Seq(Byte) /\ <<>> \in Seq(Entry) /\ <<>> \in Seq(Nat)
  /\ Len(<<>>) = 0
  BY EmptySeq

LEMMA TypeInit == Init => TypeOK
<1>. SUFFICES ASSUME Init PROVE TypeOK
  OBVIOUS
<1>1. FrameLen \in Nat /\ 0 \in 0 .. FrameLen /\ 0 \in 0 .. RxDepth
  OBVIOUS
<1>2. rx \in Seq(Entry) /\ Len(rx) <= RxDepth
  BY NoBytes DEF Init
<1>3. tx \in Seq(Byte) /\ Len(tx) <= TxDepth
  BY NoBytes DEF Init
<1>4. p2s \in Seq(Byte) /\ Len(p2s) <= 1
  BY NoBytes DEF Init
<1>5. frame \in Seq(Nat) /\ Len(frame) <= FrameLen
  BY NoBytes DEF Init
<1>6. todo \in Seq(Byte) /\ heard \in Seq(Byte)
  BY NoBytes DEF Init
<1>. QED
  BY <1>1, <1>2, <1>3, <1>4, <1>5, <1>6 DEF Init, TypeOK

\* What a received byte does to the RX FIFO.
LEMMA PushedByte ==
  ASSUME TypeOK, NEW idx \in 0 .. FrameLen, RxPush(idx)
  PROVE  LET b == [idx |-> idx, f |-> frames]
         IN  /\ rx' \in Seq(Entry) /\ Len(rx') <= RxDepth
             /\ arrived' \in Nat
             /\ Len(rx) < RxDepth => /\ Len(rx') = Len(rx) + 1
                                     /\ rx'[Len(rx')] = b
                                     /\ \A i \in 1 .. Len(rx) : rx'[i] = rx[i]
             /\ Len(rx) >= RxDepth => rx' = rx
<1>1. [idx |-> idx, f |-> frames] \in Entry
  BY DEF TypeOK, Entry
<1>. QED
  BY <1>1, AppendProperties DEF TypeOK, RxPush

\* What a pop takes from it.
LEMMA PoppedByte ==
  ASSUME TypeOK, rx # <<>>
  PROVE  /\ Head(rx) = rx[1] /\ rx[1] \in Entry /\ Len(rx) > 0
         /\ Tail(rx) \in Seq(Entry) /\ Len(Tail(rx)) = Len(rx) - 1
         /\ \A i \in 1 .. Len(Tail(rx)) : Tail(rx)[i] = rx[i + 1]
<1>1. Len(rx) \in Nat \ {0}
  BY EmptySeq DEF TypeOK
<1>. QED
  BY <1>1, HeadTailProperties, ElementOfSeq DEF TypeOK

\* The three things Assemble can do with an entry.
LEMMA AssembleCases ==
  ASSUME TypeOK, NEW e \in Entry
  PROVE  /\ Assemble(e) \in Seq(Nat) /\ Len(Assemble(e)) <= FrameLen
         /\ \/ e.idx = 0 /\ Assemble(e) = <<e.f>>
            \/ /\ frame # <<>> /\ e.idx = Len(frame) /\ Len(frame) < FrameLen
               /\ Len(Assemble(e)) = Len(frame) + 1
               /\ Assemble(e)[Len(frame) + 1] = e.f
               /\ \A k \in 1 .. Len(frame) : Assemble(e)[k] = frame[k]
            \/ /\ e.idx # 0
               /\ ~(frame # <<>> /\ e.idx = Len(frame) /\ Len(frame) < FrameLen)
               /\ Assemble(e) = frame
<1>1. e.f \in Nat /\ <<e.f>> \in Seq(Nat) /\ Len(<<e.f>>) = 1
  BY DEF Entry
<1>. QED
  BY <1>1, AppendProperties DEF TypeOK, Assemble

LEMMA AnswersAreBytes ==
  ASSUME NEW c \in Commands
  PROVE  AnswersTo(c) \subseteq Seq(Byte)
PROOF
<1>1. \A n \in Nat : Data(n) \in Seq(Byte)
  BY DEF Data, Byte
<1>2. \A n \in Nat : Block(n) \in Seq(Byte)
  BY <1>1 DEF Block, Byte
<1>3. ReadAnswers \subseteq Seq(Byte)
  <2>1. <<"ack", "error">> \in Seq(Byte)
    BY DEF Byte
  <2>. QED BY <1>2, <2>1 DEF ReadAnswers
<1>4. {<<"nak">>, <<>>, Block(4), Block(1)} \subseteq Seq(Byte)
  BY <1>2 DEF Byte
<1>. QED BY <1>3, <1>4 DEF AnswersTo, SentAnswers

LEMMA TypeNext == TypeOK /\ [Next]_vars => TypeOK'
<1>. SUFFICES ASSUME TypeOK, [Next]_vars PROVE TypeOK'
  OBVIOUS
<1>. USE DEF TypeOK, Entry, line, txv, sw, ghost
<1>1. CASE CommandFall BY <1>1 DEF CommandFall
<1>2. CASE CommandByte
  <2>1. cmdByteCount \in 0 .. FrameLen /\ cmdByteCount' \in 0 .. FrameLen
    BY <1>2 DEF CommandByte
  <2>2. rx' \in Seq(Entry) /\ Len(rx') <= RxDepth /\ arrived' \in Nat
    BY <1>2, <2>1, PushedByte DEF CommandByte
  <2>. QED BY <1>2, <2>1, <2>2 DEF CommandByte
<1>3. CASE CommandRise BY <1>3 DEF CommandRise
<1>4. CASE DataByte BY <1>4, PushedByte DEF DataByte
<1>5. CASE SerializerLoad BY <1>5 DEF SerializerLoad
<1>6. CASE SerializerDone BY <1>6 DEF SerializerDone
<1>7. CASE Reset
  <2>1. 0 \in 0 .. FrameLen
    OBVIOUS
  <2>2. rx' \in Seq(Entry) /\ Len(rx') <= RxDepth
    BY <1>7, NoBytes DEF Reset
  <2>3. tx' \in Seq(Byte) /\ Len(tx') <= TxDepth
    BY <1>7, NoBytes DEF Reset
  <2>4. p2s' \in Seq(Byte) /\ Len(p2s') <= 1
    BY <1>7, NoBytes DEF Reset
  <2>5. cmdLow' \in BOOLEAN /\ held' \in BOOLEAN /\ txEnable' \in BOOLEAN
    BY <1>7 DEF Reset
  <2>6. resets' \in Nat /\ cmdByteCount' \in 0 .. FrameLen
    BY <1>7, <2>1 DEF Reset
  <2>7. UNCHANGED <<frames, sw, ghost>>
    BY <1>7 DEF Reset
  <2>. QED BY <2>2, <2>3, <2>4, <2>5, <2>6, <2>7
<1>8. CASE Release BY <1>8 DEF Release
<1>9. CASE Mount BY <1>9 DEF Mount
<1>10. CASE UnmountAll BY <1>10 DEF UnmountAll
<1>11. CASE PollBegin BY <1>11 DEF PollBegin
<1>12. CASE DrainPop BY <1>12, PoppedByte, AssembleCases DEF DrainPop
<1>13. CASE DrainZero
  <2>1. [idx |-> 0, f |-> 0] \in Entry
    OBVIOUS
  <2>2. frame' \in Seq(Nat) /\ Len(frame') <= FrameLen
    BY <1>13, <2>1, AssembleCases DEF DrainZero
  <2>. QED BY <1>13, <2>2 DEF DrainZero
<1>14. CASE PollNothing BY <1>14 DEF PollNothing
<1>15. CASE Dispatch BY <1>15, AnswersAreBytes DEF Dispatch
<1>16. CASE TxEnable BY <1>16 DEF TxEnable
<1>17. CASE TxByte BY <1>17 DEF TxByte
<1>18. CASE TxFifoEmpty BY <1>18 DEF TxFifoEmpty
<1>19. CASE TxIdle BY <1>19 DEF TxIdle
<1>20. CASE TxDisable BY <1>20 DEF TxDisable
<1>21. CASE UNCHANGED vars BY <1>21 DEF vars
<1>. QED
  BY <1>1, <1>2, <1>3, <1>4, <1>5, <1>6, <1>7, <1>8, <1>9, <1>10, <1>11, <1>12,
     <1>13, <1>14, <1>15, <1>16, <1>17, <1>18, <1>19, <1>20, <1>21
  DEF Next, Atari, Serializer, Poll

\* The FIFOs and variables of the SIO path stay within their depths and types.
THEOREM TypeCorrect == Spec => []TypeOK
  BY TypeInit, TypeNext, PTL DEF Spec

-----------------------------------------------------------------------------
(* No forged frame.  The argument is GapsAtDepth: a full FIFO loses bytes   *)
(* only before a drain's first pop, so behind the RxDepth entries that were *)
(* in it, and a drain takes RxDepth entries.                                *)

\* An entry the line can follow stays one while no byte is received.
LEMMA LineStillFollows ==
  ASSUME TypeOK, NEW a \in Entry, LineFollows(a),
         CommandFall \/ CommandRise \/ Reset \/ UNCHANGED line
  PROVE  LineFollows(a)'
<1>. USE DEF TypeOK, Entry, LineFollows, CanFollow, line
<1>1. CASE CommandFall BY <1>1 DEF CommandFall
<1>2. CASE CommandRise BY <1>2 DEF CommandRise
<1>3. CASE Reset BY <1>3 DEF Reset
<1>4. CASE UNCHANGED line BY <1>4
<1>. QED BY <1>1, <1>2, <1>3, <1>4

\* The byte being received, and the line after it.
Incoming == [idx |-> cmdByteCount, f |-> frames]

LEMMA IncomingByte ==
  ASSUME TypeOK, CommandByte \/ DataByte
  PROVE  /\ Incoming \in Entry
         /\ RxPush(Incoming.idx)
         /\ UNCHANGED <<pc, total, frame, frames>>
         /\ \A a : a = Incoming => LineFollows(a)'
         /\ \A a \in Entry : LineFollows(a) => CanFollow(a, Incoming)
<1>. USE DEF TypeOK, Entry, Incoming, LineFollows, CanFollow
<1>1. CASE CommandByte
  <2>1. cmdByteCount' = cmdByteCount + 1 /\ frames' = frames /\ cmdByteCount \in Nat
    BY <1>1 DEF CommandByte
  <2>2. \A a : a = Incoming => LineFollows(a)'
    BY <2>1
  <2>. QED BY <1>1, <2>2 DEF CommandByte, sw
<1>2. CASE DataByte
  BY <1>2 DEF DataByte, sw, line
<1>. QED BY <1>1, <1>2

\* A drain never meets a full FIFO between its pops.
LEMMA RoomInDrain ==
  ASSUME IInv, DrainKeepsUp, Popped > 0
  PROVE  Len(rx) < RxDepth
  BY DEF IInv, TypeOK, DrainCredit, DrainKeepsUp, Popped

LEMMA GapsReceive ==
  ASSUME IInv, CommandByte \/ DataByte
  PROVE  GapsAtDepth'
<1>. USE DEF IInv
<1>1. /\ Incoming \in Entry /\ RxPush(Incoming.idx) /\ Popped' = Popped
      /\ \A a : a = Incoming => LineFollows(a)'
      /\ \A a \in Entry : LineFollows(a) => CanFollow(a, Incoming)
  BY IncomingByte DEF Popped
<1>2. Incoming = [idx |-> Incoming.idx, f |-> frames] /\ Incoming.idx \in 0 .. FrameLen
  BY <1>1 DEF Incoming, Entry
<1>3. Len(rx) \in Nat /\ Popped \in Nat /\ \A i \in 1 .. Len(rx) : rx[i] \in Entry
  BY ElementOfSeq DEF TypeOK, Popped
<1>4. CASE Len(rx) < RxDepth
  <2>1. /\ Len(rx') = Len(rx) + 1 /\ rx'[Len(rx')] = Incoming
        /\ \A i \in 1 .. Len(rx) : rx'[i] = rx[i]
    BY <1>1, <1>2, <1>4, PushedByte
  <2>2. ASSUME NEW i \in 1 .. Len(rx') - 1, Popped + i # RxDepth
        PROVE  CanFollow(rx'[i], rx'[i + 1])
    <3>1. CASE i < Len(rx)
      <4>1. i \in 1 .. Len(rx) - 1 /\ rx'[i] = rx[i] /\ rx'[i + 1] = rx[i + 1]
        BY <1>3, <2>1, <3>1
      <4>. QED BY <2>2, <4>1 DEF GapsAtDepth
    <3>2. CASE i = Len(rx)
      <4>1. rx # <<>> /\ rx'[i] = rx[Len(rx)] /\ rx'[i + 1] = Incoming
        BY <1>3, <2>1, <3>2, NoBytes
      <4>2. LineFollows(rx[Len(rx)]) /\ rx[Len(rx)] \in Entry
        BY <1>3, <2>2, <3>2, <4>1 DEF GapsAtDepth
      <4>. QED BY <1>1, <4>1, <4>2
    <3>. QED BY <1>3, <2>1, <3>1, <3>2
  <2>3. LineFollows(rx[Len(rx)])'
    BY <1>1, <2>1 DEF LineFollows, CanFollow
  <2>. QED BY <1>1, <2>2, <2>3 DEF GapsAtDepth, CanFollow
<1>5. CASE Len(rx) >= RxDepth
  <2>1. rx' = rx
    BY <1>1, <1>2, <1>5, PushedByte
  <2>2. Popped = 0 /\ Len(rx) = RxDepth
    BY <1>1, <1>3, <1>5, RoomInDrain DEF RxPush, TypeOK
  <2>3. ASSUME NEW i \in 1 .. Len(rx') - 1, Popped' + i # RxDepth
        PROVE  CanFollow(rx'[i], rx'[i + 1])
    BY <1>1, <2>1, <2>3 DEF GapsAtDepth
  <2>4. Popped' + Len(rx') = RxDepth
    BY <1>1, <2>1, <2>2
  <2>. QED BY <2>3, <2>4 DEF GapsAtDepth, CanFollow
<1>. QED BY <1>3, <1>4, <1>5

\* The drain moves on one entry; nothing else changes.
LEMMA GapsPop ==
  ASSUME IInv, DrainPop
  PROVE  GapsAtDepth'
<1>1. /\ Popped' = Popped + 1 /\ Popped \in Nat
      /\ Len(rx') = Len(rx) - 1 /\ Len(rx) \in Nat \ {0}
      /\ \A i \in 1 .. Len(rx') : rx'[i] = rx[i + 1]
  BY PoppedByte DEF DrainPop, Popped, IInv, TypeOK
<1>2. UNCHANGED line
  BY DEF DrainPop
<1>3. ASSUME NEW i \in 1 .. Len(rx') - 1, Popped' + i # RxDepth
      PROVE  CanFollow(rx'[i], rx'[i + 1])
  <2>1. i + 1 \in 1 .. Len(rx) - 1 /\ Popped + (i + 1) # RxDepth
    BY <1>1, <1>3
  <2>2. rx'[i] = rx[i + 1] /\ rx'[i + 1] = rx[(i + 1) + 1]
    BY <1>1, <1>3
  <2>. QED BY <2>1, <2>2 DEF GapsAtDepth, IInv
<1>4. ASSUME rx' # <<>>, Popped' + Len(rx') # RxDepth
      PROVE  LineFollows(rx[Len(rx)])'
  <2>1. Len(rx') > 0
    BY <1>4, PoppedByte, EmptySeq DEF DrainPop, IInv
  <2>2. rx # <<>> /\ Popped + Len(rx) # RxDepth
    BY <1>1, <1>4 DEF DrainPop
  <2>3. rx'[Len(rx')] = rx[Len(rx)]
    <3>1. Len(rx') \in 1 .. Len(rx') /\ Len(rx') + 1 = Len(rx)
      BY <1>1, <2>1
    <3>. QED BY <1>1, <3>1
  <2>. QED BY <1>2, <2>2, <2>3 DEF GapsAtDepth, IInv, LineFollows, CanFollow, line
<1>. QED BY <1>3, <1>4 DEF GapsAtDepth, CanFollow

\* The drain ends: every entry it leaves was received after its first pop.
LEMMA GapsDrainDone ==
  ASSUME IInv, DrainDone, UNCHANGED <<rx, line>>, Popped' = 0
  PROVE  GapsAtDepth'
<1>1. Len(rx) \in Nat /\ (rx # <<>> => Len(rx) > 0)
  BY EmptySeq DEF IInv, TypeOK
<1>2. CASE rx = <<>>
  BY <1>2, NoBytes DEF GapsAtDepth
<1>3. CASE rx # <<>> /\ Popped = RxDepth
  <2>1. \A i \in 1 .. Len(rx) - 1 : CanFollow(rx[i], rx[i + 1])
    BY <1>1, <1>3 DEF GapsAtDepth, IInv
  <2>2. LineFollows(rx[Len(rx)])
    BY <1>1, <1>3 DEF GapsAtDepth, IInv
  <2>. QED BY <2>1, <2>2 DEF GapsAtDepth, LineFollows, CanFollow, line
<1>. QED BY <1>2, <1>3 DEF DrainDone, Popped

\* Steps that leave the FIFO and the drain's count alone.
LEMMA GapsStill ==
  ASSUME IInv, UNCHANGED rx, Popped' = Popped,
         CommandFall \/ CommandRise \/ UNCHANGED line
  PROVE  GapsAtDepth'
<1>1. ASSUME rx # <<>> PROVE rx[Len(rx)] \in Entry
  BY <1>1, EmptySeq, ElementOfSeq DEF IInv, TypeOK
<1>2. ASSUME rx # <<>>, Popped + Len(rx) # RxDepth
      PROVE  \A a : a = rx[Len(rx)] => LineFollows(a)'
  BY <1>1, <1>2, LineStillFollows DEF IInv, GapsAtDepth
<1>. QED BY <1>2 DEF IInv, GapsAtDepth, LineFollows, CanFollow

LEMMA GapsNext == IInv /\ [Next]_vars => GapsAtDepth'
<1>. SUFFICES ASSUME IInv, [Next]_vars PROVE GapsAtDepth'
  OBVIOUS
<1>. USE DEF line, txv, sw, ghost
<1>1. CASE CommandByte \/ DataByte BY <1>1, GapsReceive
<1>2. CASE DrainPop BY <1>2, GapsPop
<1>3. CASE PollNothing BY <1>3, GapsDrainDone DEF PollNothing, Popped
<1>4. CASE Dispatch BY <1>4, GapsDrainDone DEF Dispatch, Popped
<1>5. CASE Reset BY <1>5, NoBytes DEF Reset, GapsAtDepth
<1>6. CASE DrainZero
  <2>1. rx = <<>> /\ rx' = <<>>
    BY <1>6 DEF DrainZero, IInv, HeldIsQuiet
  <2>. QED BY <2>1, NoBytes DEF GapsAtDepth
<1>7. CASE CommandFall BY <1>7, GapsStill DEF CommandFall, Popped
<1>8. CASE CommandRise BY <1>8, GapsStill DEF CommandRise, Popped
<1>9. CASE SerializerLoad \/ SerializerDone
  BY <1>9, GapsStill DEF SerializerLoad, SerializerDone, Popped
<1>10. CASE Release \/ Mount \/ UnmountAll
  BY <1>10, GapsStill DEF Release, Mount, UnmountAll, Popped
<1>11. CASE PollBegin BY <1>11, GapsStill DEF PollBegin, Popped
<1>12. CASE TxEnable \/ TxByte BY <1>12, GapsStill DEF TxEnable, TxByte, Popped
<1>13. CASE TxFifoEmpty \/ TxIdle \/ TxDisable
  BY <1>13, GapsStill DEF TxFifoEmpty, TxIdle, TxDisable, Popped
<1>14. CASE UNCHANGED vars BY <1>14, GapsStill DEF vars, Popped
<1>. QED
  BY <1>1, <1>2, <1>3, <1>4, <1>5, <1>6, <1>7, <1>8, <1>9, <1>10, <1>11, <1>12,
     <1>13, <1>14
  DEF Next, Atari, Serializer, Poll

-----------------------------------------------------------------------------
LEMMA CreditNext == IInv /\ [Next]_vars => DrainCredit'
<1>. SUFFICES ASSUME IInv, [Next]_vars PROVE DrainCredit'
  OBVIOUS
<1>. USE DEF line, txv, sw, ghost, DrainCredit, IInv
<1>1. CASE CommandByte \/ DataByte
  <2>1. RxPush(Incoming.idx) /\ UNCHANGED <<pc, total>> /\ Incoming \in Entry
    BY <1>1, IncomingByte
  <2>2. Incoming.idx \in 0 .. FrameLen
    BY <2>1 DEF Entry
  <2>3. Len(rx) \in Nat
    BY EmptySeq DEF TypeOK
  <2>4. Len(rx') = Len(rx) + 1 \/ Len(rx') = Len(rx)
    <3>1. CASE Len(rx) < RxDepth
      BY <2>1, <2>2, <3>1, PushedByte
    <3>2. CASE Len(rx) >= RxDepth
      BY <2>1, <2>2, <3>2, PushedByte
    <3>. QED BY <2>3, <3>1, <3>2
  <2>5. SUFFICES ASSUME pc = "drain", total > 0
                 PROVE  arrived' <= total /\ Len(rx') + total <= RxDepth + arrived'
    BY <2>1
  <2>6. arrived' = arrived + 1 /\ arrived < total
    BY <2>1, <2>5 DEF RxPush, DrainKeepsUp
  <2>7. Len(rx') \in Nat
    BY <2>1, <2>2, PushedByte
  <2>. QED BY <2>3, <2>5, <2>6, <2>7, <2>4 DEF TypeOK
<1>2. CASE DrainPop
  <2>1. Len(rx') = Len(rx) - 1 /\ Len(rx) \in Nat
    BY <1>2, PoppedByte DEF DrainPop, TypeOK
  <2>. QED BY <1>2, <2>1 DEF DrainPop, TypeOK
<1>3. CASE DrainZero
  <2>1. Len(rx') = 0
    BY <1>3, NoBytes DEF DrainZero, HeldIsQuiet
  <2>. QED BY <1>3, <2>1 DEF DrainZero, TypeOK
<1>4. CASE Reset
  BY <1>4, NoBytes DEF Reset, TypeOK
<1>5. CASE PollBegin BY <1>5 DEF PollBegin
<1>6. CASE PollNothing \/ Dispatch BY <1>6 DEF PollNothing, Dispatch
<1>7. CASE CommandFall \/ CommandRise BY <1>7 DEF CommandFall, CommandRise
<1>8. CASE SerializerLoad \/ SerializerDone
  BY <1>8 DEF SerializerLoad, SerializerDone
<1>9. CASE Release \/ Mount \/ UnmountAll BY <1>9 DEF Release, Mount, UnmountAll
<1>10. CASE TxEnable \/ TxByte BY <1>10 DEF TxEnable, TxByte
<1>11. CASE TxFifoEmpty \/ TxIdle \/ TxDisable
  BY <1>11 DEF TxFifoEmpty, TxIdle, TxDisable
<1>12. CASE UNCHANGED vars BY <1>12 DEF vars
<1>. QED
  BY <1>1, <1>2, <1>3, <1>4, <1>5, <1>6, <1>7, <1>8, <1>9, <1>10, <1>11, <1>12
  DEF Next, Atari, Serializer, Poll

-----------------------------------------------------------------------------
(* The frame being assembled. *)

Last == [idx |-> Len(frame) - 1, f |-> frame[Len(frame)]]

\* An unfinished frame either takes the next entry for its next byte, or is
\* started afresh by it; in both cases the entry becomes its last byte.
LEMMA PendingTakes ==
  ASSUME IInv, DrainPop
  PROVE  /\ \/ frame' = <<rx[1].f>> /\ rx[1].idx = 0
            \/ /\ frame # <<>> /\ Len(frame') = Len(frame) + 1
               /\ rx[1].idx = Len(frame)
               /\ rx[1].f = frame[Len(frame)] /\ frame'[Len(frame')] = rx[1].f
               /\ \A k \in 1 .. Len(frame) : frame'[k] = frame[k]
            \/ frame' = frame /\ (frame = <<>> \/ Len(frame) = FrameLen)
         /\ frame' \in Seq(Nat)
<1>. USE DEF IInv
<1>1. rx[1] \in Entry /\ Head(rx) = rx[1] /\ frame' = Assemble(rx[1])
  BY PoppedByte DEF DrainPop
<1>2. ASSUME frame # <<>>, Len(frame) < FrameLen
      PROVE  CanFollow(Last, rx[1])
  BY <1>2 DEF DrainPop, PendingFrame, Last
<1>3. /\ Len(frame) \in Nat /\ Len(frame) <= FrameLen
      /\ frame # <<>> => Len(frame) > 0 /\ frame[Len(frame)] \in Nat
  BY EmptySeq, ElementOfSeq DEF TypeOK
<1>4. ASSUME frame # <<>>, Len(frame) < FrameLen, rx[1].idx # 0
      PROVE  rx[1].idx = Len(frame) /\ rx[1].f = frame[Len(frame)]
  BY <1>1, <1>2, <1>3, <1>4 DEF CanFollow, Last, Entry
<1>. QED
  BY <1>1, <1>3, <1>4, AssembleCases

\* The frame's bytes come from one command frame: all of them, and so the
\* next one.
LEMMA ForgedNext == IInv /\ [Next]_vars => NoForgedFrame'
<1>. SUFFICES ASSUME IInv, [Next]_vars PROVE NoForgedFrame'
  OBVIOUS
<1>. USE DEF line, txv, sw, ghost, IInv
<1>1. CASE DrainPop
  <2>1. DOMAIN frame = 1 .. Len(frame) /\ DOMAIN frame' = 1 .. Len(frame')
    BY <1>1, PendingTakes, LenProperties DEF TypeOK
  <2>2. Len(frame) \in Nat /\ (frame # <<>> => Len(frame) > 0)
    BY EmptySeq DEF TypeOK
  <2>3. CASE frame' = <<rx[1].f>>
    BY <2>3 DEF NoForgedFrame
  <2>4. CASE /\ frame # <<>> /\ Len(frame') = Len(frame) + 1
             /\ rx[1].f = frame[Len(frame)] /\ frame'[Len(frame')] = rx[1].f
             /\ \A k \in 1 .. Len(frame) : frame'[k] = frame[k]
    <3>1. \A k \in 1 .. Len(frame) : frame[k] = frame[Len(frame)]
      BY <2>1, <2>2, <2>4 DEF NoForgedFrame
    <3>2. \A k \in 1 .. Len(frame') : frame'[k] = frame[Len(frame)]
      BY <2>2, <2>4, <3>1
    <3>. QED BY <2>1, <3>2 DEF NoForgedFrame
  <2>5. CASE frame' = frame
    BY <2>5 DEF NoForgedFrame
  <2>. QED BY <1>1, <2>3, <2>4, <2>5, PendingTakes
<1>2. CASE DrainZero
  BY <1>2 DEF DrainZero, Assemble, NoForgedFrame
<1>3. CASE PollBegin
  BY <1>3 DEF PollBegin, NoForgedFrame
<1>4. CASE UNCHANGED frame
  BY <1>4 DEF NoForgedFrame
<1>. QED
  BY <1>1, <1>2, <1>3, <1>4
  DEF Next, Atari, Serializer, Poll, vars, CommandFall, CommandByte, CommandRise,
      DataByte, SerializerLoad, SerializerDone, Reset, Release, Mount, UnmountAll,
      PollNothing, Dispatch, TxEnable, TxByte, TxFifoEmpty, TxIdle, TxDisable

LEMMA HeldNext == IInv /\ [Next]_vars => HeldIsQuiet'
<1>. SUFFICES ASSUME IInv, [Next]_vars PROVE HeldIsQuiet'
  OBVIOUS
<1>. USE DEF line, txv, sw, ghost, IInv, HeldIsQuiet
<1>1. CASE CommandFall \/ CommandByte \/ CommandRise \/ DataByte
  BY <1>1 DEF CommandFall, CommandByte, CommandRise, DataByte
<1>2. CASE SerializerLoad \/ SerializerDone
  BY <1>2 DEF SerializerLoad, SerializerDone
<1>3. CASE Reset \/ Release BY <1>3 DEF Reset, Release
<1>4. CASE Mount \/ UnmountAll BY <1>4 DEF Mount, UnmountAll
<1>5. CASE PollBegin \/ DrainPop \/ DrainZero \/ PollNothing \/ Dispatch
  BY <1>5 DEF PollBegin, DrainPop, DrainZero, PollNothing, Dispatch
<1>6. CASE TxEnable \/ TxByte \/ TxFifoEmpty \/ TxIdle \/ TxDisable
  BY <1>6 DEF TxEnable, TxByte, TxFifoEmpty, TxIdle, TxDisable
<1>7. CASE UNCHANGED vars BY <1>7 DEF vars
<1>. QED
  BY <1>1, <1>2, <1>3, <1>4, <1>5, <1>6, <1>7 DEF Next, Atari, Serializer, Poll

LEMMA PendingNext == IInv /\ [Next]_vars => PendingFrame'
<1>. SUFFICES ASSUME IInv, [Next]_vars PROVE PendingFrame'
  OBVIOUS
<1>. USE DEF line, txv, sw, ghost, IInv
<1>1. CASE DrainPop
  <2>. SUFFICES ASSUME total' < RxDepth, frame' # <<>>, Len(frame') < FrameLen
                PROVE  IF rx' = <<>> THEN \A a : a = Last' => LineFollows(a)'
                                     ELSE CanFollow(Last', rx'[1])
    BY <1>1 DEF PendingFrame, Last, LineFollows, CanFollow
  <2>1. rx[1] \in Entry /\ Len(rx') = Len(rx) - 1 /\ Len(rx) \in Nat \ {0}
        /\ \A i \in 1 .. Len(rx') : rx'[i] = rx[i + 1]
    BY <1>1, PoppedByte DEF DrainPop, TypeOK
  <2>2. Last' = rx[1]
    <3>1. rx[1] = [idx |-> rx[1].idx, f |-> rx[1].f]
      BY <2>1 DEF Entry
    <3>2. CASE frame' = <<rx[1].f>> /\ rx[1].idx = 0
      BY <3>1, <3>2 DEF Last
    <3>3. CASE /\ Len(frame') = Len(frame) + 1 /\ rx[1].idx = Len(frame)
               /\ frame'[Len(frame')] = rx[1].f
      BY <3>1, <3>3, LenProperties DEF Last, TypeOK
    <3>. QED BY <1>1, <3>2, <3>3, PendingTakes
  <2>3. CASE rx' = <<>>
    <3>1. Len(rx) = 1 /\ rx # <<>> /\ Popped + Len(rx) # RxDepth
      <4>1. Len(rx) = 1 /\ rx # <<>>
        <5>1. Len(rx') = 0
          BY <2>3, NoBytes
        <5>2. Len(rx) = 1
          BY <2>1, <5>1
        <5>. QED BY <1>1, <5>2 DEF DrainPop
      <4>2. Popped = total /\ total + 1 < RxDepth /\ total \in Nat
        BY <1>1 DEF DrainPop, Popped, TypeOK
      <4>. QED BY <4>1, <4>2
    <3>2. LineFollows(rx[1])
      BY <3>1 DEF GapsAtDepth
    <3>. QED BY <1>1, <2>2, <2>3, <3>2 DEF DrainPop, LineFollows, CanFollow
  <2>4. CASE rx' # <<>>
    <3>1. Len(rx') > 0 /\ Len(rx') \in Nat
      BY <1>1, <2>1, <2>4, PoppedByte, EmptySeq DEF DrainPop
    <3>2. 1 \in 1 .. Len(rx) - 1 /\ Popped + 1 # RxDepth
      BY <1>1, <2>1, <3>1 DEF DrainPop, Popped, TypeOK
    <3>3. rx'[1] = rx[1 + 1]
      BY <2>1, <3>1
    <3>. QED BY <2>2, <2>4, <3>2, <3>3 DEF GapsAtDepth
  <2>. QED BY <2>3, <2>4
<1>2. CASE CommandByte \/ DataByte
  <2>. SUFFICES ASSUME pc = "drain", total < RxDepth, frame # <<>>, Len(frame) < FrameLen
                PROVE  IF rx' = <<>> THEN \A a : a = Last => LineFollows(a)'
                                     ELSE CanFollow(Last, rx'[1])
    BY <1>2, IncomingByte DEF PendingFrame, Last, LineFollows, CanFollow
  <2>1. /\ Incoming \in Entry /\ RxPush(Incoming.idx) /\ Incoming.idx \in 0 .. FrameLen
        /\ Incoming = [idx |-> Incoming.idx, f |-> frames]
        /\ \A a \in Entry : LineFollows(a) => CanFollow(a, Incoming)
    BY <1>2, IncomingByte DEF Entry, Incoming
  <2>2. Last \in Entry
    BY EmptySeq, ElementOfSeq DEF Last, Entry, TypeOK
  <2>3. CASE rx = <<>>
    <3>1. LineFollows(Last)
      BY <2>3 DEF PendingFrame, Last
    <3>2. Len(rx) = 0 /\ Len(rx) < RxDepth
      BY <2>3, NoBytes
    <3>3. Len(rx') = 1 /\ rx'[1] = Incoming
      BY <2>1, <3>2, PushedByte
    <3>4. rx' # <<>>
      BY <3>3, NoBytes
    <3>5. CanFollow(Last, Incoming)
      BY <2>1, <2>2, <3>1
    <3>. QED BY <3>3, <3>4, <3>5
  <2>4. CASE rx # <<>>
    <3>1. CanFollow(Last, rx[1])
      BY <2>4 DEF PendingFrame, Last
    <3>2. Len(rx) \in Nat \ {0}
      BY <2>4, EmptySeq DEF TypeOK
    <3>3. rx'[1] = rx[1] /\ Len(rx') > 0
      <4>1. CASE Len(rx) < RxDepth
        BY <2>1, <3>2, <4>1, PushedByte
      <4>2. CASE Len(rx) >= RxDepth
        BY <2>1, <3>2, <4>2, PushedByte
      <4>. QED BY <3>2, <4>1, <4>2
    <3>. QED BY <3>1, <3>3, NoBytes
  <2>. QED BY <2>3, <2>4
<1>3. CASE DrainZero
  <2>1. rx' = <<>> /\ ~cmdLow /\ cmdByteCount = 0 /\ frame' = <<0>>
    BY <1>3 DEF DrainZero, HeldIsQuiet, Assemble
  <2>. QED BY <1>3, <2>1 DEF DrainZero, PendingFrame, LineFollows, CanFollow, TypeOK
<1>4. CASE Reset
  <2>1. frame # <<>> => Len(frame) \in 1 .. Len(frame)
    BY EmptySeq DEF TypeOK
  <2>2. frame # <<>> => frame[Len(frame)] <= frames
    BY <2>1 DEF FramesInOrder, BeforeLine
  <2>. QED BY <1>4, <2>2 DEF Reset, PendingFrame, LineFollows, CanFollow
<1>5. CASE CommandFall \/ CommandRise
  <2>. SUFFICES ASSUME pc = "drain", total < RxDepth, frame # <<>>, Len(frame) < FrameLen
                PROVE  IF rx = <<>> THEN \A a : a = Last => LineFollows(a)'
                                    ELSE CanFollow(Last, rx[1])
    <3>1. UNCHANGED <<rx, pc, total, frame>>
      BY <1>5 DEF CommandFall, CommandRise
    <3>. QED BY <3>1 DEF PendingFrame, Last, LineFollows, CanFollow
  <2>1. Last \in Entry
    BY EmptySeq, ElementOfSeq DEF Last, Entry, TypeOK
  <2>. QED BY <1>5, <2>1, LineStillFollows DEF PendingFrame, Last
<1>6. CASE pc' # "drain"
  BY <1>6 DEF PendingFrame
<1>7. CASE PollBegin
  BY <1>7 DEF PollBegin, PendingFrame
<1>8. CASE UNCHANGED <<line, rx, pc, total, frame>>
  BY <1>8 DEF PendingFrame, LineFollows, CanFollow
<1>. QED
  BY <1>1, <1>2, <1>3, <1>4, <1>5, <1>6, <1>7, <1>8
  DEF Next, Atari, Serializer, Poll, vars, SerializerLoad, SerializerDone, Release,
      Mount, UnmountAll, PollNothing, Dispatch, TxEnable, TxByte, TxFifoEmpty, TxIdle,
      TxDisable

-----------------------------------------------------------------------------
(* The order of the frames. *)

\* What is over stays over: the line only moves on.
LEMMA StillBeforeLine ==
  ASSUME IInv, NEW g \in Nat, BeforeLine(g),
         Atari \/ Reset \/ UNCHANGED line
  PROVE  BeforeLine(g)'
<1>. USE DEF IInv, TypeOK, BeforeLine, line
<1>1. CASE CommandFall BY <1>1 DEF CommandFall
<1>2. CASE CommandByte BY <1>2 DEF CommandByte
<1>3. CASE CommandRise BY <1>3 DEF CommandRise
<1>4. CASE DataByte BY <1>4 DEF DataByte
<1>5. CASE Reset BY <1>5 DEF Reset
<1>6. CASE UNCHANGED line BY <1>6
<1>. QED BY <1>1, <1>2, <1>3, <1>4, <1>5, <1>6 DEF Atari

\* Whatever is before the line is before the byte it brings.
LEMMA BeforeIncoming ==
  ASSUME IInv, CommandByte \/ DataByte
  PROVE  /\ frames > 0 /\ BeforeLine(frames)'
         /\ \A g \in Nat : BeforeLine(g) => Before(g, Incoming)
<1>. USE DEF IInv, TypeOK, BeforeLine, Before, Incoming, FramesInOrder
<1>1. CASE CommandByte BY <1>1 DEF CommandByte
<1>2. CASE DataByte BY <1>2 DEF DataByte, line
<1>. QED BY <1>1, <1>2

\* The FIFO's entries keep the three orders when a byte comes in.
LEMMA OrderReceive ==
  ASSUME IInv, CommandByte \/ DataByte
  PROVE  FramesInOrder'
<1>. USE DEF IInv
<1>1. /\ Incoming \in Entry /\ RxPush(Incoming.idx) /\ Incoming.idx \in 0 .. FrameLen
      /\ Incoming = [idx |-> Incoming.idx, f |-> frames]
      /\ UNCHANGED <<pc, frame, frames>>
  BY IncomingByte DEF Entry, Incoming
<1>2. served' = served
  BY DEF CommandByte, DataByte
<1>3. \A g \in Nat : BeforeLine(g) => BeforeLine(g)' /\ Before(g, Incoming)
  BY StillBeforeLine, BeforeIncoming DEF Atari
<1>4. Len(rx) \in Nat /\ \A i \in 1 .. Len(rx) : rx[i] \in Entry /\ rx[i].f \in Nat
  <2>1. Len(rx) \in Nat /\ \A i \in 1 .. Len(rx) : rx[i] \in Entry
    BY EmptySeq, ElementOfSeq DEF TypeOK
  <2>. QED BY <2>1 DEF Entry
<1>5. \A k \in 1 .. Len(frame) : frame[k] \in Nat
  BY ElementOfSeq DEF TypeOK
<1>6. served \in Nat /\ BeforeLine(served)'
  BY <1>2, <1>3 DEF TypeOK, FramesInOrder, BeforeLine
<1>7. Incoming.f = frames /\ frames > 0 /\ BeforeLine(frames)'
  BY BeforeIncoming DEF Incoming
<1>8. \A i \in 1 .. Len(rx') :
        \/ i \in 1 .. Len(rx) /\ rx'[i] = rx[i]
        \/ i = Len(rx) + 1 /\ i = Len(rx') /\ rx'[i] = Incoming
  <2>1. CASE Len(rx) < RxDepth
    <3>1. /\ Len(rx') = Len(rx) + 1 /\ rx'[Len(rx')] = Incoming
          /\ \A i \in 1 .. Len(rx) : rx'[i] = rx[i]
      BY <1>1, <2>1, PushedByte
    <3>. QED BY <1>4, <3>1
  <2>2. CASE Len(rx) >= RxDepth
    BY <1>1, <2>2, PushedByte
  <2>. QED BY <1>4, <2>1, <2>2
<1>9. cmdLow' \/ cmdByteCount' > 0 => frames' > 0
  BY <1>1, <1>7
<1>10. ASSUME NEW i \in 1 .. Len(rx')
       PROVE  /\ rx'[i].f > 0 /\ BeforeLine(rx[i].f)' /\ Before(served', rx'[i])
              /\ pc = "drain" => \A k \in 1 .. Len(frame) : Before(frame[k], rx'[i])
  <2>1. CASE i \in 1 .. Len(rx) /\ rx'[i] = rx[i]
    <3>1. BeforeLine(rx[i].f)'
      BY <1>3, <1>4, <2>1 DEF FramesInOrder, BeforeLine
    <3>. QED BY <1>2, <2>1, <3>1 DEF FramesInOrder
  <2>2. CASE rx'[i] = Incoming
    <3>1. BeforeLine(rx[i].f)'
      BY <1>1, <1>7, <2>2 DEF BeforeLine
    <3>2. Before(served', rx'[i])
      BY <1>2, <1>3, <1>6, <2>2 DEF FramesInOrder
    <3>3. \A k \in 1 .. Len(frame) : Before(frame[k], rx'[i])
      BY <1>3, <1>5, <2>2 DEF FramesInOrder
    <3>. QED BY <1>7, <2>2, <3>1, <3>2, <3>3
  <2>. QED BY <1>8, <2>1, <2>2
<1>11. ASSUME NEW i \in 1 .. Len(rx'), NEW j \in 1 .. Len(rx'), i < j
       PROVE  Before(rx'[i].f, rx'[j])
  <2>1. i \in 1 .. Len(rx) /\ rx'[i] = rx[i]
    BY <1>4, <1>8, <1>11
  <2>2. CASE j \in 1 .. Len(rx) /\ rx'[j] = rx[j]
    BY <1>11, <2>1, <2>2 DEF FramesInOrder
  <2>3. CASE rx'[j] = Incoming
    BY <1>3, <1>4, <2>1, <2>3 DEF FramesInOrder
  <2>. QED BY <1>8, <2>2, <2>3
<1>12. ASSUME NEW k \in 1 .. Len(frame)
       PROVE  BeforeLine(frame[k])'
  BY <1>1, <1>3, <1>5 DEF FramesInOrder, BeforeLine
<1>13. pc = "drain" => frame = <<>> \/ frame = <<0>> \/ frame[1] > served
  BY DEF FramesInOrder
<1>. QED
  BY <1>1, <1>2, <1>6, <1>9, <1>10, <1>11, <1>12, <1>13 DEF FramesInOrder, BeforeLine, Before

\* A pop hands the head of the FIFO to the frame.
LEMMA OrderPop ==
  ASSUME IInv, DrainPop
  PROVE  FramesInOrder'
<1>. USE DEF IInv
<1>1. /\ Len(rx) \in Nat \ {0} /\ rx[1] \in Entry /\ Len(rx') = Len(rx) - 1
      /\ \A i \in 1 .. Len(rx') : rx'[i] = rx[i + 1] /\ i + 1 \in 1 .. Len(rx)
  BY PoppedByte DEF DrainPop, TypeOK
<1>2. UNCHANGED <<line, served, pc>> /\ pc = "drain"
  BY DEF DrainPop
<1>3. Len(frame) \in Nat /\ frame \in Seq(Nat)
  BY EmptySeq DEF TypeOK
<1>4. ASSUME NEW k \in 1 .. Len(frame')
      PROVE  frame'[k] = rx[1].f \/ (k \in 1 .. Len(frame) /\ frame'[k] = frame[k])
  <2>1. CASE frame' = <<rx[1].f>>
    BY <2>1
  <2>2. CASE /\ Len(frame') = Len(frame) + 1 /\ frame'[Len(frame')] = rx[1].f
             /\ \A j \in 1 .. Len(frame) : frame'[j] = frame[j]
    BY <1>3, <2>2
  <2>3. CASE frame' = frame
    BY <2>3
  <2>. QED BY <2>1, <2>2, <2>3, PendingTakes
<1>5. ASSUME NEW k \in 1 .. Len(frame')
      PROVE  /\ BeforeLine(frame'[k])
             /\ \A i \in 1 .. Len(rx') : Before(frame'[k], rx'[i])
  <2>1. CASE frame'[k] = rx[1].f
    <3>1. 1 \in 1 .. Len(rx)
      BY <1>1
    <3>2. \A i \in 1 .. Len(rx') : 1 < i + 1
      BY <1>1
    <3>. QED BY <1>1, <2>1, <3>1, <3>2 DEF FramesInOrder
  <2>2. CASE k \in 1 .. Len(frame) /\ frame'[k] = frame[k]
    BY <1>1, <1>2, <2>2 DEF FramesInOrder
  <2>. QED BY <1>4, <2>1, <2>2
<1>6. ASSUME NEW i \in 1 .. Len(rx')
      PROVE  rx'[i].f > 0 /\ BeforeLine(rx'[i].f) /\ Before(served, rx'[i])
  BY <1>1, <1>6 DEF FramesInOrder
<1>7. ASSUME NEW i \in 1 .. Len(rx'), NEW j \in 1 .. Len(rx'), i < j
      PROVE  Before(rx'[i].f, rx'[j])
  <2>1. i + 1 < j + 1
    BY <1>7
  <2>. QED BY <1>1, <2>1 DEF FramesInOrder
<1>8. frame' = <<>> \/ frame' = <<0>> \/ frame'[1] > served
  <2>1. 1 \in 1 .. Len(rx) /\ rx[1].f > 0 /\ Before(served, rx[1])
    BY <1>1 DEF FramesInOrder
  <2>2. CASE frame' = <<rx[1].f>> /\ rx[1].idx = 0
    BY <2>1, <2>2 DEF Before, TypeOK, Entry
  <2>3. CASE /\ frame # <<>> /\ rx[1].f = frame[Len(frame)]
             /\ \A j \in 1 .. Len(frame) : frame'[j] = frame[j]
    <3>1. 1 \in 1 .. Len(frame)
      BY <1>3, <2>3, EmptySeq
    <3>2. frame # <<0>>
      BY <2>1, <2>3
    <3>. QED BY <1>2, <2>3, <3>1, <3>2 DEF FramesInOrder
  <2>4. CASE frame' = frame
    BY <1>2, <2>4 DEF FramesInOrder
  <2>. QED BY <2>2, <2>3, <2>4, PendingTakes
<1>. QED
  BY <1>2, <1>5, <1>6, <1>7, <1>8 DEF FramesInOrder, BeforeLine, Before, line

\* A whole frame is later than every frame answered, and over before
\* whatever is left in the FIFO: it may be answered.
LEMMA WholeFrame ==
  ASSUME IInv, DrainDone, Len(frame) = FrameLen
  PROVE  /\ frame[1] \in Nat /\ frame[1] > served /\ BeforeLine(frame[1])
         /\ \A i \in 1 .. Len(rx) : Before(frame[1], rx[i])
<1>. USE DEF IInv
<1>1. 1 \in 1 .. Len(frame) /\ frame # <<>> /\ frame # <<0>>
  BY NoBytes
<1>. QED BY <1>1, ElementOfSeq DEF DrainDone, FramesInOrder, TypeOK

LEMMA OrderNext == IInv /\ [Next]_vars => FramesInOrder'
<1>. SUFFICES ASSUME IInv, [Next]_vars PROVE FramesInOrder'
  OBVIOUS
<1>. USE DEF line, txv, sw, ghost, IInv
<1>1. CASE CommandByte \/ DataByte BY <1>1, OrderReceive
<1>2. CASE DrainPop BY <1>2, OrderPop
<1>3. CASE DrainZero
  <2>1. rx = <<>> /\ rx' = <<>> /\ frame' = <<0>> /\ ~cmdLow /\ cmdByteCount = 0
    BY <1>3 DEF DrainZero, HeldIsQuiet, Assemble
  <2>2. UNCHANGED <<line, served>>
    BY <1>3 DEF DrainZero
  <2>. QED BY <2>1, <2>2, NoBytes DEF FramesInOrder, BeforeLine, Before, TypeOK
<1>4. CASE Reset
  <2>1. rx' = <<>> /\ ~cmdLow' /\ cmdByteCount' = 0 /\ UNCHANGED <<frames, pc, frame, served>>
    BY <1>4 DEF Reset
  <2>. QED BY <2>1, NoBytes DEF FramesInOrder, BeforeLine, Before, TypeOK
<1>5. CASE CommandFall
  <2>1. cmdLow' /\ frames' = frames + 1 /\ UNCHANGED <<rx, pc, frame, served>>
    BY <1>5 DEF CommandFall
  <2>2. \A i \in 1 .. Len(rx) : rx[i].f \in Nat
    <3>1. \A i \in 1 .. Len(rx) : rx[i] \in Entry
      BY ElementOfSeq DEF TypeOK
    <3>. QED BY <3>1 DEF Entry
  <2>3. \A k \in 1 .. Len(frame) : frame[k] \in Nat
    BY ElementOfSeq DEF TypeOK
  <2>4. \A g \in Nat : BeforeLine(g) => BeforeLine(g)'
    BY <1>5, StillBeforeLine DEF Atari
  <2>5. served \in Nat /\ frames' > 0
    BY <2>1 DEF TypeOK
  <2>6. \A i \in 1 .. Len(rx) : BeforeLine(rx[i].f)'
    BY <2>1, <2>2, <2>4 DEF FramesInOrder, BeforeLine
  <2>7. \A k \in 1 .. Len(frame) : BeforeLine(frame[k])'
    BY <2>1, <2>3, <2>4 DEF FramesInOrder, BeforeLine
  <2>8. BeforeLine(served)'
    BY <2>1, <2>4, <2>5 DEF FramesInOrder, BeforeLine
  <2>. QED BY <2>1, <2>5, <2>6, <2>7, <2>8 DEF FramesInOrder, BeforeLine, Before
<1>6. CASE CommandRise
  BY <1>6 DEF CommandRise, FramesInOrder, BeforeLine, Before
<1>7. CASE Dispatch
  <2>1. UNCHANGED <<line, rx, frame>> /\ pc' # "drain" /\ served' \in {served, frame[1]}
    BY <1>7 DEF Dispatch
  <2>2. CASE served' = served
    BY <2>1, <2>2 DEF FramesInOrder, BeforeLine, Before
  <2>3. CASE served' = frame[1]
    BY <1>7, <2>1, <2>3, WholeFrame DEF Dispatch, FramesInOrder, BeforeLine, Before
  <2>. QED BY <2>1, <2>2, <2>3
<1>8. CASE PollBegin
  BY <1>8, NoBytes DEF PollBegin, FramesInOrder, BeforeLine, Before
<1>9. CASE UNCHANGED <<line, rx, frame, served>> /\ (pc' = "drain" => pc = "drain")
  BY <1>9 DEF FramesInOrder, BeforeLine, Before
<1>. QED
  BY <1>1, <1>2, <1>3, <1>4, <1>5, <1>6, <1>7, <1>8, <1>9
  DEF Next, Atari, Serializer, Poll, vars, SerializerLoad, SerializerDone, Release,
      Mount, UnmountAll, PollNothing, TxEnable, TxByte, TxFifoEmpty, TxIdle, TxDisable

-----------------------------------------------------------------------------
(* The answer on its way: what is heard, shifting, queued and unwritten.    *)

\* A nonempty sequence is its head and its tail.
LEMMA HeadAndTail ==
  ASSUME NEW S, NEW t \in Seq(S), t # <<>>
  PROVE  /\ Head(t) \in S /\ <<Head(t)>> \in Seq(S) /\ Tail(t) \in Seq(S)
         /\ <<Head(t)>> \o Tail(t) = t
<1>1. /\ Head(t) \in S /\ Tail(t) \in Seq(S) /\ Len(Tail(t)) = Len(t) - 1
      /\ Head(t) = t[1] /\ \A i \in 1 .. Len(Tail(t)) : Tail(t)[i] = t[i + 1]
  BY HeadTailProperties
<1>2. <<Head(t)>> \in Seq(S) /\ Len(<<Head(t)>>) = 1 /\ <<Head(t)>>[1] = Head(t)
  BY <1>1
<1>3. Len(t) \in Nat \ {0}
  BY EmptySeq
<1>4. /\ <<Head(t)>> \o Tail(t) \in Seq(S) /\ Len(<<Head(t)>> \o Tail(t)) = Len(t)
      /\ \A i \in 1 .. Len(t) : (<<Head(t)>> \o Tail(t))[i] = t[i]
  BY <1>1, <1>2, <1>3, ConcatProperties
<1>. QED BY <1>1, <1>2, <1>4, SeqEqual

\* Taking a byte into the idle serializer changes no byte of the answer.
LEMMA LoadKeepsAnswer ==
  ASSUME NEW h \in Seq(Byte), NEW t \in Seq(Byte), NEW u \in Seq(Byte), t # <<>>
  PROVE  h \o <<Head(t)>> \o Tail(t) \o u = h \o <<>> \o t \o u
<1>1. /\ <<Head(t)>> \in Seq(Byte) /\ Tail(t) \in Seq(Byte)
      /\ <<Head(t)>> \o Tail(t) = t
  BY HeadAndTail
<1>2. h \o <<Head(t)>> \o Tail(t) = h \o t
  BY <1>1, ConcatAssociative
<1>3. h \o <<>> = h
  BY ConcatEmptySeq
<1>. QED BY <1>2, <1>3

\* Nor does writing a byte to the TX FIFO.
LEMMA WriteKeepsAnswer ==
  ASSUME NEW s \in Seq(Byte), NEW t \in Seq(Byte), NEW u \in Seq(Byte), u # <<>>
  PROVE  s \o Append(t, Head(u)) \o Tail(u) = s \o t \o u
<1>1. /\ Head(u) \in Byte /\ <<Head(u)>> \in Seq(Byte) /\ Tail(u) \in Seq(Byte)
      /\ <<Head(u)>> \o Tail(u) = u
  BY HeadAndTail
<1>2. Append(t, Head(u)) = t \o <<Head(u)>>
  BY <1>1, AppendIsConcat
<1>3. s \o (t \o <<Head(u)>>) = (s \o t) \o <<Head(u)>>
  BY <1>1, ConcatAssociative
<1>4. s \o t \in Seq(Byte)
  BY ConcatProperties
<1>5. (s \o t) \o <<Head(u)>> \o Tail(u) = (s \o t) \o (<<Head(u)>> \o Tail(u))
  BY <1>1, <1>4, ConcatAssociative
<1>. QED BY <1>1, <1>2, <1>3, <1>5

\* The answer from heard to todo.
OnItsWay == heard \o p2s \o tx \o todo

\* Every answer that is not empty is one of SentAnswers.
LEMMA AnswerIsSent ==
  ASSUME NEW c \in Commands, NEW a \in AnswersTo(c), a # <<>>
  PROVE  a \in SentAnswers
  BY DEF AnswersTo, SentAnswers

LEMMA StagesNext == IInv /\ [Next]_vars => AnswerStages'
<1>. SUFFICES ASSUME IInv, [Next]_vars PROVE AnswerStages'
  OBVIOUS
<1>. USE DEF IInv, line, txv, sw, ghost, AnswerStages, Answering
<1>1. CASE SerializerLoad
  <2>1. /\ heard' = heard /\ p2s' = <<Head(tx)>> /\ tx' = Tail(tx) /\ todo' = todo
        /\ p2s = <<>> /\ tx # <<>> /\ txEnable /\ UNCHANGED <<pc, txEnable, frame>>
    BY <1>1 DEF SerializerLoad
  <2>2. heard' \o p2s' \o tx' \o todo' = heard \o p2s \o tx \o todo
    BY <2>1, LoadKeepsAnswer DEF TypeOK
  <2>. QED BY <2>1, <2>2 DEF TypeOK
<1>2. CASE SerializerDone
  <2>1. /\ p2s # <<>> /\ p2s' = <<>> /\ heard' = heard \o p2s
        /\ UNCHANGED <<tx, todo, pc, txEnable, frame>>
    BY <1>2 DEF SerializerDone
  <2>2. heard \o p2s \in Seq(Byte)
    BY ConcatProperties DEF TypeOK
  <2>3. heard' \o p2s' = heard \o p2s
    BY <2>1, <2>2, ConcatEmptySeq
  <2>4. heard' \o p2s' \o tx' \o todo' = heard \o p2s \o tx \o todo
    BY <2>1, <2>3
  <2>. QED BY <2>1, <2>4 DEF TypeOK
<1>3. CASE TxByte
  <2>1. CASE held
    <3>1. ~txEnable /\ tx' = tx
      BY <1>3, <2>1 DEF TxByte, HeldIsQuiet
    <3>. QED BY <1>3, <3>1 DEF TxByte
  <2>2. CASE ~held
    <3>1. /\ tx' = Append(tx, Head(todo)) /\ todo' = Tail(todo) /\ todo # <<>>
          /\ pc = "send" /\ UNCHANGED <<heard, p2s, pc, txEnable, frame>>
      BY <1>3, <2>2 DEF TxByte
    <3>2. heard \o p2s \in Seq(Byte)
      BY ConcatProperties DEF TypeOK
    <3>3. heard' \o p2s' \o tx' \o todo' = heard \o p2s \o tx \o todo
      BY <3>1, <3>2, WriteKeepsAnswer DEF TypeOK
    <3>. QED BY <3>1, <3>3
  <2>. QED BY <2>1, <2>2
<1>4. CASE Dispatch
  <2>1. /\ pc = "drain" /\ heard' = <<>> /\ Len(frame) = FrameLen
        /\ UNCHANGED <<tx, p2s, txEnable, frame>>
        /\ pc' = IF todo' = <<>> THEN "idle" ELSE "enable"
    BY <1>4 DEF Dispatch, DrainDone
  <2>2. PICK c \in Commands : todo' \in AnswersTo(c)
    BY <1>4 DEF Dispatch
  <2>3. todo' \in Seq(Byte)
    BY <2>2, AnswersAreBytes
  <2>4. heard' \o p2s' \o tx' \o todo' = todo'
    <3>1. <<>> \o <<>> = <<>>
      BY NoBytes, ConcatEmptySeq
    <3>2. <<>> \o todo' = todo'
      BY <2>3, ConcatEmptySeq
    <3>. QED BY <2>1, <3>1, <3>2
  <2>5. todo' # <<>> => todo' \in SentAnswers
    BY <2>2, AnswerIsSent
  <2>. QED BY <2>1, <2>4, <2>5
<1>5. CASE Reset
  BY <1>5 DEF Reset
<1>6. CASE TxEnable
  BY <1>6 DEF TxEnable
<1>7. CASE TxFifoEmpty
  BY <1>7 DEF TxFifoEmpty
<1>8. CASE TxIdle
  BY <1>8 DEF TxIdle, HeldIsQuiet
<1>9. CASE TxDisable
  BY <1>9 DEF TxDisable
<1>10. CASE /\ UNCHANGED <<txv, todo, heard>> /\ pc \in {"idle", "drain"}
            /\ pc' \in {"idle", "drain"}
  BY <1>10
<1>11. CASE UNCHANGED <<txv, todo, heard, pc, frame>>
  BY <1>11
<1>. QED
  BY <1>1, <1>2, <1>3, <1>4, <1>5, <1>6, <1>7, <1>8, <1>9, <1>10, <1>11
  DEF Next, Atari, Serializer, Poll, vars, CommandFall, CommandByte, CommandRise, DataByte,
      Release, Mount, UnmountAll, PollBegin, DrainPop, DrainZero, PollNothing, DrainDone

-----------------------------------------------------------------------------
LEMMA InvInit == Init => IInv
<1>. SUFFICES ASSUME Init PROVE IInv
  OBVIOUS
<1>. USE NoBytes DEF Init
<1>1. TypeOK
  BY TypeInit
<1>2. NoForgedFrame
  BY DEF NoForgedFrame
<1>3. GapsAtDepth
  BY DEF GapsAtDepth
<1>4. DrainCredit /\ PendingFrame /\ HeldIsQuiet
  BY DEF DrainCredit, PendingFrame, HeldIsQuiet
<1>5. FramesInOrder
  BY DEF FramesInOrder, BeforeLine
<1>6. AnswerStages
  BY DEF AnswerStages, Answering
<1>. QED BY <1>1, <1>2, <1>3, <1>4, <1>5, <1>6 DEF IInv

LEMMA InvNext == IInv /\ [Next]_vars => IInv'
  BY TypeNext, ForgedNext, GapsNext, CreditNext, PendingNext, HeldNext, OrderNext, StagesNext
  DEF IInv

\* The inductive invariant: where bytes can be missing, what a frame being
\* assembled waits for, and in which order frames and answers move.
THEOREM Inductive == Spec => []IInv
  BY InvInit, InvNext, PTL DEF Spec

\* sio_poll never puts bytes of two command frames together, whatever the
\* FIFO dropped while the supervisor was away: for every frame length, FIFO
\* depth and number of frames.
THEOREM FramesAreGenuine == Spec => []NoForgedFrame
<1>1. IInv => NoForgedFrame
  BY DEF IInv
<1>. QED BY <1>1, Inductive, PTL

(***************************************************************************)
(* SioLink implements SioService: every step of the line, the bridge and   *)
(* sio_poll is a step of the service under the mapping of SioLink, or none. *)
(***************************************************************************)

\* The mapped variables.
SAnswer == IF Answering THEN OnItsWay ELSE <<>>
SHeard  == IF Answering THEN heard ELSE <<>>

LEMMA Mapping ==
  /\ Service!vars = <<frames, served, SAnswer, SHeard, held>>
  /\ Service!NoAnswer <=> SAnswer' = <<>> /\ SHeard' = <<>>
  BY DEF Service!vars, Service!NoAnswer, SAnswer, SHeard, OnItsWay

LEMMA AnswersAreNotEmpty == <<>> \notin SentAnswers
<1>1. ASSUME NEW n \in Nat PROVE Block(n) # <<>>
  <2>1. Data(n) \in Seq(Byte) /\ Len(Data(n)) = n
    BY <1>1 DEF Data, Byte
  <2>2. <<"ack", "complete">> \in Seq(Byte) /\ <<"sum">> \in Seq(Byte)
    BY DEF Byte
  <2>3. /\ <<"ack", "complete">> \o Data(n) \in Seq(Byte)
        /\ Len(<<"ack", "complete">> \o Data(n)) = 2 + n
    BY <2>1, <2>2, ConcatProperties
  <2>4. Len(Block(n)) = 2 + n + 1
    BY <2>2, <2>3, ConcatProperties DEF Block
  <2>. QED BY <2>4, NoBytes
<1>2. <<"ack", "error">> # <<>> /\ <<"nak">> # <<>>
  OBVIOUS
<1>3. \A n \in SectorLens : Block(n) # <<>>
  BY <1>1
<1>4. Block(4) # <<>> /\ Block(1) # <<>>
  BY <1>1
<1>. QED BY <1>2, <1>3, <1>4 DEF SentAnswers, ReadAnswers

LEMMA ServiceInit == Init => Service!Init
<1>. SUFFICES ASSUME Init PROVE Service!Init
  OBVIOUS
<1>. QED BY DEF Init, Service!Init, Answering

\* Steps that move the answer on, or leave it alone, without the Atari hearing.
LEMMA QuietStep ==
  ASSUME UNCHANGED <<frames, served, held>>, SAnswer' = SAnswer, SHeard' = SHeard
  PROVE  UNCHANGED Service!vars
<1>. QED BY Mapping DEF Service!vars, SAnswer, SHeard, OnItsWay

LEMMA DeliverStep ==
  ASSUME IInv, SerializerDone
  PROVE  Service!Deliver
<1>. USE DEF IInv, AnswerStages
<1>1. Answering /\ Answering' /\ txEnable
  BY DEF SerializerDone, Answering, TypeOK, sw
<1>2. PICK b \in Byte : p2s = <<b>>
  <2>1. p2s \in Seq(Byte) /\ p2s # <<>> /\ Len(p2s) <= 1
    BY DEF SerializerDone, TypeOK
  <2>2. Len(p2s) = 1
    <3>1. Len(p2s) \in Nat /\ Len(p2s) # 0
      BY <2>1, EmptySeq, LenProperties
    <3>2. \A n \in Nat : n # 0 /\ n <= 1 => n = 1
      OBVIOUS
    <3>. QED BY <2>1, <3>1, <3>2, Zenon
  <2>3. p2s[1] \in Byte
    BY <2>1, <2>2, ElementOfSeq
  <2>. QED BY <2>1, <2>2, <2>3
<1>3. heard \in Seq(Byte) /\ <<b>> \in Seq(Byte) /\ Len(<<b>>) = 1 /\ <<b>>[1] = b
  BY <1>2 DEF TypeOK
<1>4. heard' = Append(heard, b)
  BY <1>1, <1>2, <1>3, AppendIsConcat DEF SerializerDone
<1>. DEFINE k == Len(heard) + 1
            t == tx \o todo
<1>5. t \in Seq(Byte) /\ heard \o <<b>> \in Seq(Byte) /\ Len(heard) \in Nat
      /\ tx \in Seq(Byte) /\ todo \in Seq(Byte)
  BY <1>3, ConcatProperties DEF TypeOK
<1>6. OnItsWay = (heard \o <<b>>) \o t
  BY <1>2, <1>5, ConcatAssociative DEF OnItsWay
<1>7. Len(heard \o <<b>>) = k /\ (heard \o <<b>>)[k] = b
  BY <1>3, <1>5, ConcatProperties
<1>. HIDE DEF t
<1>8. Len(OnItsWay) = k + Len(t) /\ Len(t) \in Nat
  BY <1>5, <1>6, <1>7, ConcatProperties, EmptySeq
<1>9. OnItsWay[k] = b
  <2>1. k \in 1 .. k + Len(t) /\ k <= Len(heard \o <<b>>)
    BY <1>5, <1>7, <1>8
  <2>. QED BY <1>5, <1>6, <1>7, <2>1, ConcatProperties
<1>10. Len(heard) < Len(OnItsWay)
  BY <1>5, <1>8
<1>11. heard' \o p2s' \o tx' \o todo' = heard \o p2s \o tx \o todo
  <2>1. /\ p2s' = <<>> /\ heard' = heard \o p2s /\ tx' = tx /\ todo' = todo
    BY <1>1 DEF SerializerDone, sw
  <2>2. heard \o p2s \in Seq(Byte)
    BY <1>2, <1>5
  <2>3. heard' \o p2s' = heard \o p2s
    BY <2>1, <2>2, ConcatEmptySeq
  <2>. QED BY <2>1, <2>3
<1>12. UNCHANGED <<frames, served, held>>
  BY DEF SerializerDone, line
<1>. QED
  BY <1>1, <1>4, <1>9, <1>10, <1>11, <1>12 DEF Service!Deliver, OnItsWay

LEMMA FinishStep ==
  ASSUME IInv, TxDisable
  PROVE  Service!Finish \/ UNCHANGED Service!vars
<1>. USE DEF IInv, AnswerStages, Answering
<1>1. /\ pc = "disable" /\ pc' = "idle"
      /\ UNCHANGED <<frames, served, held, heard>>
  BY DEF TxDisable, line, ghost
<1>2. ~Answering'
  BY <1>1
<1>3. tx = <<>> /\ p2s = <<>> /\ todo = <<>>
  BY <1>1
<1>4. heard \o p2s \o tx \o todo = heard
  BY <1>3, ConcatEmptySeq DEF TypeOK
<1>5. CASE txEnable
  <2>1. heard # <<>>
    BY <1>1, <1>4, <1>5, AnswersAreNotEmpty
  <2>. QED BY <1>1, <1>2, <1>4, <1>5, <2>1 DEF Service!Finish, Service!NoAnswer
<1>6. CASE ~txEnable
  BY <1>1, <1>2, <1>6 DEF Service!vars
<1>. QED BY <1>5, <1>6

LEMMA AnswerStep ==
  ASSUME IInv, Dispatch
  PROVE  Service!Answer \/ UNCHANGED Service!vars
<1>. USE DEF IInv, AnswerStages, Answering
<1>1. /\ pc = "drain" /\ heard' = <<>> /\ DrainDone /\ Len(frame) = FrameLen
      /\ UNCHANGED <<tx, p2s, txEnable, frames, held>>
      /\ pc' = IF todo' = <<>> THEN "idle" ELSE "enable"
      /\ served' = IF todo' = <<>> THEN served ELSE frame[1]
  BY DEF Dispatch, DrainDone, line, txv
<1>2. PICK c \in Commands : todo' \in AnswersTo(c)
  BY DEF Dispatch
<1>3. CASE todo' = <<>>
  <2>1. ~Answering /\ ~Answering' /\ served' = served
    BY <1>1, <1>3
  <2>. QED BY <1>1, <2>1 DEF Service!vars
<1>4. CASE todo' # <<>>
  <2>1. ~Answering /\ Answering' /\ served' = frame[1]
    BY <1>1, <1>4
  <2>2. frame[1] \in (served + 1) .. frames
    BY <1>1, WholeFrame DEF BeforeLine, TypeOK
  <2>3. todo' \in Seq(Byte)
    BY <1>2, AnswersAreBytes
  <2>4. heard' \o p2s' \o tx' \o todo' = todo'
    <3>1. <<>> \o <<>> = <<>>
      BY NoBytes, ConcatEmptySeq
    <3>2. <<>> \o todo' = todo'
      BY <2>3, ConcatEmptySeq
    <3>. QED BY <1>1, <3>1, <3>2
  <2>5. todo' \in SentAnswers
    BY <1>2, <1>4, AnswerIsSent
  <2>. QED BY <1>1, <2>1, <2>2, <2>4, <2>5 DEF Service!Answer
<1>. QED BY <1>3, <1>4

LEMMA ServiceNext == IInv /\ [Next]_vars => [Service!Next]_(Service!vars)
<1>. SUFFICES ASSUME IInv, [Next]_vars PROVE Service!Next \/ UNCHANGED Service!vars
  OBVIOUS
<1>. USE DEF IInv, AnswerStages, line, txv, sw, ghost
<1>1. CASE CommandFall
  <2>1. /\ frames' = frames + 1
        /\ UNCHANGED <<served, held, heard, p2s, tx, todo, pc, txEnable>>
    BY <1>1 DEF CommandFall
  <2>. QED BY <2>1 DEF Service!Next, Service!Request, Answering
<1>2. CASE Dispatch BY <1>2, AnswerStep DEF Service!Next
<1>3. CASE SerializerDone BY <1>3, DeliverStep DEF Service!Next
<1>4. CASE TxDisable BY <1>4, FinishStep DEF Service!Next
<1>5. CASE Reset
  <2>1. /\ ~held /\ held' = TRUE /\ tx' = <<>> /\ p2s' = <<>> /\ txEnable' = FALSE
        /\ UNCHANGED <<frames, served, heard, todo, pc>>
    BY <1>5 DEF Reset
  <2>2. CASE pc = "enable"
    <3>1. Answering /\ Answering' /\ tx = <<>> /\ p2s = <<>>
      BY <2>1, <2>2 DEF Answering
    <3>. QED BY <2>1, <3>1 DEF Service!Next, Service!Reset
  <2>3. CASE pc # "enable"
    <3>1. ~Answering'
      BY <2>1, <2>3 DEF Answering
    <3>. QED BY <2>1, <3>1 DEF Service!Next, Service!Reset, Service!NoAnswer
  <2>. QED BY <2>2, <2>3
<1>6. CASE TxEnable
  <2>1. /\ pc = "enable" /\ pc' = "send" /\ txEnable' = ~held
        /\ UNCHANGED <<frames, served, held, heard, p2s, tx, todo>>
    BY <1>6 DEF TxEnable
  <2>2. CASE held
    <3>1. ~Answering'
      BY <2>1, <2>2 DEF Answering
    <3>. QED BY <2>1, <2>2, <3>1 DEF Service!Next, Service!CutOff, Service!NoAnswer
  <2>3. CASE ~held
    <3>1. Answering /\ Answering'
      BY <2>1, <2>3 DEF Answering
    <3>. QED BY <2>1, <3>1 DEF Service!vars
  <2>. QED BY <2>2, <2>3
<1>7. CASE Release
  BY <1>7 DEF Release, Service!Next, Service!Release, Answering
<1>8. CASE SerializerLoad
  <2>1. /\ heard' = heard /\ p2s' = <<Head(tx)>> /\ tx' = Tail(tx) /\ todo' = todo
        /\ p2s = <<>> /\ tx # <<>> /\ UNCHANGED <<frames, served, held, pc, txEnable>>
    BY <1>8 DEF SerializerLoad
  <2>2. heard' \o p2s' \o tx' \o todo' = heard \o p2s \o tx \o todo
    BY <2>1, LoadKeepsAnswer DEF TypeOK
  <2>. QED BY <2>1, <2>2 DEF Service!vars, Answering
<1>9. CASE TxByte
  <2>1. /\ pc = "send" /\ todo # <<>> /\ todo' = Tail(todo)
        /\ tx' = IF held THEN tx ELSE Append(tx, Head(todo))
        /\ UNCHANGED <<frames, served, held, heard, p2s, pc, txEnable>>
    BY <1>9 DEF TxByte
  <2>2. CASE held
    BY <2>1, <2>2 DEF HeldIsQuiet, Answering, Service!vars
  <2>3. CASE ~held
    <3>1. heard \o p2s \in Seq(Byte)
      BY ConcatProperties DEF TypeOK
    <3>2. heard' \o p2s' \o tx' \o todo' = heard \o p2s \o tx \o todo
      BY <2>1, <2>3, <3>1, WriteKeepsAnswer DEF TypeOK
    <3>. QED BY <2>1, <3>2 DEF Answering, Service!vars
  <2>. QED BY <2>2, <2>3
<1>10. CASE TxFifoEmpty \/ TxIdle
  BY <1>10 DEF TxFifoEmpty, TxIdle, Answering, Service!vars
<1>11. CASE /\ UNCHANGED <<frames, served, held, txv, todo, heard>>
            /\ pc \in {"idle", "drain"} /\ pc' \in {"idle", "drain"}
  BY <1>11 DEF Answering, Service!vars
<1>12. CASE UNCHANGED <<frames, served, held, txv, todo, heard, pc>>
  BY <1>12 DEF Answering, Service!vars
<1>. QED
  BY <1>1, <1>2, <1>3, <1>4, <1>5, <1>6, <1>7, <1>8, <1>9, <1>10, <1>11, <1>12
  DEF Next, Atari, Serializer, Poll, vars, CommandByte, CommandRise, DataByte,
      RxPush, Mount, UnmountAll, PollBegin, DrainPop, DrainZero, PollNothing, DrainDone

\* The disk path as a whole is the disk service: frames are answered in the
\* order they were sent, none twice, and every answer is heard from its first
\* byte to its last unless the machine is reset under it.
THEOREM LinkIsService == Spec => ServiceSpec
  BY ServiceInit, ServiceNext, Inductive, PTL DEF Spec, ServiceSpec, Service!Spec
=============================================================================
