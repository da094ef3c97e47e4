----------------------------- MODULE SioService -----------------------------
(***************************************************************************)
(* What the SIO disk emulator promises the Atari, with no FIFO, no SPI     *)
(* link and no register in sight.  Command frames are numbered in the      *)
(* order the Atari begins them.  The emulator answers some of them, one at *)
(* a time, never one it has gone past, and what the Atari hears is the     *)
(* answer, byte for byte, from its first byte to its last - unless the     *)
(* machine is reset under it, which cuts the answer off.                   *)
(***************************************************************************)
EXTENDS Naturals, Sequences

CONSTANT Answers    \* the answers that can go out: nonempty byte sequences

VARIABLES
  sent,     \* command frames the Atari has begun
  served,   \* the frame last answered (0: none)
  answer,   \* the answer going out; <<>> when none is
  heard,    \* the bytes of it the Atari has been sent so far
  down      \* the machine is being held in reset

vars == <<sent, served, answer, heard, down>>

Init ==
  /\ sent = 0
  /\ served = 0
  /\ answer = <<>>
  /\ heard = <<>>
  /\ down = FALSE

\* The Atari begins another command frame: it may, whatever is going on.
Request ==
  /\ sent' = sent + 1
  /\ UNCHANGED <<served, answer, heard, down>>

\* The emulator takes up a frame later than every frame it has answered.
Answer ==
  /\ answer = <<>>
  /\ \E f \in (served + 1) .. sent : served' = f
  /\ answer' \in Answers
  /\ heard' = <<>>
  /\ UNCHANGED <<sent, down>>

\* The next byte of the answer reaches the Atari.
Deliver ==
  /\ Len(heard) < Len(answer)
  /\ heard' = Append(heard, answer[Len(heard) + 1])
  /\ UNCHANGED <<sent, served, answer, down>>

NoAnswer ==
  /\ answer' = <<>>
  /\ heard' = <<>>

\* An answer ends when the whole of it has been heard.
Finish ==
  /\ answer # <<>>
  /\ heard = answer
  /\ NoAnswer
  /\ UNCHANGED <<sent, served, down>>

\* A reset of the machine may cut the answer off, when it begins or while it lasts.
Reset ==
  /\ ~down
  /\ down' = TRUE
  /\ NoAnswer \/ UNCHANGED <<answer, heard>>
  /\ UNCHANGED <<sent, served>>

CutOff ==
  /\ down
  /\ NoAnswer
  /\ UNCHANGED <<sent, served, down>>

Release ==
  /\ down
  /\ down' = FALSE
  /\ UNCHANGED <<sent, served, answer, heard>>

Next == Request \/ Answer \/ Deliver \/ Finish \/ Reset \/ CutOff \/ Release

Spec == Init /\ [][Next]_vars
=============================================================================
