------------------------------ MODULE MCSioLast ------------------------------
(***************************************************************************)
(* SioLink with a history variable: the last command frame whose bytes the *)
(* current drain has all popped, in order (0: none yet).                   *)
(***************************************************************************)
EXTENDS MCSioLink

VARIABLE whole

HInit == Init /\ whole = 0

HNext ==
  /\ Next
  /\ whole' = IF pc' # "drain" THEN whole
              ELSE IF pc = "idle" THEN 0
              ELSE IF Len(frame') = FrameLen THEN frame'[1] ELSE whole

HSpec == HInit /\ [][HNext]_<<vars, whole>>

\* sio.c:240 "Find the last complete 5-byte frame (idx 0..4)": a drain that
\* has popped a whole command frame ends with the last such frame assembled.
LastFrameFound == DrainDone /\ whole # 0 => Len(frame) = FrameLen /\ frame[1] = whole
=============================================================================
