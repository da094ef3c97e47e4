---------------------------- MODULE MCFrameBuffers ----------------------------
(***************************************************************************)
(* The video path with rows of six quads, for TLC: the first two quads of a *)
(* row are not captured, the third is written singly, the rest in one wide  *)
(* access, or singly when one of them is lost. Rows span two and three      *)
(* output lines as 288 rows on 720 do.                                      *)
(***************************************************************************)
EXTENDS FrameBuffers
=============================================================================
