----------------------------- MODULE MCSpiLoader -----------------------------
(* An OS block that is two quads long, a cartridge of one. *)
EXTENDS SpiLoader

MCBootFiles == <<[dest |-> "rom", len |-> 4], [dest |-> "ram", len |-> 3]>>
MCSweepLens == {1, 2}
=============================================================================
