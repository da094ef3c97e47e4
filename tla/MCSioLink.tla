----------------------------- MODULE MCSioLink -----------------------------
(* SioLink on a short frame, short FIFOs and one drive. *)
EXTENDS SioLink

CONSTANT D1

MCDrives == {D1}
MCSectorLens == {1, 3}
=============================================================================
