---------------------------- MODULE MCSupervisor ----------------------------
(* Supervisor with two drives, one cartridge, two disks, a key that closes  *)
(* the menu, Alt-F12 and F8, and a card whose config leaves D1: empty.       *)
EXTENDS Supervisor

MCCarts == <<<<"c">>>>
MCDisks == <<<<"b">>, <<"b", "q">>>>
MCRoot == <<<<"b">>>>
MCKeyChar == "Q" :> "q"
MCInitDrives == {<<<<>>, <<"b">>>>}
=============================================================================
