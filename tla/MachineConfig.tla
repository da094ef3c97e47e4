---------------------------- MODULE MachineConfig ----------------------------
(***************************************************************************)
(* config.c: what the JSON files on the card say of the machine, and the   *)
(* selection the menu edits.                                               *)
(*                                                                         *)
(* A name is the sequence of its characters, the empty one meaning none.   *)
(* Of /config.json the card has whether it names the machine, was lost (it *)
(* is empty) or was overwritten by a save of a selection without machine;  *)
(* the machine's config.json is a record, an empty file reading like one   *)
(* that says nothing.  fault is the file that cannot be read or written.   *)
(***************************************************************************)
EXTENDS Naturals, SequencesExt

CONSTANTS
  MaxDisks,   \* CFG_MAX_DISKS (4)
  CartList,   \* the machine's cartridge folders, sorted
  DiskList,   \* its disk folders
  RootList    \* the folders of the root directory; none is a cartridge or a disk

ASSUME ConfigAssumption == MaxDisks \in Nat \ {0}

None == <<>>
NoFault == <<"none">>
InRoot == <<"root">>
InMachine == <<"machine">>
InCart == <<"cart">>
InDisk(i) == <<"disk", i>>

NoDisks == [i \in 1..MaxDisks |-> None]

\* What an empty config.json says of the machine.
Blank == [map |-> FALSE, cart |-> None, drives |-> <<>>]

\* boot_config_t: machine is whether it has the machine's directory, map whether the memory
\* map with the OS blocks was found.
Unread == [valid |-> FALSE, machine |-> FALSE, map |-> FALSE, cart |-> None, disk |-> NoDisks]

\* The names in drives that resolve, in order.
Resolved(drives, fault) ==
  IF \E i \in DOMAIN drives : drives[i] # None /\ fault = InDisk(i) THEN RemoveAt(drives, fault[2]) ELSE drives

\* Slots are filled in the order of the names that resolve.
\* (mutant) the last name is dropped
DisksButLast(drives, fault) ==
  [i \in 1..MaxDisks |-> IF i < Len(Resolved(drives, fault)) THEN Resolved(drives, fault)[i] ELSE None]
Disks(drives, fault) ==
  [i \in 1..MaxDisks |-> IF i <= Len(Resolved(drives, fault)) THEN Resolved(drives, fault)[i] ELSE None]

MachineRead(mach, fault) ==
  [valid |-> TRUE, machine |-> TRUE, map |-> mach.map,
   cart |-> IF fault = InCart THEN None ELSE mach.cart, disk |-> Disks(mach.drives, fault)]

\* A /config.json that a save overwrote has a "default" too, the cartridge's, which is empty:
\* the machine's directory is then the root, and this file its config.json.
config_load(card, fault) ==
  CASE fault = InRoot \/ card.root = "empty" -> Unread
    [] fault # InRoot /\ card.root = "saved" -> [Unread EXCEPT !.valid = fault # InMachine]
    [] OTHER -> IF fault = InMachine THEN [Unread EXCEPT !.machine = TRUE]
                ELSE MachineRead(card.mach, fault)

Folders(cfg, list) == IF cfg.machine THEN list ELSE RootList

Resolves(cfg, name, fault) == name = None \/ (cfg.machine /\ fault = NoFault)

config_select_cart(cfg, name, fault) ==
  IF Resolves(cfg, name, fault) THEN [cfg EXCEPT !.cart = name] ELSE cfg
config_select_disk(cfg, drive, name, fault) ==
  IF Resolves(cfg, name, fault) THEN [cfg EXCEPT !.disk[drive] = name] ELSE cfg

\* The names of the drives, in order: empty ones leave no trace.
Kept(disk) ==
  LET upto[i \in 0..MaxDisks] ==
        IF i = 0 THEN <<>>
        ELSE IF disk[i] = None THEN upto[i - 1] ELSE Append(upto[i - 1], disk[i])
  IN  upto[MaxDisks]

\* The file config_save writes.
\* (mutant) the memory map is not copied
ContentNoMap(cfg) == [map |-> FALSE, cart |-> cfg.cart, drives |-> Kept(cfg.disk)]
Content(cfg) == [map |-> cfg.map, cart |-> cfg.cart, drives |-> Kept(cfg.disk)]

\* fault: the file cannot be opened, or is emptied and then not written (or not closed, which
\* config_save does not see).
config_save(card, cfg, fault) ==
  CASE fault = <<"open">> -> card
    [] fault # <<"open">> /\ cfg.machine ->
         [card EXCEPT !.mach = IF fault = NoFault THEN Content(cfg) ELSE Blank]
    [] OTHER -> [card EXCEPT !.root = IF fault = NoFault THEN "saved" ELSE "empty"]

=============================================================================
