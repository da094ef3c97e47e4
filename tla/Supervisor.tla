----------------------------- MODULE Supervisor -----------------------------
(***************************************************************************)
(* The menu (supervisor.c) between the USB keyboard, the console, the card *)
(* and the machine: who gets a key, what the control register of the FPGA  *)
(* holds while the menu is open and after, what is on the screen, and what *)
(* the selection does to the machine and to the card.                      *)
(*                                                                         *)
(* An action of the firmware is one handler with all the frames it sends;  *)
(* only the 'K' frame, which the machine's keyboard scan may catch half    *)
(* way, takes several steps, and the firmware waits for its end.  Meanwhile *)
(* the reset button may be pressed: the SPI slave is in the reset it makes, *)
(* loses every register, and takes no frame until it is released.          *)
(***************************************************************************)
EXTENDS MachineConfig

CONSTANTS
  Keys,       \* keys of the keyboard, besides Alt-F12 and F8
  KeyChar,    \* hid_to_ascii: the character of each of them
  Chars,      \* what the console may send
  FilterMax,  \* characters of the filter (47)
  InitDrives, \* the drives the card's config may start with
  MaxInputs, MaxFaults   \* bounds: reports and characters; failures and presses of the button

ASSUME SupervisorAssumption ==
  /\ FilterMax \in Nat
  /\ Keys \cap {"none", "hot", "F8"} = {}

VARIABLES
  active, live, g_turbo,   \* supervisor.c
  pending,      \* the pick under way, with its drive and its filter
  s_up,         \* wifi.c
  prevHotkey, lastKey,   \* sup_hid_report
  shown,        \* what the text overlay shows
  card,
  machine,      \* the cartridge selected and the images mounted
  ctrl,         \* the bits of ctrlBits that are set
  keys, nextKeys,   \* the machine's keys, and the shadow they are built in
  frame,        \* the K frame under way: its keys still to come, and whether it is whole
  resetting,    \* the button is held
  held,         \* the keys held on the keyboard
  \* history
  ctrlBy,       \* what wrote the control register last
  closedBy,     \* what closed the menu last
  sent,         \* the last report sent to the machine; none since a reset
  before,       \* the one before it
  saved,        \* the selection a save stored
  spoiled,      \* a save was cut short, or followed a load that failed
  inputs, faults

menu     == <<active, pending, live, g_turbo, s_up, shown>>
port     == <<keys, nextKeys, frame, sent, before>>
control  == <<ctrl, ctrlBy>>
storage  == <<card, saved, spoiled>>
keyboard == <<held, prevHotkey, lastKey>>
vars == <<menu, port, control, storage, keyboard, machine, resetting, closedBy, inputs, faults>>

NoKey == "none"
Idle == [cmd |-> "none", todo |-> {}]
NoPick == [what |-> "none", drive |-> 1, filter |-> <<>>]
Picking == pending # NoPick
Nothing == [cart |-> <<"nothing">>, disk |-> NoDisks]

\* The firmware is not in the middle of a frame.
Ready == frame = Idle

Among(set) == {NoFault} \union (IF faults < MaxFaults THEN set ELSE {})
Spend(fault) == faults' = IF fault = NoFault THEN faults ELSE faults + 1

-----------------------------------------------------------------------------
(* The FPGA's side of the SPI link. *)

\* 'C' without the reset bit.
fpga_send_control(bits, by) ==
  /\ ctrl' = IF resetting THEN {} ELSE bits
  /\ ctrlBy' = IF resetting THEN ctrlBy ELSE by

\* The reset bit takes the register it is in with it, and the keys.
Reset(by) ==
  /\ ctrl' = {} /\ ctrlBy' = by
  /\ keys' = {} /\ nextKeys' = {} /\ sent' = {} /\ before' = {}

\* 'K', the modifiers' byte: the shadow is cleared.
SendKeyboard(report) ==
  /\ frame' = [cmd |-> "K", todo |-> report]
  /\ nextKeys' = {}
  /\ sent' = (IF resetting THEN {} ELSE report) /\ before' = sent
  /\ UNCHANGED keys

\* A key code: the scan sees nothing of it yet.
\* (mutant) the shadow is left out
KeyByteAtOnce ==
  /\ \E k \in frame.todo :
       /\ frame' = [frame EXCEPT !.todo = @ \ {k}]
       /\ nextKeys' = IF resetting THEN {} ELSE nextKeys \union {k}
  /\ keys' = nextKeys'
  /\ UNCHANGED <<sent, before, menu, control, storage, keyboard, machine, resetting, closedBy, inputs, faults>>
KeyByte ==
  /\ \E k \in frame.todo :
       /\ frame' = [frame EXCEPT !.todo = @ \ {k}]
       /\ nextKeys' = IF resetting THEN {} ELSE nextKeys \union {k}
  /\ UNCHANGED <<keys, sent, before, menu, control, storage, keyboard, machine, resetting, closedBy, inputs, faults>>

\* Chip select rises: a whole frame is committed; F8 resets the machine.
CsRise ==
  /\ frame.cmd # "none" /\ frame.todo = {}
  /\ frame' = Idle
  /\ IF frame.cmd = "K" /\ "F8" \in nextKeys THEN Reset("other")
     ELSE /\ keys' = IF frame.cmd = "K" /\ ~resetting THEN nextKeys ELSE keys
          /\ UNCHANGED <<control, nextKeys, sent, before>>
  /\ UNCHANGED <<menu, storage, keyboard, machine, resetting, closedBy, inputs, faults>>

Button ==
  /\ ~resetting /\ faults < MaxFaults
  /\ faults' = faults + 1
  /\ resetting' = TRUE
  /\ Reset("other")
  /\ UNCHANGED <<menu, frame, storage, keyboard, machine, closedBy, inputs>>

\* The button is held for longer than a frame takes.
ButtonUp ==
  /\ resetting /\ Ready
  /\ resetting' = FALSE
  /\ UNCHANGED <<menu, port, control, storage, keyboard, machine, closedBy, inputs, faults>>

-----------------------------------------------------------------------------
(* The menu. *)

Turbo(on) == IF on THEN {"turbo"} ELSE {}

\* The filter, and the folders that were listed: nothing changes live during a pick.
s_filter == pending.filter
names == Folders(live, IF pending.what = "cart" THEN CartList ELSE DiskList)

PickMatch(name, filter) ==
  \E i \in 0..(Len(name) - Len(filter)) : SubSeq(name, i + 1, i + Len(filter)) = filter
Matching(list, filter) == SelectSeq(list, LAMBDA name : PickMatch(name, filter))
Matches == Matching(names, s_filter)

Picture ==
  IF ~Picking
  THEN [cart |-> live.cart, disk |-> live.disk, turbo |-> g_turbo, wifi |-> s_up]
  ELSE [pick |-> pending.what, filter |-> s_filter, list |-> Matches]

\* print_menu and render_pick: 'T' frames with what the menu is now, if it is open.
Draw == shown' = IF active' /\ ~resetting THEN Picture' ELSE shown

sup_enter ==
  /\ \E fault \in Among({InRoot, InMachine, InCart} \union {InDisk(i) : i \in 1..MaxDisks}) :
       live' = config_load(card, fault) /\ Spend(fault)
  /\ active' = TRUE /\ pending' = NoPick
  /\ fpga_send_control({"halt", "display"} \union Turbo(g_turbo), "menu")
  /\ UNCHANGED <<g_turbo, s_up, storage, machine, closedBy>>
  /\ Draw

\* (mutant) the turbo bit is let go with the others
sup_resumeSlow(by) ==
  /\ active' = FALSE /\ pending' = NoPick
  /\ fpga_send_control({}, "menu")
  /\ closedBy' = by
  /\ UNCHANGED <<live, g_turbo, s_up, shown, storage, machine, faults>>
sup_resume(by) ==
  /\ active' = FALSE /\ pending' = NoPick
  /\ fpga_send_control(Turbo(g_turbo), "menu")
  /\ closedBy' = by
  /\ UNCHANGED <<live, g_turbo, s_up, shown, storage, machine, faults>>

\* boot_run: halted while the files are streamed, then reset, or let go as it is if the OS
\* could not be loaded.  A cartridge that cannot be read is not selected.  The images are
\* mounted in any case.
Os == <<"os">>
Rom == <<"rom">>
Image(i) == <<"image", i>>
BootFaults == {Os, Rom} \union {Image(i) : i \in 1..MaxDisks}

Loads(cfg, fault) == cfg.map /\ fault # Os /\ ~resetting
Slot(cfg, fault) ==
  CASE resetting -> machine.cart
    [] ~resetting /\ Loads(cfg, fault) /\ fault # Rom -> cfg.cart
    [] OTHER -> None
Mounted(cfg, fault) == [i \in 1..MaxDisks |-> IF fault = Image(i) THEN None ELSE cfg.disk[i]]

\* (mutant) what was mounted stays until something else is
boot_runNoUnmount(cfg, fault, by) ==
  /\ machine' = [cart |-> Slot(cfg, fault),
                 drives |-> [i \in 1..MaxDisks |-> IF cfg.disk[i] = None THEN machine.drives[i] ELSE Mounted(cfg, fault)[i]]]
  /\ IF Loads(cfg, fault) THEN Reset(by)
     ELSE fpga_send_control({}, by) /\ UNCHANGED <<keys, nextKeys, sent, before>>
boot_run(cfg, fault, by) ==
  /\ machine' = [cart |-> Slot(cfg, fault), drives |-> Mounted(cfg, fault)]
  /\ IF Loads(cfg, fault) THEN Reset(by)
     ELSE fpga_send_control({}, by) /\ UNCHANGED <<keys, nextKeys, sent, before>>

sup_boot(by) ==
  /\ active' = FALSE /\ pending' = NoPick
  /\ closedBy' = by
  /\ \E fault \in Among(BootFaults) : boot_run(live, fault, "selection") /\ Spend(fault)
  /\ UNCHANGED <<live, g_turbo, s_up, shown, frame, storage>>

\* The selected entry: 0 is none, else one of those shown (3 to 9 are left out).
\* (mutant) the filter is not looked at
PickNthOfAll(k) == IF k <= Len(names) THEN {names[k]} ELSE {}
PickNth(k) == IF k <= Len(Matches) THEN {Matches[k]} ELSE {}
Number == [ch \in {"0", "1", "2", "enter"} |-> CASE ch = "0" -> 0 [] ch = "2" -> 2 [] OTHER -> 1]
Picks(ch) == IF ch = "0" THEN {None} ELSE PickNth(Number[ch])

\* A folder whose config.json cannot be read leaves the selection as it was.
do_pick(name) ==
  /\ \E fault \in Among({<<"folder">>}) :
       /\ live' = IF pending.what = "cart" THEN config_select_cart(live, name, fault)
                  ELSE config_select_disk(live, pending.drive, name, fault)
       /\ Spend(fault)
  /\ pending' = NoPick
  /\ Draw

FilterIs(filter) ==
  /\ pending' = [pending EXCEPT !.filter = filter]
  /\ UNCHANGED <<live, faults>>
  /\ Draw

\* (mutant) the filter has no end
NarrowUnbounded(ch) == FilterIs(Append(s_filter, ch))
Narrow(ch) ==
  \/ Len(s_filter) < FilterMax /\ FilterIs(Append(s_filter, ch))
  \/ Len(s_filter) = FilterMax /\ UNCHANGED <<pending, live, faults, shown>>

\* Escape clears the filter, then leaves; what is not a digit narrows the list.
PickKey(ch) ==
  /\ Picking
  /\ UNCHANGED <<active, g_turbo, s_up, port, control, storage, machine, closedBy>>
  /\ \/ ch = "esc" /\ s_filter # <<>> /\ FilterIs(<<>>)
     \/ ch = "esc" /\ s_filter = <<>> /\ pending' = NoPick /\ UNCHANGED <<live, faults>> /\ Draw
     \/ ch = "bksp" /\ FilterIs(IF s_filter = <<>> THEN <<>> ELSE Front(s_filter))
     \/ ch \in DOMAIN Number /\ \E name \in Picks(ch) : do_pick(name)
     \/ ch \notin DOMAIN Number \union {"esc", "bksp"} /\ Narrow(ch)

Pick(ch) ==
  /\ \/ ch = "c" /\ pending' = [what |-> "cart", drive |-> 1, filter |-> <<>>]
     \/ /\ ch \in {"1", "2"} /\ Number[ch] <= MaxDisks
        /\ pending' = [what |-> "disk", drive |-> Number[ch], filter |-> <<>>]
  /\ UNCHANGED <<active, live, g_turbo, s_up, port, control, storage, machine, closedBy, faults>>
  /\ Draw

Stored == live.valid /\ live.machine
Dense(disk) == \A i \in 1..MaxDisks, j \in 1..MaxDisks : i < j /\ disk[i] = None => disk[j] = None

Save ==
  /\ \E fault \in Among({<<"open">>, <<"write">>}) :
       /\ card' = config_save(card, live, fault)
       /\ Spend(fault)
       /\ saved' = IF fault = NoFault /\ Stored /\ Dense(live.disk) THEN [cart |-> live.cart, disk |-> live.disk]
                   ELSE Nothing
       /\ spoiled' = (spoiled \/ fault = <<"write">> \/ ~live.valid)
  /\ UNCHANGED <<active, pending, live, g_turbo, s_up, port, control, machine, closedBy>>
  /\ Draw

\* (mutant) the menu is not drawn again
ReloadUnseen ==
  /\ \E fault \in Among({InRoot, InMachine, InCart} \union {InDisk(i) : i \in 1..MaxDisks}) :
       live' = config_load(card, fault) /\ Spend(fault)
  /\ UNCHANGED <<active, pending, g_turbo, s_up, shown, port, control, storage, machine, closedBy>>
Reload ==
  /\ \E fault \in Among({InRoot, InMachine, InCart} \union {InDisk(i) : i \in 1..MaxDisks}) :
       live' = config_load(card, fault) /\ Spend(fault)
  /\ UNCHANGED <<active, pending, g_turbo, s_up, port, control, storage, machine, closedBy>>
  /\ Draw

ToggleTurbo ==
  /\ g_turbo' = ~g_turbo
  /\ fpga_send_control({"halt", "display"} \union Turbo(g_turbo'), "menu")
  /\ UNCHANGED <<active, pending, live, s_up, port, storage, machine, closedBy, faults>>
  /\ Draw

\* wifi_on may fail; what is drawn while it blocks is left out.
ToggleWifi ==
  /\ s_up' \in IF s_up THEN {FALSE} ELSE BOOLEAN
  /\ UNCHANGED <<active, pending, live, g_turbo, port, control, storage, machine, closedBy, faults>>
  /\ Draw

sup_feed_key(ch, by) ==
  \/ PickKey(ch)
  \/ /\ ~Picking
     /\ \/ Pick(ch)
        \/ ch = "b" /\ sup_boot(by)
        \/ ch \in {"q", "esc"} /\ sup_resume(by) /\ UNCHANGED port
        \/ ch = "s" /\ Save
        \/ ch = "r" /\ Reload
        \/ ch = "t" /\ ToggleTurbo
        \/ ch = "w" /\ ToggleWifi

-----------------------------------------------------------------------------
(* The keyboard: tuh_hid_report_received_cb and sup_hid_report. *)

Pressed(report) == report \ {"hot"}

\* The character of the first key of the report, which of them that is being the keyboard's choice.
FirstKey(report) == IF Pressed(report) = {} THEN {NoKey} ELSE Pressed(report)

HotkeyOpens(report) ==
  /\ "hot" \in report /\ ~prevHotkey /\ ~active
  /\ sup_enter
  /\ lastKey' = NoKey
  /\ UNCHANGED port

HotkeyCloses(report) ==
  /\ "hot" \in report /\ ~prevHotkey /\ active
  /\ sup_resume("keyboard")
  /\ lastKey' = NoKey
  /\ SendKeyboard(Pressed(report))

\* (mutant) also while the menu is open
ToMachineAlways(report) ==
  /\ ~("hot" \in report /\ ~prevHotkey)
  /\ SendKeyboard(Pressed(report))
  /\ UNCHANGED <<menu, control, storage, machine, closedBy, faults, lastKey>>
ToMachine(report) ==
  /\ ~("hot" \in report /\ ~prevHotkey) /\ ~active
  /\ SendKeyboard(Pressed(report))
  /\ UNCHANGED <<menu, control, storage, machine, closedBy, faults, lastKey>>

\* A key that was the first one already types nothing.
ToMenu(report) ==
  /\ ~("hot" \in report /\ ~prevHotkey) /\ active
  /\ \E kc \in FirstKey(report) :
       \/ /\ "hot" \notin report /\ kc \in Keys /\ kc # lastKey
          /\ lastKey' = kc
          /\ sup_feed_key(KeyChar[kc], "keyboard")
       \/ /\ ("hot" \in report \/ kc \notin Keys \/ kc = lastKey)
          /\ lastKey' = IF "hot" \in report THEN lastKey ELSE kc
          /\ UNCHANGED <<menu, port, control, storage, machine, closedBy, faults>>

HidReport ==
  /\ Ready /\ inputs < MaxInputs
  /\ inputs' = inputs + 1
  /\ \E k \in Keys \union {"hot", "F8"} :
       /\ held' = IF k \in held THEN held \ {k} ELSE held \union {k}
       /\ prevHotkey' = ("hot" \in held')
       /\ HotkeyOpens(held') \/ HotkeyCloses(held') \/ ToMachine(held') \/ ToMenu(held')
  /\ UNCHANGED resetting

\* The keyboard is unplugged: the machine's keys are released.
\* (mutant) they are not
HidUnmountSilent ==
  /\ Ready /\ held # {}
  /\ held' = {}
  /\ UNCHANGED <<menu, port, control, storage, prevHotkey, lastKey, machine, resetting, closedBy, inputs, faults>>
HidUnmount ==
  /\ Ready /\ held # {}
  /\ held' = {}
  /\ SendKeyboard({})
  /\ UNCHANGED <<menu, control, storage, prevHotkey, lastKey, machine, resetting, closedBy, inputs, faults>>

-----------------------------------------------------------------------------
(* The console. *)

ConsoleKey(ch) == active /\ sup_feed_key(ch, "console")

ConsoleOpen == ~active /\ sup_enter /\ UNCHANGED port

\* r and R reset, 1 holds START, 0 lets everything go, V shows a test picture.
ConsoleControl ==
  /\ ~active
  /\ \/ Reset("other") /\ UNCHANGED <<frame, shown>>
     \/ \E bits \in {{}, {"start"}} : fpga_send_control(bits, "other") /\ UNCHANGED <<port, shown>>
     \/ /\ fpga_send_control({"display"}, "other") /\ UNCHANGED port
        /\ shown' = IF resetting THEN shown ELSE [test |-> TRUE]
  /\ UNCHANGED <<active, pending, live, g_turbo, s_up, storage, machine, closedBy, faults>>

\* s reads the status with a K frame of three bytes.
StatusFrame ==
  /\ ~active
  /\ frame' = [cmd |-> "short", todo |-> {}]
  /\ nextKeys' = {}
  /\ UNCHANGED <<menu, keys, sent, before, control, storage, machine, closedBy, faults>>

\* N; wifi_on may fail.
ConsoleWifi ==
  /\ ~active
  /\ s_up' \in IF s_up THEN {FALSE} ELSE BOOLEAN
  /\ UNCHANGED <<active, pending, live, g_turbo, shown, port, control, storage, machine, closedBy, faults>>

\* B, and power on.
Mount == <<"mount">>
do_boot ==
  /\ ~active
  /\ \E fault \in Among({Mount, InRoot, InMachine, InCart} \union {InDisk(i) : i \in 1..MaxDisks} \union BootFaults) :
       /\ Spend(fault)
       /\ IF fault # Mount /\ config_load(card, fault).valid
          THEN boot_run(config_load(card, fault), fault, "boot")
          ELSE fpga_send_control({}, "boot") /\ UNCHANGED <<machine, keys, nextKeys, sent, before>>
  /\ UNCHANGED <<menu, frame, storage, closedBy>>

handle_console ==
  /\ Ready /\ inputs < MaxInputs
  /\ inputs' = inputs + 1
  /\ ConsoleOpen \/ ConsoleControl \/ ConsoleWifi \/ StatusFrame \/ do_boot \/ \E ch \in Chars : ConsoleKey(ch)
  /\ UNCHANGED <<keyboard, resetting>>

-----------------------------------------------------------------------------
Init ==
  /\ active = FALSE /\ pending = NoPick
  /\ live = Unread /\ g_turbo = FALSE /\ s_up = FALSE /\ prevHotkey = FALSE /\ lastKey = NoKey
  /\ shown = [test |-> TRUE]
  /\ card \in [root : {"machine"}, mach : [map : {TRUE}, cart : {CartList[1]}, drives : InitDrives]]
  /\ machine = [cart |-> None, drives |-> NoDisks]
  /\ ctrl = {} /\ keys = {} /\ nextKeys = {} /\ frame = Idle /\ resetting = FALSE /\ held = {}
  /\ ctrlBy = "boot" /\ closedBy = "console" /\ sent = {} /\ before = {}
  /\ saved = Nothing /\ spoiled = FALSE
  /\ inputs = 0 /\ faults = 0

Next == KeyByte \/ CsRise \/ Button \/ ButtonUp \/ HidReport \/ HidUnmount \/ handle_console

Spec == Init /\ [][Next]_vars

-----------------------------------------------------------------------------
TypeOK ==
  /\ active \in BOOLEAN /\ pending.what \in {"none", "cart", "disk"} /\ pending.drive \in 1..MaxDisks
  /\ Len(s_filter) <= FilterMax /\ g_turbo \in BOOLEAN /\ s_up \in BOOLEAN
  /\ card.root \in {"machine", "saved", "empty"} /\ DOMAIN live.disk = 1..MaxDisks
  /\ ctrl \subseteq {"halt", "display", "turbo", "start"}
  /\ keys \subseteq Keys /\ held \subseteq Keys \union {"hot", "F8"}
  /\ Picking => active

\* While the overlay is on the screen and the menu open, it shows the selection, the list and
\* the switches that the next key acts on.
ScreenIsTrue == active /\ "display" \in ctrl => shown = Picture

\* The control register is what the menu last asked of it, until the console, the button or F8
\* overrides it: the 6502 stopped exactly while the menu is open, and the turbo as the menu
\* shows it, except that a boot lets it go.
MenuOwnsControl ==
  /\ ctrlBy = "menu" =>
       ctrl = (IF active THEN {"halt", "display"} ELSE {}) \union Turbo(g_turbo)
  /\ ctrlBy \in {"boot", "selection"} => ctrl = {} /\ ~active

\* The keyboard scan sees a report as a whole: the one before until the frame of this one has
\* ended, and no status frame in between.
KeysAreWhole == keys = IF frame.cmd = "K" THEN before ELSE sent

\* A key let go, in the menu or by pulling the plug, is let go in the machine too, once the menu
\* was closed from the keyboard.
NoStuckKey == ~active /\ Ready /\ held = {} /\ closedBy = "keyboard" => keys = {}

\* What is typed in the menu does not reach the machine.
MenuKeysStay == [][active /\ active' => keys' \in {keys, {}}]_vars

\* A pick changes what it was started for, to the entry shown with that number.
Entries(ch) ==
  IF ch = "0" THEN {None} ELSE {shown.list[k] : k \in {Number[ch]} \intersect 1..Len(shown.list)}
Changed(name) ==
  IF pending.what = "cart" THEN [live EXCEPT !.cart = name] ELSE [live EXCEPT !.disk[pending.drive] = name]
PickedIsShown ==
  [][\A ch \in DOMAIN Number :
       Picking /\ "display" \in ctrl /\ handle_console /\ ConsoleKey(ch) /\ live' # live
         => live' \in {Changed(name) : name \in Entries(ch)}]_vars

\* After a boot from the menu no drive and no slot has anything but what was selected.
BootedAsSelected ==
  ctrlBy = "selection" =>
    /\ machine.cart \in {live.cart, None}
    /\ \A i \in 1..MaxDisks : machine.drives[i] \in {live.disk[i], None}

\* A selection without gaps that was loaded whole and saved as default is what the next load finds.
SavedComesBack ==
  saved # Nothing =>
    /\ config_load(card, NoFault).valid
    /\ config_load(card, NoFault).cart = saved.cart
    /\ config_load(card, NoFault).disk = saved.disk

\* The card stays bootable, whatever is picked and saved, unless a save was cut short or came
\* after a load that failed.
MapKept == ~spoiled => card.root = "machine" /\ card.mach.map
=============================================================================
