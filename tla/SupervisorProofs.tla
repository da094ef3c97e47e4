-------------------------- MODULE SupervisorProofs --------------------------
(***************************************************************************)
(* Proofs about Supervisor for every keyboard, character set, card, number  *)
(* of drives, inputs and faults.                                            *)
(***************************************************************************)
EXTENDS Supervisor, Loops, SequenceTheorems, TLAPS

(***************************************************************************)
(* What a step of the firmware is, once the keyboard's and the console's   *)
(* routing is taken apart.  Every invariant below is proved over these.    *)
(***************************************************************************)
OpensMenu == ~active /\ Ready /\ sup_enter /\ UNCHANGED <<port, resetting>>

ClosesByHotkey ==
  /\ active /\ Ready /\ held' # {}
  /\ sup_resume("keyboard") /\ SendKeyboard(Pressed(held')) /\ UNCHANGED resetting

SendsReport ==
  /\ ~active /\ Ready /\ SendKeyboard(Pressed(held'))
  /\ UNCHANGED <<menu, control, storage, machine, closedBy, resetting>>

Typed == Chars \union {KeyChar[k] : k \in Keys}
Types(ch, by) ==
  /\ active /\ Ready /\ sup_feed_key(ch, by) /\ UNCHANGED resetting
  /\ by = "keyboard" => held' # {}
  /\ by = "console" => UNCHANGED keyboard

Ignores == active /\ UNCHANGED <<menu, port, control, storage, machine, closedBy, resetting>>

Console(A) == ~active /\ Ready /\ A /\ UNCHANGED <<keyboard, resetting>>

\* The report that HidReport makes of the keys held and the key that changed.
Toggled(k) == IF k \in held THEN held \ {k} ELSE held \union {k}

LEMMA ReportCases ==
  ASSUME HidReport
  PROVE  \/ OpensMenu \/ ClosesByHotkey \/ SendsReport \/ Ignores
         \/ \E ch \in Typed : Types(ch, "keyboard")
<1>1. PICK k \in Keys \union {"hot", "F8"} :
        /\ held' = Toggled(k)
        /\ HotkeyOpens(held') \/ HotkeyCloses(held') \/ ToMachine(held') \/ ToMenu(held')
  BY DEF HidReport, Toggled
<1>2. Ready /\ UNCHANGED resetting
  BY DEF HidReport
<1>3. CASE HotkeyOpens(held')
  BY <1>2, <1>3 DEF HotkeyOpens, OpensMenu
<1>4. CASE HotkeyCloses(held')
  BY <1>2, <1>4 DEF HotkeyCloses, ClosesByHotkey
<1>5. CASE ToMachine(held')
  BY <1>2, <1>5 DEF ToMachine, SendsReport
<1>6. CASE ToMenu(held')
  <2>1. PICK kc \in FirstKey(held') :
          \/ kc \in Keys /\ sup_feed_key(KeyChar[kc], "keyboard")
          \/ UNCHANGED <<menu, port, control, storage, machine, closedBy, faults>>
    BY <1>6 DEF ToMenu
  <2>2. CASE kc \in Keys /\ sup_feed_key(KeyChar[kc], "keyboard")
    <3>1. kc # NoKey
      BY <2>2, SupervisorAssumption DEF NoKey
    <3>2. held' # {}
      BY <2>1, <3>1 DEF FirstKey, Pressed
    <3>3. KeyChar[kc] \in Typed
      BY <2>2 DEF Typed
    <3>4. Types(KeyChar[kc], "keyboard")
      BY <1>2, <1>6, <2>2, <3>2 DEF Types, ToMenu
    <3> QED
      BY <3>3, <3>4
  <2>3. CASE UNCHANGED <<menu, port, control, storage, machine, closedBy, faults>>
    BY <1>2, <1>6, <2>3 DEF Ignores, ToMenu
  <2> QED
    BY <2>1, <2>2, <2>3
<1> QED
  BY <1>1, <1>3, <1>4, <1>5, <1>6

LEMMA ConsoleCases ==
  ASSUME handle_console
  PROVE  \/ OpensMenu \/ \E ch \in Typed : Types(ch, "console")
         \/ Console(ConsoleControl) \/ Console(ConsoleWifi) \/ Console(StatusFrame) \/ Console(do_boot)
<1>1. Ready /\ UNCHANGED <<keyboard, resetting>>
  BY DEF handle_console
<1>2. CASE ConsoleOpen
  BY <1>1, <1>2 DEF ConsoleOpen, OpensMenu
<1>3. ASSUME NEW ch \in Chars, ConsoleKey(ch)
      PROVE  Types(ch, "console") /\ ch \in Typed
  BY <1>1, <1>3 DEF ConsoleKey, Types, Typed
<1>4. ASSUME ConsoleControl \/ ConsoleWifi \/ StatusFrame \/ do_boot
      PROVE  ~active
  BY <1>4 DEF ConsoleControl, ConsoleWifi, StatusFrame, do_boot
<1> QED
  BY <1>1, <1>2, <1>3, <1>4 DEF handle_console, Console

LEMMA StepCases ==
  ASSUME [Next]_vars
  PROVE  \/ KeyByte \/ CsRise \/ Button \/ ButtonUp \/ HidUnmount
         \/ OpensMenu \/ ClosesByHotkey \/ SendsReport \/ Ignores
         \/ \E ch \in Typed, by \in {"keyboard", "console"} : Types(ch, by)
         \/ Console(ConsoleControl) \/ Console(ConsoleWifi) \/ Console(StatusFrame) \/ Console(do_boot)
         \/ UNCHANGED vars
  BY ReportCases, ConsoleCases DEF Next

LEMMA KeyCases ==
  ASSUME NEW ch, NEW by, Types(ch, by)
  PROVE  \/ PickKey(ch)
         \/ ~Picking /\ (\/ Pick(ch) \/ sup_boot(by) \/ (sup_resume(by) /\ UNCHANGED port)
                         \/ Save \/ Reload \/ ToggleTurbo \/ ToggleWifi)
  BY DEF Types, sup_feed_key

-----------------------------------------------------------------------------
(* The control register. *)

\* A slave in reset has no register set, and nothing of the firmware's was the last to set it.
ControlInv ==
  /\ MenuOwnsControl
  /\ resetting => ctrl = {} /\ ctrlBy = "other"

LEMMA ControlStep == ControlInv /\ [Next]_vars => ControlInv'
<1> SUFFICES ASSUME ControlInv, [Next]_vars PROVE ControlInv'
  OBVIOUS
<1> USE DEF ControlInv, MenuOwnsControl
<1>1. CASE KeyByte
  BY <1>1 DEF KeyByte, menu, control
<1>2. CASE CsRise
  BY <1>2 DEF CsRise, Reset, menu, control
<1>3. CASE Button
  BY <1>3 DEF Button, Reset
<1>4. CASE ButtonUp
  BY <1>4 DEF ButtonUp, menu, control
<1>5. CASE HidUnmount
  BY <1>5 DEF HidUnmount, menu, control
<1>6. CASE OpensMenu
  BY <1>6 DEF OpensMenu, sup_enter, fpga_send_control
<1>7. CASE ClosesByHotkey
  BY <1>7 DEF ClosesByHotkey, sup_resume, fpga_send_control
<1>8. CASE SendsReport
  BY <1>8 DEF SendsReport, menu, control
<1>9. CASE Ignores
  BY <1>9 DEF Ignores, menu, control
<1>10. ASSUME NEW ch \in Typed, NEW by \in {"keyboard", "console"}, Types(ch, by)
       PROVE  ControlInv'
  <2>1. active /\ UNCHANGED resetting
    BY <1>10 DEF Types
  <2>2. CASE PickKey(ch) \/ Pick(ch)
    BY <2>1, <2>2 DEF PickKey, Pick, control
  <2>3. CASE sup_boot(by)
    BY <2>1, <2>3 DEF sup_boot, boot_run, Reset, fpga_send_control, Loads
  <2>4. CASE sup_resume(by)
    BY <2>1, <2>4 DEF sup_resume, fpga_send_control
  <2>5. CASE Save \/ Reload \/ ToggleWifi
    BY <2>1, <2>5 DEF Save, Reload, ToggleWifi, control
  <2>6. CASE ToggleTurbo
    BY <2>1, <2>6 DEF ToggleTurbo, fpga_send_control
  <2> QED
    BY <1>10, <2>2, <2>3, <2>4, <2>5, <2>6, KeyCases
<1>11. CASE Console(ConsoleControl)
  BY <1>11 DEF Console, ConsoleControl, Reset, fpga_send_control
<1>12. CASE Console(ConsoleWifi)
  BY <1>12 DEF Console, ConsoleWifi, control
<1>13. CASE Console(StatusFrame)
  BY <1>13 DEF Console, StatusFrame, menu, control
<1>14. CASE Console(do_boot)
  BY <1>14 DEF Console, do_boot, boot_run, Reset, fpga_send_control, Loads, menu
<1>15. CASE UNCHANGED vars
  BY <1>15 DEF vars, menu, control
<1> QED
  BY <1>1, <1>2, <1>3, <1>4, <1>5, <1>6, <1>7, <1>8, <1>9, <1>10, <1>11, <1>12, <1>13, <1>14,
     <1>15, StepCases

\* The 6502 is stopped exactly while the menu is open, and the turbo is as the menu shows it,
\* until something other than the menu writes the register.
THEOREM MenuControl == Spec => []MenuOwnsControl
<1>1. Init => ControlInv
  BY DEF Init, ControlInv, MenuOwnsControl
<1>2. ControlInv => MenuOwnsControl
  BY DEF ControlInv
<1> QED
  BY <1>1, <1>2, ControlStep, PTL DEF Spec

-----------------------------------------------------------------------------
(* The machine's keys. *)

\* The shadow and what is still to be sent make the report; a slave in reset has no key, and
\* while the menu is open only an empty report is sent.
KeysInv ==
  /\ KeysAreWhole
  /\ frame.cmd \in {"none", "K", "short"}
  /\ frame.cmd = "none" <=> Ready
  /\ resetting => keys = {} /\ nextKeys = {} /\ sent = {} /\ before = {}
  /\ frame.cmd = "K" /\ ~resetting => nextKeys \union frame.todo = sent
  /\ frame.cmd = "K" /\ active => nextKeys = {} /\ frame.todo = {}

LEMMA KeysStep == KeysInv /\ [Next]_vars => KeysInv'
<1> SUFFICES ASSUME KeysInv, [Next]_vars PROVE KeysInv'
  OBVIOUS
<1> USE DEF KeysInv, KeysAreWhole, Ready, Idle
<1>1. CASE KeyByte
  BY <1>1 DEF KeyByte, menu
<1>2. CASE CsRise
  BY <1>2 DEF CsRise, Reset, menu
<1>3. CASE Button
  BY <1>3 DEF Button, Reset, menu
<1>4. CASE ButtonUp
  BY <1>4 DEF ButtonUp, menu, port
<1>5. CASE HidUnmount
  BY <1>5 DEF HidUnmount, SendKeyboard, menu
<1>6. CASE OpensMenu
  BY <1>6 DEF OpensMenu, port
<1>7. CASE ClosesByHotkey
  BY <1>7 DEF ClosesByHotkey, sup_resume, SendKeyboard
<1>8. CASE SendsReport
  BY <1>8 DEF SendsReport, SendKeyboard, menu
<1>9. CASE Ignores
  BY <1>9 DEF Ignores, port, menu
<1>10. ASSUME NEW ch \in Typed, NEW by \in {"keyboard", "console"}, Types(ch, by)
       PROVE  KeysInv'
  <2>1. active /\ Ready /\ UNCHANGED resetting
    BY <1>10 DEF Types
  <2>2. CASE PickKey(ch) \/ Pick(ch)
    BY <2>1, <2>2 DEF PickKey, Pick, port
  <2>3. CASE sup_boot(by)
    BY <2>1, <2>3 DEF sup_boot, boot_run, Reset
  <2>4. CASE sup_resume(by) /\ UNCHANGED port
    BY <2>1, <2>4 DEF port
  <2>5. CASE Save \/ Reload \/ ToggleWifi \/ ToggleTurbo
    BY <2>1, <2>5 DEF Save, Reload, ToggleWifi, ToggleTurbo, port
  <2> QED
    BY <1>10, <2>2, <2>3, <2>4, <2>5, KeyCases
<1>11. CASE Console(ConsoleControl)
  BY <1>11 DEF Console, ConsoleControl, Reset, port
<1>12. CASE Console(ConsoleWifi)
  BY <1>12 DEF Console, ConsoleWifi, port
<1>13. CASE Console(StatusFrame)
  BY <1>13 DEF Console, StatusFrame, menu
<1>14. CASE Console(do_boot)
  BY <1>14 DEF Console, do_boot, boot_run, Reset, menu
<1>15. CASE UNCHANGED vars
  BY <1>15 DEF vars, menu, port
<1> QED
  BY <1>1, <1>2, <1>3, <1>4, <1>5, <1>6, <1>7, <1>8, <1>9, <1>10, <1>11, <1>12, <1>13, <1>14,
     <1>15, StepCases

LEMMA KeysHold == Spec => []KeysInv
<1>1. Init => KeysInv
  BY DEF Init, KeysInv, KeysAreWhole, Ready, Idle
<1> QED
  BY <1>1, KeysStep, PTL DEF Spec

\* The keyboard scan never sees half a report.
THEOREM WholeReports == Spec => []KeysAreWhole
<1>1. KeysInv => KeysAreWhole
  BY DEF KeysInv
<1> QED
  BY <1>1, KeysHold, PTL

\* What is typed in the menu never reaches the machine's keys: all that may happen to them
\* while it is open is that they are released.
THEOREM TypingStaysInMenu == Spec => MenuKeysStay
<1>1. KeysInv /\ [Next]_vars => [active /\ active' => keys' \in {keys, {}}]_vars
  <2> SUFFICES ASSUME KeysInv, [Next]_vars, active, active' PROVE keys' \in {keys, {}}
    OBVIOUS
  <2>1. CASE KeyByte \/ ButtonUp \/ HidUnmount \/ Ignores \/ OpensMenu \/ SendsReport \/ UNCHANGED vars
    BY <2>1 DEF KeyByte, ButtonUp, HidUnmount, SendKeyboard, Ignores, OpensMenu, SendsReport, vars, port
  <2>2. CASE CsRise
    BY <2>2 DEF CsRise, Reset, KeysInv
  <2>3. CASE Button
    BY <2>3 DEF Button, Reset
  <2>4. CASE ClosesByHotkey
    BY <2>4 DEF ClosesByHotkey, sup_resume
  <2>5. ASSUME NEW ch \in Typed, NEW by \in {"keyboard", "console"}, Types(ch, by)
        PROVE  keys' \in {keys, {}}
    <3>1. CASE PickKey(ch) \/ Pick(ch) \/ Save \/ Reload \/ ToggleWifi \/ ToggleTurbo
      BY <3>1 DEF PickKey, Pick, Save, Reload, ToggleWifi, ToggleTurbo, port
    <3>2. CASE sup_boot(by) \/ sup_resume(by)
      BY <3>2 DEF sup_boot, sup_resume
    <3> QED
      BY <2>5, <3>1, <3>2, KeyCases
  <2>6. CASE Console(ConsoleControl) \/ Console(ConsoleWifi) \/ Console(StatusFrame) \/ Console(do_boot)
    BY <2>6 DEF Console
  <2> QED
    BY <2>1, <2>2, <2>3, <2>4, <2>5, <2>6, StepCases
<1> QED
  BY <1>1, KeysHold, PTL DEF Spec, MenuKeysStay

-----------------------------------------------------------------------------
(* No key stays down. *)

\* Once the menu was closed from the keyboard, the last report that went to the machine is
\* empty when no key is held.
ReleaseInv == ~active /\ closedBy = "keyboard" /\ held = {} => sent = {}

LEMMA ReleaseStep == KeysInv /\ ReleaseInv /\ [Next]_vars => ReleaseInv'
<1> SUFFICES ASSUME KeysInv, ReleaseInv, [Next]_vars PROVE ReleaseInv'
  OBVIOUS
<1> USE DEF ReleaseInv
<1>1. CASE KeyByte
  BY <1>1 DEF KeyByte, menu, keyboard
<1>2. CASE CsRise
  BY <1>2 DEF CsRise, Reset, menu, keyboard
<1>3. CASE Button
  BY <1>3 DEF Button, Reset, menu
<1>4. CASE ButtonUp
  BY <1>4 DEF ButtonUp, menu, port, keyboard
<1>5. CASE HidUnmount
  BY <1>5 DEF HidUnmount, SendKeyboard, menu
<1>6. CASE OpensMenu
  BY <1>6 DEF OpensMenu, sup_enter
<1>7. CASE ClosesByHotkey
  BY <1>7 DEF ClosesByHotkey
<1>8. CASE SendsReport
  BY <1>8 DEF SendsReport, SendKeyboard, Pressed
<1>9. CASE Ignores
  BY <1>9 DEF Ignores, menu
<1>10. ASSUME NEW ch \in Typed, NEW by \in {"keyboard", "console"}, Types(ch, by)
       PROVE  ReleaseInv'
  <2>1. active /\ (by = "keyboard" => held' # {})
    BY <1>10 DEF Types
  <2>2. CASE PickKey(ch) \/ Pick(ch) \/ Save \/ Reload \/ ToggleWifi \/ ToggleTurbo
    BY <2>1, <2>2 DEF PickKey, Pick, Save, Reload, ToggleWifi, ToggleTurbo
  <2>3. CASE sup_boot(by) \/ sup_resume(by)
    BY <2>1, <2>3 DEF sup_boot, sup_resume
  <2> QED
    BY <1>10, <2>2, <2>3, KeyCases
<1>11. CASE Console(ConsoleControl)
  BY <1>11 DEF Console, ConsoleControl, Reset, port, keyboard
<1>12. CASE Console(ConsoleWifi)
  BY <1>12 DEF Console, ConsoleWifi, port, keyboard
<1>13. CASE Console(StatusFrame)
  BY <1>13 DEF Console, StatusFrame, menu, keyboard
<1>14. CASE Console(do_boot)
  BY <1>14 DEF Console, do_boot, boot_run, Reset, menu, keyboard
<1>15. CASE UNCHANGED vars
  BY <1>15 DEF vars, menu, port, keyboard
<1> QED
  BY <1>1, <1>2, <1>3, <1>4, <1>5, <1>6, <1>7, <1>8, <1>9, <1>10, <1>11, <1>12, <1>13, <1>14,
     <1>15, StepCases

\* A key released while the menu was open, or with the keyboard's plug, is not left down in the
\* machine after the menu was closed from the keyboard.
THEOREM NoKeySticks == Spec => []NoStuckKey
<1>1. Init => ReleaseInv
  BY DEF Init, ReleaseInv
<1>2. KeysInv /\ ReleaseInv => NoStuckKey
  BY DEF KeysInv, KeysAreWhole, ReleaseInv, NoStuckKey, Ready, Idle
<1> QED
  BY <1>1, <1>2, ReleaseStep, KeysHold, PTL DEF Spec

-----------------------------------------------------------------------------
(* The screen. *)

\* What is drawn depends on the selection, the pick and the two switches only.
LEMMA SamePicture == UNCHANGED <<pending, live, g_turbo, s_up>> => Picture' = Picture
  BY DEF Picture, Picking, Matches, names, s_filter

ScreenInv ==
  /\ ScreenIsTrue
  /\ resetting => ctrl = {}

LEMMA ScreenStep == ScreenInv /\ [Next]_vars => ScreenInv'
<1> SUFFICES ASSUME ScreenInv, [Next]_vars PROVE ScreenInv'
  OBVIOUS
<1> USE DEF ScreenInv, ScreenIsTrue
<1>0. ASSUME UNCHANGED <<menu, resetting>>, ctrl' \in {ctrl, {}}
      PROVE  ScreenInv'
  BY <1>0, SamePicture DEF menu
<1>1. CASE KeyByte
  BY <1>0, <1>1 DEF KeyByte, control
<1>2. CASE CsRise
  BY <1>0, <1>2 DEF CsRise, Reset, control
<1>3. CASE Button
  BY <1>3 DEF Button, Reset
<1>4. CASE ButtonUp
  BY <1>4, SamePicture DEF ButtonUp, menu, control
<1>5. CASE HidUnmount
  BY <1>0, <1>5 DEF HidUnmount, control
<1>6. CASE OpensMenu
  BY <1>6 DEF OpensMenu, sup_enter, fpga_send_control, Draw
<1>7. CASE ClosesByHotkey
  BY <1>7 DEF ClosesByHotkey, sup_resume, fpga_send_control
<1>8. CASE SendsReport
  BY <1>0, <1>8 DEF SendsReport, control
<1>9. CASE Ignores
  BY <1>0, <1>9 DEF Ignores, control
<1>10. ASSUME NEW ch \in Typed, NEW by \in {"keyboard", "console"}, Types(ch, by)
       PROVE  ScreenInv'
  <2>1. active /\ UNCHANGED resetting
    BY <1>10 DEF Types
  <2>2. ASSUME Draw, active', UNCHANGED ctrl
        PROVE  ScreenInv'
    BY <2>1, <2>2 DEF Draw
  <2>3. CASE PickKey(ch)
    <3>1. active' /\ UNCHANGED <<g_turbo, s_up, ctrl>>
      BY <2>1, <2>3 DEF PickKey, control
    <3>2. Draw \/ UNCHANGED <<pending, live, shown>>
      BY <2>3 DEF PickKey, FilterIs, Narrow, do_pick
    <3> QED
      BY <2>1, <2>2, <3>1, <3>2, SamePicture
  <2>4. CASE Pick(ch) \/ Save \/ Reload \/ ToggleWifi
    BY <2>1, <2>2, <2>4 DEF Pick, Save, Reload, ToggleWifi, control
  <2>5. CASE ToggleTurbo
    BY <2>1, <2>5 DEF ToggleTurbo, Draw, fpga_send_control
  <2>6. CASE sup_boot(by)
    BY <2>1, <2>6 DEF sup_boot, boot_run, Reset, fpga_send_control
  <2>7. CASE sup_resume(by)
    BY <2>1, <2>7 DEF sup_resume, fpga_send_control
  <2> QED
    BY <1>10, <2>3, <2>4, <2>5, <2>6, <2>7, KeyCases
<1>11. CASE Console(ConsoleControl)
  BY <1>11 DEF Console, ConsoleControl, Reset, fpga_send_control
<1>12. CASE Console(ConsoleWifi)
  BY <1>12 DEF Console, ConsoleWifi, control
<1>13. CASE Console(StatusFrame)
  BY <1>0, <1>13 DEF Console, StatusFrame, control
<1>14. CASE Console(do_boot)
  BY <1>14 DEF Console, do_boot, boot_run, Reset, fpga_send_control, menu
<1>15. CASE UNCHANGED vars
  BY <1>0, <1>15 DEF vars, control
<1> QED
  BY <1>1, <1>2, <1>3, <1>4, <1>5, <1>6, <1>7, <1>8, <1>9, <1>10, <1>11, <1>12, <1>13, <1>14,
     <1>15, StepCases

LEMMA ScreenHolds == Spec => []ScreenInv
<1>1. Init => ScreenInv
  BY DEF Init, ScreenInv, ScreenIsTrue
<1> QED
  BY <1>1, ScreenStep, PTL DEF Spec

\* With the overlay on and the menu open, the screen shows what the next key acts on, through
\* picks, reloads, failed loads and presses of the button.
THEOREM TrueScreen == Spec => []ScreenIsTrue
<1>1. ScreenInv => ScreenIsTrue
  BY DEF ScreenInv
<1> QED
  BY <1>1, ScreenHolds, PTL

-----------------------------------------------------------------------------
(* The selection: in the machine, and on the card. *)

BootInv == ControlInv /\ BootedAsSelected

LEMMA BootStep == BootInv /\ [Next]_vars => BootedAsSelected'
<1> SUFFICES ASSUME BootInv, [Next]_vars PROVE BootedAsSelected'
  OBVIOUS
<1> USE DEF BootInv, BootedAsSelected
<1>0. ASSUME UNCHANGED <<live, machine>>, ctrlBy' \in {ctrlBy, "other", "menu"}
      PROVE  BootedAsSelected'
  BY <1>0
<1>1. CASE KeyByte
  BY <1>0, <1>1 DEF KeyByte, menu, control
<1>2. CASE CsRise
  BY <1>0, <1>2 DEF CsRise, Reset, menu, control
<1>3. CASE Button
  BY <1>0, <1>3 DEF Button, Reset, menu
<1>4. CASE ButtonUp
  BY <1>0, <1>4 DEF ButtonUp, menu, control
<1>5. CASE HidUnmount
  BY <1>0, <1>5 DEF HidUnmount, menu, control
<1>6. CASE OpensMenu
  BY <1>6 DEF OpensMenu, sup_enter, fpga_send_control, ControlInv
<1>7. CASE ClosesByHotkey
  BY <1>0, <1>7 DEF ClosesByHotkey, sup_resume, fpga_send_control
<1>8. CASE SendsReport
  BY <1>0, <1>8 DEF SendsReport, menu, control
<1>9. CASE Ignores
  BY <1>0, <1>9 DEF Ignores, menu, control
<1>10. ASSUME NEW ch \in Typed, NEW by \in {"keyboard", "console"}, Types(ch, by)
       PROVE  BootedAsSelected'
  <2>1. active /\ UNCHANGED resetting /\ ctrlBy # "selection"
    BY <1>10 DEF Types, ControlInv, MenuOwnsControl
  <2>2. CASE PickKey(ch) \/ Pick(ch) \/ Save \/ Reload \/ ToggleWifi
    BY <2>1, <2>2 DEF PickKey, Pick, Save, Reload, ToggleWifi, control
  <2>3. CASE ToggleTurbo
    BY <2>1, <2>3 DEF ToggleTurbo, fpga_send_control
  <2>4. CASE sup_resume(by)
    BY <2>1, <2>4 DEF sup_resume, fpga_send_control
  <2>5. CASE sup_boot(by)
    <3>1. CASE resetting
      BY <2>1, <2>5, <3>1 DEF sup_boot, boot_run, Loads, fpga_send_control, ControlInv
    <3>2. CASE ~resetting
      <4>1. PICK fault : machine' = [cart |-> Slot(live, fault), drives |-> Mounted(live, fault)]
        BY <2>5 DEF sup_boot, boot_run
      <4>2. Slot(live, fault) \in {live.cart, None}
        BY <3>2 DEF Slot
      <4>3. \A i \in 1..MaxDisks : Mounted(live, fault)[i] \in {live.disk[i], None}
        BY DEF Mounted
      <4>4. live' = live
        BY <2>5 DEF sup_boot
      <4> QED
        BY <4>1, <4>2, <4>3, <4>4
    <3> QED
      BY <3>1, <3>2
  <2> QED
    BY <1>10, <2>2, <2>3, <2>4, <2>5, KeyCases
<1>11. CASE Console(ConsoleControl)
  BY <1>0, <1>11 DEF Console, ConsoleControl, Reset, fpga_send_control
<1>12. CASE Console(ConsoleWifi)
  BY <1>0, <1>12 DEF Console, ConsoleWifi, control
<1>13. CASE Console(StatusFrame)
  BY <1>0, <1>13 DEF Console, StatusFrame, control, menu
<1>14. CASE Console(do_boot)
  BY <1>14 DEF Console, do_boot, boot_run, Reset, fpga_send_control, menu, ControlInv, Loads
<1>15. CASE UNCHANGED vars
  BY <1>0, <1>15 DEF vars, control, menu
<1> QED
  BY <1>1, <1>2, <1>3, <1>4, <1>5, <1>6, <1>7, <1>8, <1>9, <1>10, <1>11, <1>12, <1>13, <1>14,
     <1>15, StepCases

\* After a boot from the menu nothing is in a drive or the slot but what was selected.
THEOREM BootsSelection == Spec => []BootedAsSelected
<1>1. Init => BootInv
  BY DEF Init, BootInv, BootedAsSelected, ControlInv, MenuOwnsControl
<1>2. BootInv /\ [Next]_vars => BootInv'
  BY BootStep, ControlStep DEF BootInv
<1>3. BootInv => BootedAsSelected
  BY DEF BootInv
<1> QED
  BY <1>1, <1>2, <1>3, PTL DEF Spec

CardShape == \E root, mach : card = [root |-> root, mach |-> mach]
LiveShape ==
  \E valid, mach, map, cart, disk :
    live = [valid |-> valid, machine |-> mach, map |-> map, cart |-> cart, disk |-> disk]

\* A selection that was loaded whole from a card that was not spoiled has what a save needs.
MapInv ==
  /\ CardShape /\ LiveShape
  /\ MapKept
  /\ ~spoiled /\ live.valid => live.machine /\ live.map

\* A load finds the memory map, or says that it did not.
LEMMA LoadFindsMap ==
  ASSUME MapInv, NEW fault, live' = config_load(card, fault)
  PROVE  LiveShape' /\ (~spoiled /\ live'.valid => live'.machine /\ live'.map)
BY DEF MapInv, LiveShape, MapKept, config_load, MachineRead, Unread

LEMMA MapStep == MapInv /\ [Next]_vars => MapInv'
<1> SUFFICES ASSUME MapInv, [Next]_vars PROVE MapInv'
  OBVIOUS
<1> USE DEF MapInv, MapKept
<1>0. ASSUME UNCHANGED <<live, storage>> PROVE MapInv'
  BY <1>0 DEF storage, CardShape, LiveShape
<1>1. CASE KeyByte
  BY <1>0, <1>1 DEF KeyByte, menu
<1>2. CASE CsRise
  BY <1>0, <1>2 DEF CsRise, menu
<1>3. CASE Button
  BY <1>0, <1>3 DEF Button, menu
<1>4. CASE ButtonUp
  BY <1>0, <1>4 DEF ButtonUp, menu
<1>5. CASE HidUnmount
  BY <1>0, <1>5 DEF HidUnmount, menu
<1>6. CASE OpensMenu
  BY <1>6, LoadFindsMap DEF OpensMenu, sup_enter, storage, CardShape
<1>7. CASE ClosesByHotkey
  BY <1>0, <1>7 DEF ClosesByHotkey, sup_resume
<1>8. CASE SendsReport
  BY <1>0, <1>8 DEF SendsReport, menu
<1>9. CASE Ignores
  BY <1>0, <1>9 DEF Ignores, menu
<1>10. ASSUME NEW ch \in Typed, NEW by \in {"keyboard", "console"}, Types(ch, by)
       PROVE  MapInv'
  <2>1. CASE PickKey(ch)
    <3>1. UNCHANGED storage
      BY <2>1 DEF PickKey
    <3>2. UNCHANGED live \/ \E name : do_pick(name)
      BY <2>1 DEF PickKey, FilterIs, Narrow
    <3>3. ASSUME NEW name, do_pick(name) PROVE MapInv'
      <4>1. LiveShape' /\ live'.valid = live.valid /\ live'.machine = live.machine /\ live'.map = live.map
        BY <3>3 DEF do_pick, config_select_cart, config_select_disk, LiveShape
      <4> QED
        BY <3>1, <4>1 DEF storage, CardShape
    <3> QED
      BY <1>0, <3>1, <3>2, <3>3
  <2>2. CASE Pick(ch) \/ ToggleWifi \/ ToggleTurbo \/ sup_boot(by) \/ sup_resume(by)
    BY <1>0, <2>2 DEF Pick, ToggleWifi, ToggleTurbo, sup_boot, sup_resume
  <2>3. CASE Save
    <3>1. PICK fault : /\ card' = config_save(card, live, fault)
                       /\ spoiled' = (spoiled \/ fault = <<"write">> \/ ~live.valid)
                       /\ fault \in {NoFault, <<"open">>, <<"write">>}
      BY <2>3 DEF Save, Among
    <3>2. UNCHANGED live
      BY <2>3 DEF Save
    <3>3. CardShape'
      BY <3>1 DEF CardShape, config_save
    <3>4. ASSUME ~spoiled' PROVE card'.root = "machine" /\ card'.mach.map
      <4>1. ~spoiled /\ live.valid /\ fault \in {NoFault, <<"open">>}
        BY <3>1, <3>4
      <4>2. CASE fault = <<"open">>
        BY <3>1, <4>1, <4>2 DEF config_save
      <4>3. CASE fault = NoFault
        BY <3>1, <4>1, <4>3 DEF config_save, NoFault, Content, CardShape
      <4> QED
        BY <4>1, <4>2, <4>3
    <3> QED
      BY <3>1, <3>2, <3>3, <3>4 DEF LiveShape
  <2>4. CASE Reload
    BY <2>4, LoadFindsMap DEF Reload, storage, CardShape
  <2> QED
    BY <1>10, <2>1, <2>2, <2>3, <2>4, KeyCases
<1>11. CASE Console(ConsoleControl)
  BY <1>0, <1>11 DEF Console, ConsoleControl
<1>12. CASE Console(ConsoleWifi)
  BY <1>0, <1>12 DEF Console, ConsoleWifi
<1>13. CASE Console(StatusFrame)
  BY <1>0, <1>13 DEF Console, StatusFrame, menu
<1>14. CASE Console(do_boot)
  BY <1>0, <1>14 DEF Console, do_boot, menu
<1>15. CASE UNCHANGED vars
  BY <1>0, <1>15 DEF vars, menu
<1> QED
  BY <1>1, <1>2, <1>3, <1>4, <1>5, <1>6, <1>7, <1>8, <1>9, <1>10, <1>11, <1>12, <1>13, <1>14,
     <1>15, StepCases

\* The card stays bootable: a save keeps the memory map of the machine, unless the save was cut
\* short or what it saves was never loaded.
THEOREM CardKeepsMap == Spec => []MapKept
<1>1. ASSUME Init PROVE MapInv
  <2>1. PICK mach \in [map : {TRUE}, cart : {CartList[1]}, drives : InitDrives] :
          card = [root |-> "machine", mach |-> mach]
    BY <1>1 DEF Init
  <2>2. live = Unread
    BY <1>1 DEF Init
  <2> QED
    BY <2>1, <2>2 DEF MapInv, MapKept, CardShape, LiveShape, Unread
<1>2. MapInv => MapKept
  BY DEF MapInv
<1> QED
  BY <1>1, <1>2, MapStep, PTL DEF Spec

-----------------------------------------------------------------------------
(* What a save stores. *)

\* What drives hold: a name each.
Vector(d) == d = [i \in 1..MaxDisks |-> d[i]]

\* Of a selection without gaps, the names kept are the selection again.
LEMMA KeptAgain ==
  ASSUME NEW d, Vector(d), Dense(d)
  PROVE  Disks(Kept(d), NoFault) = d
<1> DEFINE S == Seq({d[i] : i \in 1..MaxDisks})
           c == <<>>
           More(s, i) == IF d[i] = None THEN s ELSE Append(s, d[i])
           upto == CHOOSE h : h = [i \in 0..MaxDisks |-> IF i = 0 THEN c ELSE More(h[i - 1], i)]
<1>1. Kept(d) = upto[MaxDisks]
  BY DEF Kept
<1>2. c \in S /\ Len(c) = 0
  BY EmptySeq
<1>3. ASSUME NEW s \in S, NEW i \in 1..MaxDisks
      PROVE  /\ Append(s, d[i]) \in S /\ Len(Append(s, d[i])) = Len(s) + 1
             /\ \A k \in 1..Len(s) : Append(s, d[i])[k] = s[k]
             /\ Append(s, d[i])[Len(s) + 1] = d[i]
  <2>1. d[i] \in {d[k] : k \in 1..MaxDisks}
    OBVIOUS
  <2> QED
    BY <2>1, AppendProperties
<1>4. ASSUME NEW s \in S, NEW i \in 1..MaxDisks PROVE More(s, i) \in S
  BY <1>3
<1> HIDE DEF S, c, More
<1>5. upto = [i \in 0..MaxDisks |-> IF i = 0 THEN c ELSE More(upto[i - 1], i)]
  <2> DEFINE g == [p \in S \X (1..MaxDisks) |-> More(p[1], p[2])]
  <2>1. g \in Steps(S, MaxDisks)
    BY <1>4 DEF Steps
  <2> HIDE DEF g
  <2>2. PICK f : IsLoop(f, S, c, g, MaxDisks)
    BY <1>2, <2>1, ConfigAssumption, LoopExists
  <2>3. \A i \in 1..MaxDisks : g[<<f[i - 1], i>>] = More(f[i - 1], i)
    BY <2>2, ConfigAssumption DEF g, IsLoop
  <2>4. f \in [0..MaxDisks -> S] /\ f[0] = c /\ \A i \in 1..MaxDisks : f[i] = More(f[i - 1], i)
    BY <2>2, <2>3 DEF IsLoop
  <2>5. ASSUME NEW i \in 0..MaxDisks PROVE f[i] = IF i = 0 THEN c ELSE More(f[i - 1], i)
    BY <2>4, ConfigAssumption
  <2>6. f = [i \in 0..MaxDisks |-> IF i = 0 THEN c ELSE More(f[i - 1], i)]
    BY <2>4, <2>5
  <2> QED
    BY <2>6
\* After i drives, the names kept are those of the first drives, and the others are empty.
<1> DEFINE Part(s, i) == /\ Len(s) <= i
                         /\ \A k \in 1..Len(s) : s[k] = d[k]
                         /\ \A k \in 1..i : k > Len(s) => d[k] = None
           T == [i \in 0..MaxDisks |-> {s \in S : Part(s, i)}]
<1> HIDE DEF upto
<1>6. \A s \in S : Len(s) \in Nat
  BY DEF S
<1>7. upto[0] \in T[0]
  BY <1>2, <1>5, ConfigAssumption
<1>8. ASSUME NEW i \in 1..MaxDisks, upto[i - 1] \in T[i - 1] PROVE upto[i] \in T[i]
  <2> DEFINE s == upto[i - 1]
  <2>1. s \in S /\ Part(s, i - 1) /\ i \in Nat /\ Len(s) \in Nat
    BY <1>6, <1>8, ConfigAssumption
  <2>2. upto[i] = More(s, i)
    BY <1>5, ConfigAssumption
  <2> HIDE DEF s
  <2>3. CASE d[i] = None
    <3>1. Part(s, i)
      BY <2>1, <2>3
    <3> QED
      BY <2>1, <2>2, <2>3, <3>1 DEF More
  <2>4. CASE d[i] # None
    <3>1. \A k \in 1..(i - 1) : d[k] # None
      BY <2>4, ConfigAssumption DEF Dense
    <3>2. Len(s) = i - 1
      BY <2>1, <3>1
    <3> DEFINE t == Append(s, d[i])
    <3>3. t \in S /\ Len(t) = i /\ (\A k \in 1..(i - 1) : t[k] = s[k]) /\ t[i] = d[i]
      BY <1>3, <2>1, <3>2
    <3> HIDE DEF t
    <3>4. Part(t, i)
      BY <2>1, <3>2, <3>3
    <3>5. upto[i] = t
      BY <2>2, <2>4 DEF More, t
    <3> QED
      BY <2>1, <3>3, <3>4, <3>5, ConfigAssumption
  <2> QED
    BY <2>3, <2>4
<1> HIDE DEF T
<1>9. \A i \in 0..MaxDisks : upto[i] \in T[i]
  BY <1>7, <1>8, ConfigAssumption, LoopKeeps
<1>10. Kept(d) \in S /\ Part(Kept(d), MaxDisks)
  BY <1>1, <1>9, ConfigAssumption DEF T
<1>11. Len(Kept(d)) \in Nat
  BY <1>6, <1>10
<1>12. \A i \in 1..MaxDisks : (IF i <= Len(Kept(d)) THEN Kept(d)[i] ELSE None) = d[i]
  BY <1>10, <1>11, ConfigAssumption
<1>13. Resolved(Kept(d), NoFault) = Kept(d)
  BY DEF Resolved, NoFault, InDisk
<1> QED
  BY <1>12, <1>13 DEF Disks, Vector

\* A selection with its machine's directory can only come from a /config.json that no save has
\* overwritten, so what is saved goes where the next load looks.
Roots == {"machine", "saved", "empty"}
SavedInv ==
  /\ CardShape /\ LiveShape /\ Vector(live.disk) /\ card.root \in Roots
  /\ live.machine => card.root = "machine"
  /\ saved # Nothing =>
       /\ card.root = "machine" /\ card.mach.cart = saved.cart
       /\ card.mach.drives = Kept(saved.disk)
       /\ Vector(saved.disk) /\ Dense(saved.disk)

LEMMA LoadFromRoot ==
  ASSUME NEW fault, card.root \in Roots, live' = config_load(card, fault)
  PROVE  LiveShape' /\ Vector(live'.disk) /\ (live'.machine => card.root = "machine")
<1>1. LiveShape'
  BY DEF LiveShape, config_load, MachineRead, Unread
<1>2. Vector(live'.disk)
  BY DEF Vector, config_load, MachineRead, Unread, Disks, NoDisks
<1>3. ASSUME live'.machine PROVE card.root = "machine"
  BY <1>3 DEF Roots, config_load, Unread
<1> QED
  BY <1>1, <1>2, <1>3

LEMMA SavedStep == SavedInv /\ [Next]_vars => SavedInv'
<1> SUFFICES ASSUME SavedInv, [Next]_vars PROVE SavedInv'
  OBVIOUS
<1> USE DEF SavedInv
<1>0. ASSUME UNCHANGED <<live, storage>> PROVE SavedInv'
  BY <1>0 DEF storage, CardShape, LiveShape, Vector
<1>1. CASE KeyByte
  BY <1>0, <1>1 DEF KeyByte, menu
<1>2. CASE CsRise
  BY <1>0, <1>2 DEF CsRise, menu
<1>3. CASE Button
  BY <1>0, <1>3 DEF Button, menu
<1>4. CASE ButtonUp
  BY <1>0, <1>4 DEF ButtonUp, menu
<1>5. CASE HidUnmount
  BY <1>0, <1>5 DEF HidUnmount, menu
<1>6. CASE OpensMenu
  BY <1>6, LoadFromRoot DEF OpensMenu, sup_enter, storage, CardShape, Vector
<1>7. CASE ClosesByHotkey
  BY <1>0, <1>7 DEF ClosesByHotkey, sup_resume
<1>8. CASE SendsReport
  BY <1>0, <1>8 DEF SendsReport, menu
<1>9. CASE Ignores
  BY <1>0, <1>9 DEF Ignores, menu
<1>10. ASSUME NEW ch \in Typed, NEW by \in {"keyboard", "console"}, Types(ch, by)
       PROVE  SavedInv'
  <2>1. CASE PickKey(ch)
    <3>1. UNCHANGED storage
      BY <2>1 DEF PickKey
    <3>2. UNCHANGED live \/ \E name : do_pick(name)
      BY <2>1 DEF PickKey, FilterIs, Narrow
    <3>3. ASSUME NEW name, do_pick(name) PROVE SavedInv'
      <4>1. LiveShape' /\ live'.machine = live.machine
        BY <3>3 DEF do_pick, config_select_cart, config_select_disk, LiveShape
      <4>2. live'.disk = live.disk \/ \E drive : live'.disk = [live.disk EXCEPT ![drive] = name]
        BY <3>3 DEF do_pick, config_select_cart, config_select_disk, LiveShape
      <4>3. Vector(live'.disk)
        BY <4>2 DEF Vector
      <4> QED
        BY <3>1, <4>1, <4>3 DEF storage, CardShape, Vector
    <3> QED
      BY <1>0, <3>1, <3>2, <3>3
  <2>2. CASE Pick(ch) \/ ToggleWifi \/ ToggleTurbo \/ sup_boot(by) \/ sup_resume(by)
    BY <1>0, <2>2 DEF Pick, ToggleWifi, ToggleTurbo, sup_boot, sup_resume
  <2>3. CASE Save
    <3>1. PICK fault : /\ card' = config_save(card, live, fault)
                       /\ fault \in {NoFault, <<"open">>, <<"write">>}
                       /\ saved' = IF fault = NoFault /\ Stored /\ Dense(live.disk)
                                   THEN [cart |-> live.cart, disk |-> live.disk] ELSE Nothing
      BY <2>3 DEF Save, Among
    <3>2. UNCHANGED live
      BY <2>3 DEF Save
    <3>3. CardShape' /\ card'.root \in Roots /\ (live.machine => card'.root = card.root)
      BY <3>1 DEF CardShape, config_save, Roots
    <3>4. ASSUME saved' # Nothing
          PROVE  /\ card'.root = "machine" /\ card'.mach.cart = saved'.cart
                 /\ card'.mach.drives = Kept(saved'.disk)
                 /\ Vector(saved'.disk) /\ Dense(saved'.disk)
      <4>1. fault = NoFault /\ live.machine /\ Dense(live.disk)
        BY <3>1, <3>4 DEF Stored
      <4>2. saved' = [cart |-> live.cart, disk |-> live.disk]
        BY <3>1, <3>4
      <4>3. card' = [card EXCEPT !.mach = Content(live)]
        BY <3>1, <4>1 DEF config_save, NoFault
      <4>4. card'.root = "machine" /\ card'.mach = Content(live)
        BY <4>1, <4>3 DEF CardShape
      <4> QED
        BY <4>1, <4>2, <4>4 DEF Content
    <3> QED
      BY <3>1, <3>2, <3>3, <3>4 DEF LiveShape, Vector
  <2>4. CASE Reload
    BY <2>4, LoadFromRoot DEF Reload, storage, CardShape, Vector
  <2> QED
    BY <1>10, <2>1, <2>2, <2>3, <2>4, KeyCases
<1>11. CASE Console(ConsoleControl)
  BY <1>0, <1>11 DEF Console, ConsoleControl
<1>12. CASE Console(ConsoleWifi)
  BY <1>0, <1>12 DEF Console, ConsoleWifi
<1>13. CASE Console(StatusFrame)
  BY <1>0, <1>13 DEF Console, StatusFrame, menu
<1>14. CASE Console(do_boot)
  BY <1>0, <1>14 DEF Console, do_boot, menu
<1>15. CASE UNCHANGED vars
  BY <1>0, <1>15 DEF vars, menu
<1> QED
  BY <1>1, <1>2, <1>3, <1>4, <1>5, <1>6, <1>7, <1>8, <1>9, <1>10, <1>11, <1>12, <1>13, <1>14,
     <1>15, StepCases

\* What was saved without gaps is what the next load finds, however many drives there are and
\* whatever is picked, reloaded or fails in between.
THEOREM SaveIsLoaded == Spec => []SavedComesBack
<1>1. ASSUME Init PROVE SavedInv
  <2>1. PICK mach \in [map : {TRUE}, cart : {CartList[1]}, drives : InitDrives] :
          card = [root |-> "machine", mach |-> mach]
    BY <1>1 DEF Init
  <2>2. live = Unread /\ saved = Nothing
    BY <1>1 DEF Init
  <2> QED
    BY <2>1, <2>2 DEF SavedInv, CardShape, LiveShape, Unread, Vector, NoDisks, Roots
<1>2. SavedInv => SavedComesBack
  <2> SUFFICES ASSUME SavedInv, saved # Nothing
               PROVE  /\ config_load(card, NoFault).valid
                      /\ config_load(card, NoFault).cart = saved.cart
                      /\ config_load(card, NoFault).disk = saved.disk
    BY DEF SavedComesBack
  <2>1. card.root = "machine" /\ card.mach.cart = saved.cart /\ card.mach.drives = Kept(saved.disk)
    BY DEF SavedInv
  <2>2. NoFault # InRoot /\ NoFault # InMachine /\ NoFault # InCart
    BY DEF NoFault, InRoot, InMachine, InCart
  <2>3. config_load(card, NoFault) = MachineRead(card.mach, NoFault)
    BY <2>1, <2>2 DEF config_load
  <2>4. Disks(card.mach.drives, NoFault) = saved.disk
    BY <2>1, KeptAgain DEF SavedInv
  <2> QED
    BY <2>1, <2>2, <2>3, <2>4 DEF MachineRead
<1> QED
  BY <1>1, <1>2, SavedStep, PTL DEF Spec

-----------------------------------------------------------------------------
(* A pick. *)

\* A number picks the entry that is on the screen beside it.
THEOREM PicksWhatIsShown == Spec => PickedIsShown
<1> DEFINE P == \A ch \in DOMAIN Number :
       Picking /\ "display" \in ctrl /\ handle_console /\ ConsoleKey(ch) /\ live' # live
         => live' \in {Changed(name) : name \in Entries(ch)}
<1>1. ASSUME ScreenInv PROVE P
  <2> SUFFICES ASSUME NEW ch \in DOMAIN Number, Picking, "display" \in ctrl,
                      ConsoleKey(ch), live' # live
               PROVE  \E name \in Entries(ch) : live' = Changed(name)
    OBVIOUS
  <2>1. active /\ sup_feed_key(ch, "console")
    BY DEF ConsoleKey
  <2>2. PickKey(ch)
    BY <2>1 DEF sup_feed_key
  <2>3. ch \in {"0", "1", "2", "enter"}
    BY DEF Number
  <2>4. PICK name \in Picks(ch) : do_pick(name)
    BY <2>2, <2>3 DEF PickKey, FilterIs
  <2>5. live' = Changed(name)
    BY <2>4 DEF do_pick, config_select_cart, config_select_disk, Changed
  <2>6. shown = [pick |-> pending.what, filter |-> s_filter, list |-> Matches]
    BY <1>1, <2>1 DEF ScreenInv, ScreenIsTrue, Picture
  <2>7. name \in Entries(ch)
    <3>1. CASE ch = "0"
      BY <2>4, <3>1 DEF Picks, Entries
    <3>2. CASE ch # "0"
      <4>1. Number[ch] \in {1, 2}
        BY <2>3, <3>2 DEF Number
      <4>2. Number[ch] <= Len(Matches) /\ name = Matches[Number[ch]]
        BY <2>4, <3>2 DEF Picks, PickNth
      <4> QED
        BY <2>6, <3>2, <4>1, <4>2 DEF Entries
    <3> QED
      BY <3>1, <3>2
  <2> QED
    BY <2>5, <2>7
<1>2. ScreenInv /\ [Next]_vars => [P]_vars
  BY <1>1
<1> QED
  BY <1>2, ScreenHolds, PTL DEF Spec, PickedIsShown

-----------------------------------------------------------------------------
(* Types. *)

HidKeys == Keys \union {"hot", "F8"}
Picks0 == [what : {"none", "cart", "disk"}, drive : 1..MaxDisks, filter : Seq(Typed)]

\* What TypeOK needs besides: the reports in the port are of keys, and the filter is of what
\* can be typed.
TypeInv ==
  /\ TypeOK
  /\ LiveShape /\ CardShape
  /\ pending \in Picks0
  /\ nextKeys \subseteq HidKeys \ {"hot"} /\ frame.todo \subseteq HidKeys \ {"hot"}
  /\ \E cmd, todo : frame = [cmd |-> cmd, todo |-> todo]

LEMMA NoPickIsPick == NoPick \in Picks0 /\ NoPick.what = "none" /\ Len(NoPick.filter) = 0
  BY ConfigAssumption, EmptySeq DEF NoPick, Picks0

LEMMA HeldStep == held \subseteq HidKeys /\ [Next]_vars => held' \subseteq HidKeys
<1> SUFFICES ASSUME held \subseteq HidKeys, [Next]_vars PROVE held' \subseteq HidKeys
  OBVIOUS
<1>1. CASE HidReport
  BY <1>1 DEF HidReport, HidKeys
<1>2. CASE handle_console
  BY <1>2 DEF handle_console, keyboard
<1>3. CASE KeyByte \/ CsRise \/ Button \/ ButtonUp \/ HidUnmount \/ UNCHANGED vars
  BY <1>3 DEF KeyByte, CsRise, Button, ButtonUp, HidUnmount, vars, keyboard
<1> QED
  BY <1>1, <1>2, <1>3 DEF Next

\* A load has a slot for every drive.
LEMMA LoadType ==
  ASSUME NEW c, NEW fault, live' = config_load(c, fault)
  PROVE  LiveShape' /\ DOMAIN live'.disk = 1..MaxDisks
BY DEF LiveShape, config_load, MachineRead, Unread, Disks, NoDisks

LEMMA TypeStep == TypeInv /\ [Next]_vars => TypeInv'
<1> SUFFICES ASSUME TypeInv, [Next]_vars PROVE TypeInv'
  OBVIOUS
<1>0. held' \subseteq HidKeys
  BY HeldStep DEF TypeInv, TypeOK, HidKeys
<1> DEFINE M == /\ active' \in BOOLEAN /\ pending' \in Picks0 /\ Len(pending'.filter) <= FilterMax
                /\ g_turbo' \in BOOLEAN /\ s_up' \in BOOLEAN /\ (pending' # NoPick => active')
           L == LiveShape' /\ DOMAIN live'.disk = 1..MaxDisks
           C == CardShape' /\ card'.root \in {"machine", "saved", "empty"}
           R == ctrl' \subseteq {"halt", "display", "turbo", "start"}
           K == /\ keys' \subseteq Keys
                /\ nextKeys' \subseteq HidKeys \ {"hot"} /\ frame'.todo \subseteq HidKeys \ {"hot"}
                /\ \E cmd, todo : frame' = [cmd |-> cmd, todo |-> todo]
<1> SUFFICES M /\ L /\ C /\ R /\ K
  BY <1>0 DEF TypeInv, TypeOK, HidKeys, Picks0, s_filter, Picking
<1>12. ASSUME UNCHANGED <<active, pending, live, g_turbo>>, s_up' \in BOOLEAN
       PROVE  M /\ L
  <2>1. M
    BY <1>12 DEF TypeInv, TypeOK, s_filter, Picking
  <2>2. L
    BY <1>12 DEF TypeInv, TypeOK, LiveShape
  <2> QED
    BY <2>1, <2>2
<1>m. UNCHANGED menu => M /\ L
  BY <1>12 DEF TypeInv, TypeOK, menu
<1>l. UNCHANGED live => L
  BY DEF TypeInv, TypeOK, LiveShape
<1>n. ASSUME pending' = NoPick, active' \in BOOLEAN, UNCHANGED <<g_turbo, s_up>> PROVE M
  BY <1>n, NoPickIsPick, SupervisorAssumption DEF TypeInv, TypeOK
<1>c. UNCHANGED storage => C
  BY DEF TypeInv, TypeOK, storage, CardShape
<1>r. UNCHANGED ctrl => R
  BY DEF TypeInv, TypeOK
<1>s. ASSUME NEW bits \in SUBSET {"halt", "display", "turbo", "start"}, NEW by, fpga_send_control(bits, by)
      PROVE  R
  BY <1>s DEF fpga_send_control
<1>k. UNCHANGED port => K
  BY DEF TypeInv, TypeOK, port
<1>z. ASSUME NEW by, Reset(by), UNCHANGED frame PROVE R /\ K
  BY <1>z DEF Reset, TypeInv
<1>p. ASSUME NEW report \in SUBSET (HidKeys \ {"hot"}), SendKeyboard(report) PROVE K
  BY <1>p DEF SendKeyboard, TypeInv, TypeOK
<1> HIDE DEF M, L, C, R, K
<1>1. CASE KeyByte
  <2>1. K
    BY <1>1 DEF KeyByte, TypeInv, TypeOK, K
  <2> QED
    BY <1>1, <2>1, <1>m, <1>c, <1>r DEF KeyByte, control
<1>2. CASE CsRise
  <2>1. M /\ L /\ C
    BY <1>2, <1>m, <1>c DEF CsRise
  <2>2. R
    BY <1>2, <1>r DEF CsRise, Reset, R, control
  <2>3. CASE Reset("other")
    <3>1. keys' = {} /\ nextKeys' = {} /\ frame' = Idle
      BY <1>2, <2>3 DEF CsRise, Reset
    <3> QED
      BY <2>1, <2>2, <3>1 DEF Idle, K
  <2>4. CASE keys' = (IF frame.cmd = "K" /\ ~resetting THEN nextKeys ELSE keys) /\ UNCHANGED nextKeys
    <3>1. keys' \subseteq Keys
      <4>1. CASE frame.cmd = "K" /\ "F8" \in nextKeys
        BY <1>2, <4>1 DEF CsRise, Reset
      <4>2. CASE ~(frame.cmd = "K" /\ "F8" \in nextKeys)
        <5>1. nextKeys \subseteq Keys \/ frame.cmd # "K"
          BY <4>2 DEF TypeInv, HidKeys
        <5>2. keys \subseteq Keys
          BY DEF TypeInv, TypeOK
        <5> QED
          BY <2>4, <5>1, <5>2
      <4> QED
        BY <4>1, <4>2
    <3>2. frame' = Idle
      BY <1>2 DEF CsRise
    <3> QED
      BY <2>1, <2>2, <2>4, <3>1, <3>2 DEF Idle, K, TypeInv
  <2>5. K
    BY <1>2, <2>3, <2>4 DEF CsRise
  <2> QED
    BY <2>1, <2>2, <2>5
<1>3. CASE Button
  BY <1>3, <1>m, <1>c, <1>z DEF Button
<1>4. CASE ButtonUp
  BY <1>4, <1>m, <1>c, <1>r, <1>k DEF ButtonUp, control
<1>5. CASE HidUnmount
  BY <1>5, <1>m, <1>c, <1>r, <1>p DEF HidUnmount, control
<1>6. CASE OpensMenu
  <2>1. M
    BY <1>6, <1>n DEF OpensMenu, sup_enter
  <2>2. L
    BY <1>6, LoadType DEF OpensMenu, sup_enter, L
  <2>3. R
    BY <1>6, <1>s DEF OpensMenu, sup_enter, Turbo
  <2> QED
    BY <1>6, <1>c, <1>k, <2>1, <2>2, <2>3 DEF OpensMenu, sup_enter
<1>7. ASSUME NEW by, sup_resume(by) PROVE M /\ L /\ C /\ R
  <2>1. M /\ L
    BY <1>7, <1>l, <1>n DEF sup_resume
  <2>2. R
    BY <1>7, <1>s DEF sup_resume, Turbo
  <2> QED
    BY <1>7, <1>c, <2>1, <2>2 DEF sup_resume
<1>8. CASE ClosesByHotkey
  BY <1>7, <1>8, <1>0, <1>p DEF ClosesByHotkey, Pressed
<1>9. CASE SendsReport
  BY <1>9, <1>0, <1>m, <1>c, <1>r, <1>p DEF SendsReport, Pressed, control
<1>10. CASE Ignores
  BY <1>10, <1>m, <1>c, <1>r, <1>k DEF Ignores, control
<1>11. ASSUME NEW ch \in Typed, NEW by \in {"keyboard", "console"}, Types(ch, by)
       PROVE  M /\ L /\ C /\ R /\ K
  <2>0. active
    BY <1>11 DEF Types
  <2>1. CASE PickKey(ch)
    <3>1. C /\ R /\ K /\ UNCHANGED <<active, g_turbo, s_up>>
      BY <2>1, <1>c, <1>r, <1>k DEF PickKey, control
    <3>2. ASSUME NEW filter \in Seq(Typed), Len(filter) <= FilterMax, FilterIs(filter)
          PROVE  M /\ L
      <4>1. M
        BY <2>0, <3>1, <3>2 DEF FilterIs, M, TypeInv, TypeOK, Picks0
      <4> QED
        BY <3>2, <4>1, <1>l DEF FilterIs
    <3>3. ASSUME UNCHANGED <<live, pending>> PROVE M /\ L
      BY <3>1, <3>3, <1>12 DEF TypeInv, TypeOK
    <3>4. s_filter \in Seq(Typed) /\ Len(s_filter) \in Nat /\ Len(s_filter) <= FilterMax
      BY LenProperties DEF TypeInv, TypeOK, Picks0, s_filter
    <3>5. CASE FilterIs(<<>>)
      <4>1. <<>> \in Seq(Typed) /\ Len(<<>>) <= FilterMax
        BY EmptySeq, SupervisorAssumption
      <4> QED
        BY <3>1, <3>2, <3>5, <4>1
    <3>6. CASE pending' = NoPick /\ UNCHANGED live
      BY <2>0, <3>1, <3>6, <1>l, <1>n
    <3>7. CASE s_filter # <<>> /\ FilterIs(Front(s_filter))
      <4>1. Front(s_filter) \in Seq(Typed) /\ Len(Front(s_filter)) <= FilterMax
        <5>1. \A i \in 1..(Len(s_filter) - 1) : s_filter[i] \in Typed
          BY <3>4, ElementOfSeq
        <5> QED
          BY <3>4, <3>7, <5>1, SubSeqProperties, EmptySeq, SupervisorAssumption DEF Front
      <4> QED
        BY <3>1, <3>2, <3>7, <4>1
    <3>8. CASE Narrow(ch)
      <4>1. CASE Len(s_filter) < FilterMax /\ FilterIs(Append(s_filter, ch))
        <5>1. Append(s_filter, ch) \in Seq(Typed) /\ Len(Append(s_filter, ch)) = Len(s_filter) + 1
          BY <3>4, AppendProperties
        <5>2. Len(Append(s_filter, ch)) <= FilterMax
          BY <3>4, <4>1, <5>1, SupervisorAssumption
        <5> QED
          BY <3>1, <3>2, <4>1, <5>1, <5>2
      <4>2. CASE UNCHANGED <<pending, live>>
        BY <3>1, <3>3, <4>2
      <4> QED
        BY <3>8, <4>1, <4>2 DEF Narrow
    <3>9. ASSUME NEW name, do_pick(name) PROVE M /\ L
      <4>1. L
        BY <3>9 DEF do_pick, config_select_cart, config_select_disk, L, LiveShape, TypeInv, TypeOK
      <4>2. M
        BY <2>0, <3>1, <3>9, <1>n DEF do_pick, TypeInv, TypeOK
      <4> QED
        BY <4>1, <4>2
    <3> QED
      BY <2>1, <3>1, <3>5, <3>6, <3>7, <3>8, <3>9 DEF PickKey
  <2>2. CASE Pick(ch)
    <3>1. M
      <4>1. PICK what \in {"cart", "disk"}, drive \in 1..MaxDisks :
               pending' = [what |-> what, drive |-> drive, filter |-> <<>>]
        <5>1. CASE ch = "c"
          BY <2>2, <5>1, ConfigAssumption DEF Pick
        <5>2. CASE ch \in {"1", "2"}
          <6>1. Number[ch] \in {1, 2}
            BY <5>2 DEF Number
          <6> QED
            BY <2>2, <5>2, <6>1, ConfigAssumption DEF Pick
        <5> QED
          BY <2>2, <5>1, <5>2 DEF Pick
      <4>3. pending' \in Picks0 /\ pending'.filter = <<>>
        BY <4>1, EmptySeq DEF Picks0
      <4>2. Len(pending'.filter) <= FilterMax
        BY <4>3, SupervisorAssumption, EmptySeq
      <4> QED
        BY <2>0, <2>2, <4>3, <4>2 DEF Pick, M, TypeInv, TypeOK
    <3> QED
      BY <2>2, <3>1, <1>c, <1>r, <1>k, <1>l DEF Pick, control
  <2>3. CASE sup_boot(by)
    <3>1. M /\ L
      BY <2>3, <1>l, <1>n DEF sup_boot
    <3>2. R /\ K
      <4>1. PICK fault : boot_run(live, fault, "selection") /\ UNCHANGED frame
        BY <2>3 DEF sup_boot
      <4>2. \/ Reset("selection") /\ UNCHANGED frame
            \/ fpga_send_control({}, "selection") /\ UNCHANGED port
        BY <4>1 DEF boot_run, port
      <4> QED
        BY <4>2, <1>z, <1>s, <1>k
    <3> QED
      BY <2>3, <3>1, <3>2, <1>c DEF sup_boot
  <2>4. CASE sup_resume(by) /\ UNCHANGED port
    BY <2>4, <1>7, <1>k
  <2>5. CASE Save
    <3>1. M /\ L
      BY <2>5, <1>12 DEF Save, TypeInv, TypeOK
    <3>2. C
      BY <2>5 DEF Save, config_save, C, CardShape, TypeInv, TypeOK
    <3> QED
      BY <2>5, <3>1, <3>2, <1>r, <1>k DEF Save, control
  <2>6. CASE Reload
    <3>1. M
      BY <2>6 DEF Reload, M, TypeInv, TypeOK, s_filter, Picking
    <3>2. L
      BY <2>6, LoadType DEF Reload, L
    <3> QED
      BY <2>6, <3>1, <3>2, <1>c, <1>r, <1>k DEF Reload, control
  <2>7. CASE ToggleTurbo
    <3>0. M
      BY <2>7 DEF ToggleTurbo, M, TypeInv, TypeOK, s_filter, Picking
    <3>1. M /\ L
      BY <2>7, <3>0, <1>l DEF ToggleTurbo
    <3>2. R
      BY <2>7, <1>s DEF ToggleTurbo, Turbo
    <3> QED
      BY <2>7, <3>1, <3>2, <1>c, <1>k DEF ToggleTurbo
  <2>8. CASE ToggleWifi
    <3>1. M /\ L
      BY <2>8, <1>12 DEF ToggleWifi, TypeInv, TypeOK
    <3> QED
      BY <2>8, <3>1, <1>c, <1>r, <1>k DEF ToggleWifi, control
  <2> QED
    BY <1>11, <2>1, <2>2, <2>3, <2>4, <2>5, <2>6, <2>7, <2>8, KeyCases
<1>13. CASE Console(ConsoleControl)
  <2>1. M /\ L
    BY <1>12, <1>13 DEF Console, ConsoleControl, TypeInv, TypeOK
  <2>2. \/ Reset("other") /\ UNCHANGED frame
        \/ UNCHANGED port /\ \E bits \in SUBSET {"halt", "display", "turbo", "start"} : fpga_send_control(bits, "other")
    <3>1. {"start"} \in SUBSET {"halt", "display", "turbo", "start"}
      OBVIOUS
    <3> QED
      BY <1>13, <3>1 DEF Console, ConsoleControl
  <2>3. R /\ K
    BY <2>2, <1>z, <1>s, <1>k
  <2> QED
    BY <1>13, <2>1, <2>3, <1>c DEF Console, ConsoleControl
<1>14. CASE Console(ConsoleWifi)
  BY <1>12, <1>14, <1>c, <1>r, <1>k DEF Console, ConsoleWifi, control
<1>15. CASE Console(StatusFrame)
  <2>1. K
    BY <1>15 DEF Console, StatusFrame, K, TypeInv, TypeOK
  <2> QED
    BY <1>15, <2>1, <1>m, <1>c, <1>r DEF Console, StatusFrame, control
<1>16. CASE Console(do_boot)
  <2>1. \/ Reset("boot") /\ UNCHANGED frame
        \/ fpga_send_control({}, "boot") /\ UNCHANGED port
    BY <1>16 DEF Console, do_boot, boot_run, port
  <2> QED
    BY <1>16, <2>1, <1>m, <1>c, <1>z, <1>s, <1>k DEF Console, do_boot
<1>17. CASE UNCHANGED vars
  BY <1>17, <1>m, <1>c, <1>r, <1>k DEF vars, control
<1> QED
  BY <1>1, <1>2, <1>3, <1>4, <1>5, <1>6, <1>8, <1>9, <1>10, <1>11, <1>13, <1>14, <1>15, <1>16,
     <1>17, StepCases

\* Ranges: the filter never outgrows its buffer, and a pick under way means an open menu.
THEOREM TypeCorrect == Spec => []TypeOK
<1>1. ASSUME Init PROVE TypeInv
  <2>1. PICK mach : card = [root |-> "machine", mach |-> mach]
    BY <1>1 DEF Init
  <2>2. live = Unread /\ pending = NoPick /\ active = FALSE /\ g_turbo = FALSE /\ s_up = FALSE
        /\ ctrl = {} /\ keys = {} /\ nextKeys = {} /\ frame = Idle /\ held = {}
    BY <1>1 DEF Init
  <2>3. LiveShape /\ DOMAIN live.disk = 1..MaxDisks
    BY <2>2 DEF LiveShape, Unread, NoDisks
  <2>4. pending \in Picks0 /\ Len(s_filter) <= FilterMax /\ ~Picking
    BY <2>2, NoPickIsPick, SupervisorAssumption DEF s_filter, Picking
  <2> QED
    BY <2>1, <2>2, <2>3, <2>4 DEF TypeInv, TypeOK, CardShape, Idle, Picks0
<1>2. TypeInv => TypeOK
  BY DEF TypeInv
<1> QED
  BY <1>1, <1>2, TypeStep, PTL DEF Spec
=============================================================================
