SPECIFICATION Spec
CONSTANTS
  MaxDisks = 2
  CartList <- MCCarts
  DiskList <- MCDisks
  RootList <- MCRoot
  Keys = {"Q"}
  KeyChar <- MCKeyChar
  Chars = {"c", "1", "2", "b", "q", "s", "r", "t", "w", "0", "enter", "esc", "bksp"}
  FilterMax = 1
  InitDrives <- MCInitDrives
  MaxInputs = 6
  MaxFaults = 1
INVARIANTS TypeOK ScreenIsTrue MenuOwnsControl KeysAreWhole NoStuckKey BootedAsSelected SavedComesBack MapKept
PROPERTIES MenuKeysStay PickedIsShown
CHECK_DEADLOCK FALSE
