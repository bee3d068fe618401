\* Copies, clears and a paste on both desktops; they end.
SPECIFICATION Spec
CONSTANTS
  MaxCopies = 3
  MaxClears = 2
  MaxPastes = 1
INVARIANTS OffersAreForeign Shared PasteIsPromised
CHECK_DEADLOCK FALSE
