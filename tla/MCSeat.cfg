\* Two lock keys, one of which another keymap makes a modifier, a key that is also
\* the hotkey's, two sessions and two keymap changes; then the user stops.
SPECIFICATION Spec
CONSTANTS
  Keys = {58, 45}
  Keymaps = {"us", "other", "bad"}
  Rejected = {"bad"}
  DefaultMap = "us"
  NoMap = "none"
  Role <- Roles
  HotkeyKey = 45
  UiCap = 2
  WireCap = 1
  CmdCap = 1
  MaxSwitches = 2
  MaxSessions = 2
INVARIANTS NothingStuck ModifiersFollowKeys
PROPERTIES LocksSurvive KeymapConverges
CHECK_DEADLOCK FALSE
