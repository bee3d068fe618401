\* A headless machine, a mirrored one and one of another version; the user
\* and the faults stop at MaxEvents.
SPECIFICATION SessionSpec
CONSTANTS
  CapsMax <- MCCapsMax
  EncoderMax <- MCEncoderMax
  MinSize <- MCMinSize
  HeadlessMin <- MCHeadlessMin
  HeadlessMax <- MCHeadlessMax
  ScreenSize <- MCScreenSize
  Windows <- MCWindows
  OtherModes <- MCOtherModes
  Modes <- MCModes
  Machines = {"a", "b", "old"}
  Old = {"old"}
  Screen = "DP-1"
  HeadlessOn = {"a"}
  Tiers = {"gpu"}
  MinView = 64
  MaxRetries = 1
  MaxEvents = 3
INVARIANT ReconnectsToItsMachine
CHECK_DEADLOCK FALSE
PROPERTIES StaleSessionsEnd EndsConnectedOrOffered ResizeSettles
