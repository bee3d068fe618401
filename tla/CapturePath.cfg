\* A headless output resized once, or a mirrored one that changes its mode.
SPECIFICATION PathSpec
CONSTANTS
  N = 2
  Sizes = {s1, s2}
  Objs = {o1, o2}
  None = None
  Outputs = {"headless", "mirrored"}
  MaxCmds = 3
  MaxWl = 1
  MaxGen = 3
  MaxResizes = 1
INVARIANTS NoOverwrite WantedIsCaptured
PROPERTY PicturesFitAgain
CHECK_DEADLOCK FALSE
