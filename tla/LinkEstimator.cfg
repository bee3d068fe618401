\* A link without stalls.
SPECIFICATION LinkSpec
CONSTANTS
  Delay = 1
  Stalls = FALSE
  BaseWindow = 4
  MinWindow = 2
  MaxWindow = 3
  Sizes = {1, 2}
  MaxFrames = 4
  MaxTime = 8
INVARIANT RateMeasured
\* A run ends.
CHECK_DEADLOCK FALSE
