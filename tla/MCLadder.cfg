\* Any rates, at any time.
SPECIFICATION LadderSpec
CONSTANTS
  MaxFps = 60
  HoldDown = 1
  HoldUp = 2
  MaxHoldUp = 4
  StartLevel = 1
  Estimates <- ManyRates
  Streams <- TwoStreams
INVARIANT SettlesAtOnce
PROPERTY ClimbsBack
