\* Any acks, an encoder that may reject a geometry, and a link that calms down.
SPECIFICATION Spec
CONSTANTS
  MaxRate = 20
  MinRate = 8
  Initial = 12
  MaxPerPixel = 6
  PixelsPerMin = 1
  FixedCap <- None
  Growth = 30
  EvalEvery = 1
  GrowAfter = 2
  StartupTimeout = 2
  Geometries <- DualAndQuarter
  Rates = {5, 12, 40}
  MayReject = TRUE
INVARIANTS TargetInBounds EncoderFollows
PROPERTY Recovers
