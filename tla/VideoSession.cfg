\* Either tier implements ScreenMirror.
SPECIFICATION Spec
CONSTANTS
  Geoms = {g1, g2}
  None = None
  Tiers = {"gpu", "cpu"}
  MaxRefines = 1
  MaxScreen = 2
  MaxEvents = 2
  MaxWire = 1
  MaxInflight = 1
INVARIANT ReferenceAvailable
PROPERTIES MirrorSpec DecoderRecovers
CHECK_DEADLOCK FALSE
