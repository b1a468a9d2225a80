SPECIFICATION Spec
CONSTANTS
  NoLeg = NoLeg
  NoLine = NoLine
  NoKey = NoKey
  Installers = {ada}
  Facts <- UnseenFacts
  FirstBindings <- OnlyBare
  Inventories <- NeverRewired
  FirmwareLines = {}
  Posture = "production"
  Multiplier = 2
  Key = commissioning
  OtherKey = anchor
  Careful = TRUE
  Skew = 1
  MaxClock = 6
  MaxBindings = 2
INVARIANT CaptureIsSignable
CHECK_DEADLOCK FALSE
