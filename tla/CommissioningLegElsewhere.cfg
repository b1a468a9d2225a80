SPECIFICATION Spec
CONSTANTS
  NoLeg = NoLeg
  NoLine = NoLine
  NoKey = NoKey
  Installers = {ada}
  Facts <- MovedFacts
  FirstBindings <- OnlyCommissioned
  Inventories <- RewiredTwice
  FirmwareLines = {}
  Posture = "production"
  Multiplier = 2
  Key = commissioning
  OtherKey = anchor
  Careful = FALSE
  Skew = 1
  MaxClock = 9
  MaxBindings = 2
INVARIANT LegsMatchHardware
CHECK_DEADLOCK FALSE
