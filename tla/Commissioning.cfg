SPECIFICATION Spec
CONSTANTS
  NoLeg = NoLeg
  NoLine = NoLine
  NoKey = NoKey
  Installers = {ada, ben}
  Facts <- RevisedFacts
  FirstBindings <- Either
  Inventories <- Rewired
  FirmwareLines = {}
  Posture = "production"
  Multiplier = 2
  Key = commissioning
  OtherKey = anchor
  Careful = TRUE
  Skew = 0
  MaxClock = 8
  MaxBindings = 2
INVARIANT TypeOK
INVARIANT LegsMatchHardware
INVARIANT SignedRevisionAccepted
INVARIANT StagedCanBeProven
PROPERTY OneRevisionAtATime
SYMMETRY Interchangeable
CHECK_DEADLOCK FALSE
