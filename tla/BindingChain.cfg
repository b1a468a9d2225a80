SPECIFICATION Spec
CONSTANTS
  NoLeg = NoLeg
  NoLine = NoLine
  NoKey = NoKey
  Names = {"feeder", "main", "spare"}
  k1 = k1
  k2 = k2
  factory = factory
  Signers = {k1, k2}
  Provisioning = factory
  FirstZones <- TwoZones
  Multiplier = 2
  Wirings <- ThreeWirings
  Capacities = {6, 8}
  SameNames = FALSE
  MaxEdits = 2
  MaxBindings = 3
  MaxRotations = 1
  MaxClock = 7
INVARIANT TypeOK
INVARIANT ProofsMatchHardware
INVARIANT SignedIsConsumable
SYMMETRY Interchangeable
PROPERTY RotationVoidsSignature
CHECK_DEADLOCK FALSE
