SPECIFICATION Spec
CONSTANTS
  Long = Long
  Short = Short
  Third = Third
  Writers = {Long, Short, Third}
  Paths = {p}
  Nodes = {n1, n2, n3}
  Victim = Victim
  NoNode = NoNode
  Someone = Someone
  Size <- Sizes
  MaxMeddling = 2
INVARIANT TypeOK
INVARIANT NothingReplacedUnforced
INVARIANT LinkTargetKept
INVARIANT ReportedDraftIntact
SYMMETRY Interchangeable
CHECK_DEADLOCK FALSE
