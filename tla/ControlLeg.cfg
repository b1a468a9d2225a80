SPECIFICATION Spec
CONSTANTS
  Zone = "feeder"
  NoObservation = NoObservation
  NoRow = NoRow
  Times = {0, 1, 2, 3}
  MaxLog = 3
  Rows <- AllRows
  Logs <- AllLogs
INVARIANT TypeOK
INVARIANT LegIsOfRecord
INVARIANT RefusedForCause
CHECK_DEADLOCK FALSE
