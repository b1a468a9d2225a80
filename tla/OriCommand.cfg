SPECIFICATION Spec
CONSTANTS
  Deliveries <- AllDeliveries
  Delays = {0, 2, 3}
  Tokens <- SomeTokens
  KeyFiles = {"sound", "unreadable", "damaged"}
  SkewSeconds = 2
  Moments <- AroundLife
INVARIANT TypeOK
INVARIANT OneObject
INVARIANT SuccessIsOnRecord
INVARIANT RefusalsTellApart
INVARIANT DoctorTellsTheTruth
INVARIANT TierDStandsAlone
INVARIANT NobodyIdentified
INVARIANT SoundSocketIsHeard
INVARIANT VerifiedMeansAccepted
INVARIANT TokenHonouredInItsTime
INVARIANT MarkedIfGreeted
PROPERTY CoilReleased
PROPERTY CommandsEnd
