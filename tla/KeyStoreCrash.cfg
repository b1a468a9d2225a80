SPECIFICATION FairSpec
CONSTANTS
  k3 = k3
  k2 = k2
  k1 = k1
  p2 = p2
  p1 = p1
  Procs = {p1, p2}
  Keys = {k1, k2, k3}
  NoProc = NoProc
  NoKey = NoKey
  Budget <- CrashBudget
PROPERTY ImplementsIdentity
PROPERTY RerunReusesIdentity
PROPERTY CommittedPairKept
PROPERTY KeepsSucceeding
