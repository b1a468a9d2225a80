SPECIFICATION Spec
CONSTANTS
  k2 = k2
  k1 = k1
  p1 = p1
  Procs = {p1}
  Keys = {k1, k2}
  NoProc = NoProc
  NoKey = NoKey
  Budget <- KilledTwiceBudget
PROPERTY RerunReusesIdentity
