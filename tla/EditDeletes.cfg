SPECIFICATION Spec
CONSTANTS
  p1 = p1
  p2 = p2
  w1 = w1
  w2 = w2
  f1 = f1
  Procs = {p1, p2}
  Windows = {w1, w2}
  Owner <- MCOwner
  Names = {f1}
  Mode <- MCMode
  FirstNames = {}
  FirstFile <- MCFirstFile
  Budget <- MCBudget
  MaxFaults = 0
  FineClock = TRUE
  NoName = NoName
  NoLock = NoLock
  Dead = Dead
INVARIANT DeletesOnlyEmpty
CHECK_DEADLOCK FALSE
