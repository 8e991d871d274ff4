SPECIFICATION MCSpec
CONSTANTS
  p1 = p1
  p2 = p2
  w1 = w1
  w2 = w2
  f1 = f1
  f2 = f2
  Procs = {p1, p2}
  Windows = {w1, w2}
  Owner <- OwnerOf
  Names = {f1}
  Mode <- ModeOf
  FirstNames = {f1}
  FirstFile <- OnF
  Budget <- TwoAndOne
  MaxFaults = 0
  FineClock = TRUE
  NoName = NoName
  NoLock = NoLock
  Dead = Dead
  RingSize = 8
  MaxText = 5
  MaxKeys = 6
  Dirs = {"home", "work"}
  Home = "home"
  Shells = {TRUE, FALSE}
  MaxCmds = 2
  MaxDeaths = 2
  Lapses = {"left", "between"}
  MaxDialogs = 4
  Kinds = {"edit", "diff", "dom", "box"}
  ScreenLapses = {}
INVARIANTS TypesOK LockIsOwn NoSilentOverwrite RedoGivesBack ScreensSound NoneLost ShellInStep
PROPERTIES TextKept AllCommandsEnd UndoGoesBackOne
CHECK_DEADLOCK FALSE
