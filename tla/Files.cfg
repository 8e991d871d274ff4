SPECIFICATION MCSpec
CONSTANTS
  Names = {1, 2}
  Linked = {1, 2}
  FileLen = 2
  Budgets <- MCBudgets
  None = None
  t1 = t1
  t2 = t2
  Tasks = {t1, t2}
  MaxAsks = 1
  Lapses = {"stop", "die", "error", "stale"}
  host = host
  tar = tar
  zip = zip
  root = root
  home = home
  Local = Local
  Null = Null
INVARIANTS TypesOK NothingLost TargetKept UnmarkedIsDone AnswerIsOwn
  StampsFollowUse RepliesInStep
PROPERTY AskersOfCalmAnswered
CHECK_DEADLOCK FALSE
