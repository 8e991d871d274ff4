SPECIFICATION Spec
CONSTANTS
  Names = {1, 2}
  Linked = {1, 2}
  FileLen = 2
  Budgets <- MCBudgets
  None = None
INVARIANT ErasedWasCopied
CHECK_DEADLOCK FALSE
