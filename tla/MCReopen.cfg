CONSTANTS
  Firefox = "firefox"
  Replayable = {"a", "b", "c"}
  MaxUrls = 1
  Checkpoints <- MCCheckpoints
  Desks <- MCDesks
  Spare = {"s1", "s2", "s3", "s4", "s5"}
  Filters <- MCFilters
  Here = 1
  Budgets <- MCBudgets
  None = None
SPECIFICATION FairSpec
CHECK_DEADLOCK FALSE
INVARIANTS OldWindowsStay ReopenIsExact
PROPERTIES SelectionIsMissing ReopenEnds
