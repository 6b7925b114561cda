CONSTANTS
  a = a  b = b
  Desktops = {a, b}
  NoDesktop = NoDesktop
  Attempts = 2
  PostCap = 2
  Modes <- AllModes
  Budgets <- Disturbed
SPECIFICATION LiveSpec
CHECK_DEADLOCK FALSE
INVARIANTS EndsClean
PROPERTIES Promise TransitionEnds
