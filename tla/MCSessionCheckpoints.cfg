CONSTANTS
  Records = {r1}
  Slots = 4
  MaxCaptures = 7
  MaxFaults = 3
  None = None
SPECIFICATION Spec
CHECK_DEADLOCK FALSE
INVARIANTS HistoryIsSound
