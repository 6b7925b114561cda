SPECIFICATION LiveSpec
CONSTANTS
  r1 = r1
  r2 = r2
  p = p
  q = q
  w1 = w1
  NoRec = NoRec
  Closed = Closed
  NoId = NoId
  Ids = {r1, r2}
  Places = {p, q}
  Wins = {w1}
  Retention = 1
  InitRecords <- OneRecord
  InitWhere <- OneWindow
  MaxClock = 2
  MaxEvents = 2
CHECK_DEADLOCK FALSE
INVARIANTS JournalIsSound
PROPERTIES KnowledgeIsKept DirtyIsWritten
