CONSTANTS
  d1 = d1
  d2 = d2
  siteA = siteA
  siteB = siteB
  t1 = t1
  t2 = t2
  NoTitle = NoTitle
  Domains <- MCDomains
  Looks <- MCLooks
  Inputs <- MCInputs
  App = "firefox"
  MaxRecords = 4
  MaxCandidates = 8
  MaxFlowWork = 20
SPECIFICATION Spec
CHECK_DEADLOCK FALSE
INVARIANTS AssignmentIsBest PlanIsCommitted PlacesAreKept NothingMovesTwice
