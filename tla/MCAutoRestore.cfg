CONSTANTS
  d1 = d1  d2 = d2
  r1 = r1  r2 = r2  r3 = r3
  Away = Away
  NoRecord = NoRecord
  Window <- MCWindow
  Desktop <- MCDesktop
  Record <- MCRecord
  Page <- MCPage
  Titles <- MCTitles
  Stamp <- MCStamp
  Started <- MCStarted
  Saved <- MCSaved
  SettleTime = 1
  BackoffTime = 1
  RecordDelay = 1
  Grace = 1
  MaxDeferrals = 2
  MaxDisturbances = 2
SPECIFICATION FairSpec
INVARIANTS BindingsAreOneToOne
PROPERTIES PlacementsSurvive BoundWindowsAreLeftAlone RestoresStop
