SPECIFICATION FairSpec
CONSTANTS
  r1 = r1
  r2 = r2
  h1 = h1
  h2 = h2
  ann = ann
  bob = bob
  e1 = e1
  e2 = e2
  e3 = e3
  NoRecord = NoRecord
  NoHold = NoHold
  NoOne = NoOne
  Kept = Kept
  Forms <- TypedRetention
  Covers <- CoversAll
  Managers = {ann}
  Records = {r1}
  Permanent = {}
  Period <- PeriodOne
  Holds = {h1}
  Events = {e1, e2}
  MaxDay = 2
PROPERTIES
  DueIsFlagged
  HoldReachesOpenEvents
