SPECIFICATION CSpec
CONSTANTS
  r1 = r1
  r2 = r2
  h1 = h1
  ann = ann
  bob = bob
  e1 = e1
  e2 = e2
  e3 = e3
  t1 = t1
  t2 = t2
  NoRecord = NoRecord
  NoHold = NoHold
  NoOne = NoOne
  Kept = Kept
  Forms <- TypedApproval
  Covers <- CoversAll
  Managers = {ann, bob}
  Requests = {t1, t2}
  Records = {r1}
  Permanent = {}
  Period <- PeriodZero
  Holds = {h1}
  Events = {e1}
  MaxDay = 0
INVARIANTS
  RedactionIsAccountedFor
PROPERTIES
  DecidedStays
SYMMETRY Symmetry
