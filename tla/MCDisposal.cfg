SPECIFICATION Spec
CONSTANTS
  r1 = r1
  r2 = r2
  h1 = h1
  h2 = h2
  ann = ann
  bob = bob
  e1 = e1
  e2 = e2
  e3 = e3
  NoRecord = NoRecord
  NoHold = NoHold
  NoOne = NoOne
  Kept = Kept
  Forms <- ApprovalOrRestart
  Covers <- CoversAll
  Managers = {ann, bob}
  Records = {r1, r2}
  Permanent = {r2}
  Period <- PeriodZero
  Holds = {h1}
  Events = {e1, e2}
  MaxDay = 0
INVARIANTS
  TypeOK
  FourEyes
PROPERTIES
  DisposedOnce
SYMMETRY Symmetry
