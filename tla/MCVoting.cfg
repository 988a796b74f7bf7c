SPECIFICATION Spec
CONSTANTS
  ann = ann
  bob = bob
  s1 = s1
  s2 = s2
  b1 = b1
  b2 = b2
  NoOne = NoOne
  For = For
  Against = Against
  People = {ann, bob}
  Seats = {s1, s2}
  Stands <- StandsUsed
  Required <- RequiredUsed
  Rows = {b1, b2}
  MaxWeight = 2
  Forms <- FormsUsed
  MaxInFlight = 1
INVARIANTS
  TypeOK
  OutcomeStandsOnBallots
SYMMETRY Symmetry
