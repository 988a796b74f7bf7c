SPECIFICATION Spec
CONSTANTS
  ann = ann
  bob = bob
  sponsor = sponsor
  authority = authority
  p1 = p1
  p2 = p2
  Vacant = Vacant
  NoField = NoField
  Seats = {1, 2}
  Members = {ann}
  SeatForms <- SeatFormsUsed
  Roles <- RolesUsed
  ChairRoles <- ChairsUsed
  Cap <- CapUsed
  Officers <- FieldsUsed
  Field <- FieldUsed
  Plans = {p1, p2}
  Typable = {p1}
  Forms <- FormsUsed
  PlanDates = {0, 1}
  Approvers = {sponsor, authority}
  MaxDay = 1
INVARIANTS
  TypeOK
  OneChairAtATime
  OfficersWereRight
  DisbandedByConsent
  OnePlanInPlay
PROPERTIES
  DisbandmentKeepsHistory
  DisbandmentEndsMandates
SYMMETRY Symmetry
