SPECIFICATION Spec
CONSTANTS
  m1 = m1
  m2 = m2
  n1 = n1
  n2 = n2
  alice = alice
  bob = bob
  Mandates <- MCMandates
  Notes <- MCNotes
  People <- MCPeople
  MaxVersions = 4
INVARIANTS
  TypeOK
  ChainReadsForward
  HeadTellsTheTruth
  GoodStandingHasItsBasis
PROPERTIES
  AppendOnlyHistory
  NoCleanStandingOverChallenge
SYMMETRY Symmetry
