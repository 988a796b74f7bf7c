SPECIFICATION Spec
CONSTANTS
  ann = ann
  hal = hal
  hob = hob
  sponsor = sponsor
  review = review
  extra = extra
  dispute = dispute
  RouteAny = RouteAny
  NoRoute = NoRoute
  Users = {ann, hal, hob}
  Heads = {hal, hob}
  Authority = hal
  Rows <- RowsUsed
  Place <- PlaceUsed
  Sequential <- SequentialUsed
  Cycle <- CycleUsed
  Delegable <- DelegableUsed
  Exceptions = {dispute}
  Assignee <- AssigneeUsed
  Queue <- QueueUsed
  Routes <- RoutesUsed
  RouteSteps <- RouteStepsUsed
  Narrows <- NarrowsUsed
  Facts <- FactsUsed
  Criteria = {"necessity"}
  MaxInFlight = 2
INVARIANTS
  TypeOK
  OnTheRightRoute
  ForumThroughGate
  InOrder
  NoSelfExcuse
PROPERTIES
  DecidedOnce
