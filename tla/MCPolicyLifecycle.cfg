SPECIFICATION Spec
CONSTANTS
  ann = ann
  pat = pat
  board = board
  e1 = e1
  MaxVersion = 2
  Users = {ann, pat}
  Officers = {pat}
  Steps <- StepsUsed
  Versions <- VersionsUsed
  Rows <- RowsUsed
  Place <- PlaceUsed
  Sequential <- RowsUsed
  Cycle <- CycleUsed
  Delegable <- DelegableUsed
  Routes <- RoutesUsed
  RouteSteps <- RouteStepsUsed
  Priority <- PriorityUsed
  Narrows <- NarrowsUsed
  NamedBy <- NamedByUsed
  ParentSteps = {}
  Mandatory <- StepsUsed
  Assignee <- AssigneeUsed
  Queue <- QueueUsed
  Kinds = {"major", "minor"}
  Exceptions = {e1}
  Typable = {1}
  Recordable = {"metadata"}
  Answers = {"Approved", "Rejected", "Changes Requested"}
INVARIANTS
  TypeOK
  PublishedWasApproved
  TwoToExcuse
