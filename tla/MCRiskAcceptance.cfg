SPECIFICATION Spec
CONSTANTS
  ann = ann
  pat = pat
  zoe = zoe
  head = head
  peer = peer
  plain = plain
  Users = {ann, pat, zoe}
  People = {ann, pat, zoe}
  Owners = {ann, zoe}
  Reviewers = {pat}
  Facts = {plain}
  Rules = {1}
  Fits <- FitsUsed
  Resulting <- ResultingUsed
  Definitions = {}
  Imposes <- ImposesUsed
  QueueOf <- QueueUsed
  Target <- TargetUsed
  Closures = {"recorded"}
  Top = 1
  MaxDay = 0
  MaxLate = 1
  Steps = {head, peer}
  MaxCycle = 2
  Chain <- ChainUsed
  Named <- NamedUsed
  Raiser = ann
  Executives = {pat}
  Rows <- RowsUsed
  Place <- PlaceUsed
  Sequential <- RowsUsed
  Cycle <- CycleUsed
  Delegable <- DelegableUsed
INVARIANTS
  TypeOK
  ApprovedByAll
  ObjectionEndsTheChain
