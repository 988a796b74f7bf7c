SPECIFICATION MSpec
CONSTANTS
  ann = ann
  pat = pat
  plain = plain
  systemic = systemic
  normal = normal
  urgent = urgent
  People = {ann, pat}
  Owners = {ann, pat}
  Reviewers = {pat}
  Facts = {plain, systemic}
  Rules = {1, 2}
  Fits <- FitsUsed
  Resulting <- ResultingUsed
  Definitions = {normal, urgent}
  Imposes <- ImposesUsed
  QueueOf <- QueueUsed
  Target <- TargetUsed
  Closures = {"recorded", "referring"}
  Top = 2
  MaxDay = 3
  MaxLate = 3
INVARIANTS
  TimedOnce
PROPERTIES
  BreachRaises
