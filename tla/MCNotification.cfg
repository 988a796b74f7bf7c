SPECIFICATION Spec
CONSTANTS
  m1 = m1
  m2 = m2
  email = email
  inbox = inbox
  record = record
  NoChannel = NoChannel
  Messages = {m1, m2}
  Channels = {email, inbox, record}
  Adapter <- AdapterUsed
  Fallback <- FallbackUsed
  Target <- TargetUsed
  MaxRetries = 2
  MaxLost = 1
INVARIANTS
  TypeOK
  TakenOnce
PROPERTIES
  EverySettles
CHECK_DEADLOCK FALSE
