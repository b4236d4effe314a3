\* One recipient: every operation but the purge, with failed segment writes and a crash.
SPECIFICATION FairSpec
CONSTANTS
  Recipients = {r1}
  Requests = {q1}
  Signatures = {a}
  Drainers = {d1}
  Operators = {}
  Nil = Nil
  MaxDepth = 2
  AuditTail = 1
  MaxMessages = 3
  MaxCrashes = 1
INVARIANTS
  TypeOK
  AtMostOncePerBoot
  NoSilentLoss
  FifoWithinClass
  StandardDepthBounded
PROPERTIES
  NeverRewriteDurablyDelivered
  EventuallyDelivered
CHECK_DEADLOCK FALSE
