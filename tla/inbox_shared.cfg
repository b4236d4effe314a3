\* Two recipients and one request id under two signatures.
SPECIFICATION Spec
CONSTANTS
  Recipients = {r1, r2}
  Requests = {q1}
  Signatures = {a, b}
  Drainers = {d1}
  Operators = {op}
  Nil = Nil
  MaxDepth = 1
  AuditTail = 1
  MaxMessages = 1
  MaxCrashes = 1
INVARIANTS
  OneMessagePerRequest
PROPERTIES
  ImplementsLedger
SYMMETRY Symmetry
CHECK_DEADLOCK FALSE
