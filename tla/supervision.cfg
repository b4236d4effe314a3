\* Two sessions in a map of one, two subagents, one task, one waiter, a log of two.
SPECIFICATION Spec
CONSTANTS
  Sessions = {s1, s2}
  Agents = {a1, a2}
  Permissions = {p1}
  Waiters = {w1}
  Nil = Nil
  Targets = {"completed"}
  SessionCap = 1
  DoneCap = 1
  LogCap = 2
  MaxTasks = 1
INVARIANTS
  TypeOK
  WaitingIsEarned
PROPERTIES
  WaitersAreTold
SYMMETRY Symmetry
CHECK_DEADLOCK FALSE
