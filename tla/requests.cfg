\* Two ids, two commands, two handlers, capacity one; handlers may hang or die.
SPECIFICATION FairSpec
CONSTANTS
  Ids = {i1, i2}
  Signatures = {s1, s2}
  Probeable = {s1}
  Handlers = {h1, h2}
  Nil = Nil
  Capacity = 1
  Ttl = 1
  Reap = 2
  MaxReservations = 2
INVARIANTS
  TypeOK
  ExactlyOnceWhileRemembered
  AnswersAreEarned
PROPERTIES
  SlotsAreOwned
  ReservationEnds
