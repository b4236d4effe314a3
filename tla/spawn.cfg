\* Four terminals, two connections, a bucket of one token, places kept for Cortana and for recovery.
SPECIFICATION Spec
CONSTANTS
  Terminals = {t1, t2, t3, t4}
  Threads = {h1, h2}
  Nil = Nil
  MaxSessions = 3
  ProviderCap = 2
  Burst = 1
  Reserve <- MCReserve
  CortanaNamed = TRUE
  Races = {}
INVARIANTS
  WithinCaps
  
  RateHolds
SYMMETRY Symmetry
CHECK_DEADLOCK FALSE
