\* Four records on two days, one failed file operation, two deaths.
SPECIFICATION Spec
CONSTANTS
  Records = {r1, r2, r3, r4}
  Nil = Nil
  Days = {1, 2}
  SegmentCap = 2
  MaxSegments = 2
  MaxFaults = 1
  MaxCrashes = 2
INVARIANTS
  NoFalseAlarm
PROPERTIES
  ImplementsTrail
SYMMETRY Symmetry
CHECK_DEADLOCK FALSE
