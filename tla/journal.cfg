\* Hooks, repairs and compactions, killed at every point.
SPECIFICATION JournalSpec
CONSTANTS
  Identities = {e1, e2}
  NoId = NoId
  Window = 1
  MaxSeq = 6
INVARIANTS
  BelievedHeadIsTrue
  StoredOnce
PROPERTIES
  NumbersNeverReused
SYMMETRY Symmetry
CHECK_DEADLOCK FALSE
