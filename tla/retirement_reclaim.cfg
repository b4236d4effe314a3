\* Other threads run between the look and the removal of a boundary.
SPECIFICATION Spec
CONSTANTS
  w1 = w1
  sub = sub
  Unscoped = Unscoped
  Worktrees = {w1}
  Dirs = {w1, sub, home}
  Within <- Nesting
  Spawners = {s1, s2}
  Cleaners = {c1}
  Nil = Nil
  Races = {"reclaim"}
  MaxOps = 1
  MaxCrashes = 0
INVARIANTS
  AdmissionExclusive
CHECK_DEADLOCK FALSE
