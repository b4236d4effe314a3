\* Two retirements of one worktree, two spawners in and around it, one death.
SPECIFICATION Spec
CONSTANTS
  w1 = w1
  sub = sub
  Unscoped = Unscoped
  Worktrees = {w1}
  Dirs = {w1, sub, home}
  Within <- Nesting
  Spawners = {s1, s2}
  Cleaners = {c1, c2}
  Nil = Nil
  Races = {}
  MaxOps = 2
  MaxCrashes = 1
INVARIANTS
  TypeOK
  AdmissionExclusive
  ProviderRunsAlone
PROPERTIES
  OutcomeIsFinal
SYMMETRY Symmetry
CHECK_DEADLOCK FALSE
