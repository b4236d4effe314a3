\* Two ships, three terminals, one closer, one kill of the webview, one failed write, one restart.
SPECIFICATION Spec
CONSTANTS
  Ships = {s1, s2}
  Tiles = {t1, t2, t3}
  Closers = {c1}
  Nil = Nil
  Races = {}
  MaxFaults = 1
  MaxEnds = 1
  MaxCrashes = 1
INVARIANTS
  TypeOK
  
PROPERTIES
  
  CloseIsOwners
SYMMETRY Symmetry
CHECK_DEADLOCK FALSE
