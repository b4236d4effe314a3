\* An orchestrator and a captain: watches are disarmed, sessions end and are replaced, the process dies.
SPECIFICATION FairSpec
CONSTANTS
  cortana = cortana
  captain = captain
  crew = crew
  Tiles = {cortana, captain}
  Orchestrators = {cortana}
  Captains = {captain, cortana}
  Owner <- CrewOwner
  Scope <- CaptainScope
  Nil = Nil
  Disarmable = {cortana}
  Ending = {captain, cortana}
  MaxDepth = 1
  MaxEdges = 2
  MaxShip = 1
  MaxCrashes = 1
INVARIANTS
  TypeOK
  OneWritePerIdleWindow
  WakeNotLost
PROPERTIES
  EventuallyWoken
CHECK_DEADLOCK FALSE
