SPECIFICATION FairSpec
CONSTANTS
  Worlds <- MCWorlds
  OpenAt = 2
  ResolveAt = 2
  Scanners = {1, 2}
  Checkers = {1}
  MaxIncidents = 2
  RestartThreshold = 5
INVARIANTS
  OneIncident
  IncidentsFollowCounters
PROPERTIES
  HealthyEndsAll
