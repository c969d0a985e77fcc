CONSTANTS
  Ids = {1, 2, 3, 5}
  Workers = 2
  MaxCommands = 4

SPECIFICATION FairSpec
INVARIANTS
  CloseWaitsForRuns
  ExitTellsOfRuns
PROPERTIES
  RunsOnce
  AcceptedRunEnds
  ServerExits
CHECK_DEADLOCK FALSE
