CONSTANTS
  Kinds = {"run_test", "blob", "single"}
  Faults = {"badname", "badsettings", "refuse", "badcomplete", "pipeline", "slow", "vanish"}
  MaxCases = 2
  MaxAsks = 1

SPECIFICATION FairSpec
INVARIANTS
  TypeOK
  StopIsLast
PROPERTIES
  KeepsPromise
  RunEnds
CHECK_DEADLOCK FALSE
