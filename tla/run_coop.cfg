CONSTANTS
  Kinds = {"run_test", "blob", "single"}
  Faults = {"badname", "badcomplete"}
  MaxCases = 3
  MaxAsks = 1

SPECIFICATION CooperativeSpec
INVARIANTS
  VerdictIsTrue
  HurtOnlyByDeserter
PROPERTIES
  RunCompletes
CHECK_DEADLOCK FALSE
