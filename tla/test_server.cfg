CONSTANTS
  Modes = {"crash_after_handshake", "crash_after_handshake_with_stderr", "stop_test_on_generate", "stop_test_on_mark_complete", "stop_test_on_collection_more", "stop_test_on_new_collection", "error_response", "empty_test", "no_such_mode"}
  Faults = {"body", "insist", "mute", "badcommand", "refuse", "slow", "vanish"}
  MaxAsks = 2

SPECIFICATION Spec
INVARIANTS
  TypeOK
  DoneMeansInjected
  QuietMeansClientLeft
  SilentAfterStopTest
PROPERTIES
  ObedientFinishes
  BothEnd
CHECK_DEADLOCK FALSE
