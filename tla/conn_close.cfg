CONSTANTS
  Threads = {t1, t2}
  t1 = t1
  t2 = t2
  Reader = Reader
  Nobody = Nobody
  Ids = {0, 1, 2}
  Ops = {"send_request", "get", "read_request", "new_stream", "close_stream", "close"}
  ClientOps = {"reply", "close"}
  MaxCalls = 4
  MaxPackets = 1

SPECIFICATION ServingSpec
SYMMETRY Symmetry
INVARIANTS
  NothingSentTwice
  NoStrandedReader
PROPERTIES
  CloseBodyRunsOnce
CHECK_DEADLOCK FALSE
