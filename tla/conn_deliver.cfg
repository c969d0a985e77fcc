CONSTANTS
  Threads = {t1, t2}
  t1 = t1
  t2 = t2
  Reader = Reader
  Nobody = Nobody
  Ids = {0, 1, 2}
  Ops = {"read_request", "close_stream", "new_stream"}
  ClientOps = {"request", "close", "badclose"}
  MaxCalls = 3
  MaxPackets = 2

SPECIFICATION ServingSpec
SYMMETRY Symmetry
INVARIANTS
  OneFate
  RequestsInOrder
  AtMostOneBehindMarker
PROPERTIES
  DrainBeforeRaise
CHECK_DEADLOCK FALSE
