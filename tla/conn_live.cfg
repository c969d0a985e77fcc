CONSTANTS
  Threads = {t1, t2}
  t1 = t1
  t2 = t2
  Reader = Reader
  Nobody = Nobody
  Ids = {0, 1}
  Ops = {"read_request", "close_stream", "close"}
  ClientOps = {"request", "close", "corrupt", "disconnect"}
  MaxCalls = 2
  MaxPackets = 1

SPECIFICATION ServingFairSpec
PROPERTIES
  EveryReaderReleased
  DisconnectCloses
CHECK_DEADLOCK FALSE
