CONSTANTS
  REPLY_BIT = 2
  Writers = {w1, w2}
  w1 = w1
  w2 = w2
  Nobody = Nobody
  Payloads <- MCPayloads
  MaxPackets = 3
  Capacity = 2
  Faults = {"cut", "empty", "corrupt", "crash"}

SPECIFICATION Spec
INVARIANTS
  TypeOK
  StopsForAReason
PROPERTIES
  ImplementsChannel
  EverythingArrives
  ReaderEnds
CHECK_DEADLOCK FALSE
