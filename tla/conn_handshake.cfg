CONSTANTS
  Threads = {t1, t2}
  t1 = t1
  t2 = t2
  Reader = Reader
  Nobody = Nobody
  Ids = {0, 1, 2}
  Ops = {"receive_handshake", "new_stream", "register_client_stream", "send_request", "read_request", "write_reply"}
  ClientOps = {"hello", "request"}
  MaxCalls = 5
  MaxPackets = 2

SPECIFICATION Spec
SYMMETRY Symmetry
INVARIANTS
  HandshakeFirst
  NoServerIdCollision
PROPERTIES
  StreamsNeverReplaced
CHECK_DEADLOCK FALSE
