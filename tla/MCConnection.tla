---------------------------- MODULE MCConnection ----------------------------
(* Instances of Connection for TLC.                                         *)
EXTENDS Connection, TLC

Symmetry == Permutations(Threads)

\* A state every run of the server passes through: the handshake is done and
\* the client's first run_test has registered stream 1 and been answered; one
\* thread, the main thread, has read the control stream.
ServingInit ==
  /\ running = TRUE /\ handshakeDone = TRUE /\ writerLock = Nobody
  /\ nextStreamId = 1 /\ streams = {0, 1} /\ snapshot = {}
  /\ sent = <<Pkt(0, 1, "greeting"), Pkt(0, 2, "reply")>>
  /\ clientNext = [s \in Ids |-> IF s = 0 THEN 3 ELSE 1]
  /\ \E main \in Threads : consumer = [s \in Ids |-> IF s = 0 THEN main ELSE Nobody]
  /\ taken = [s \in Ids |-> IF s = 0 THEN <<1, 2>> ELSE <<>>]
  /\ StreamInit /\ ThreadInit

ServingSpec == ServingInit /\ [][Next]_vars
ServingFairSpec == ServingSpec /\ Fairness

=============================================================================
