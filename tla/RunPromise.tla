----------------------------- MODULE RunPromise -----------------------------
(***************************************************************************)
(* What the stream of one run carries to the client, as the lifetime       *)
(* section of class Connection (protocol/connection.py) and the code of    *)
(* _run_test and _single_test_case (server.py) have it: test cases, then   *)
(* test_done, then one final test case for each failure test_done          *)
(* announced.  A single_test_case run has one final test case, then        *)
(* test_done.  The run can be lost at any point.                           *)
(***************************************************************************)
EXTENDS Naturals, Sequences

CONSTANT MaxReplays   \* bound: failures a run can announce

VARIABLES
  single,   \* the run is a single_test_case
  life,     \* "serving", "told", "over" or "lost"
  events,   \* what the server has sent on the run's stream
  left      \* final test cases announced and not yet sent

TestCase(final) == [event |-> "test_case", final |-> final, n |-> 0]
TestDone(n) == [event |-> "test_done", final |-> FALSE, n |-> n]

PromiseInit ==
  /\ single \in BOOLEAN /\ life = "serving" /\ events = <<>> /\ left = 0

Case ==
  /\ life = "serving" /\ (single => events = <<>>)
  /\ events' = Append(events, TestCase(single))
  /\ UNCHANGED <<single, life, left>>

Tell(n) ==
  /\ life = "serving" /\ (single => events # <<>>)
  /\ events' = Append(events, TestDone(n))
  /\ left' = IF single THEN 0 ELSE n
  /\ life' = "told" /\ UNCHANGED single

Replay ==
  /\ life = "told" /\ left > 0
  /\ events' = Append(events, TestCase(TRUE))
  /\ left' = left - 1
  /\ UNCHANGED <<single, life>>

End ==
  /\ life = "told" /\ left = 0 /\ life' = "over"
  /\ UNCHANGED <<single, events, left>>

Lose ==
  /\ life \in {"serving", "told"} /\ life' = "lost"
  /\ UNCHANGED <<single, events, left>>

PromiseNext == Case \/ (\E n \in 0..MaxReplays : Tell(n)) \/ Replay \/ End \/ Lose
PromiseSpec == PromiseInit /\ [][PromiseNext]_<<single, life, events, left>>
=============================================================================
