--------------------------------- MODULE Run ---------------------------------
(***************************************************************************)
(* One run: a worker thread of the server inside _run_test or              *)
(* _single_test_case (server.py), with HegelState.execute_once and          *)
(* Stream.handle_requests for each test case, and the client that serves   *)
(* it (tests/client/client.py).  Hypothesis' ConjectureRunner and           *)
(* ConjectureData are external: the model keeps what they may answer.       *)
(*                                                                         *)
(* The queues below are the streams' queues of module Connection: what the *)
(* client wrote before it closed a stream or went away is read first, and  *)
(* a read behind it raises ConnectionError.                                *)
(***************************************************************************)
EXTENDS Naturals, Sequences, FiniteSets

CONSTANTS
  Kinds,     \* the runs of an instance: "run_test", "blob" (a run_test with a
             \* failure_blob), "single" (single_test_case)
  Faults,    \* what the client of an instance may do wrong
  MaxCases,  \* bound: test cases of the engine
  MaxAsks    \* bound: commands of one test case before it completes

AllKinds == {"run_test", "blob", "single"}

\* badname: an unknown health check or phase; badsettings: settings or a failure
\* blob that do not decode; refuse: an error reply to an event; badcomplete:
\* mark_complete with another status or none; pipeline: a command written before
\* the last one is answered; slow: no packet for STREAM_TIMEOUT; vanish: the
\* client's end of the connection goes away.
AllFaults == {"badname", "badsettings", "refuse", "badcomplete", "pipeline", "slow", "vanish"}

ASSUME RunAssumption ==
  /\ Kinds \subseteq AllKinds /\ Faults \subseteq AllFaults
  /\ MaxCases \in Nat \ {0} /\ MaxAsks \in Nat

Cases == 1..(2 * MaxCases)   \* the engine's, then at most as many final ones

\* What a client may conclude a test case with, and the commands before that:
\* draw stands for those that use the test case's data (generate, start_span,
\* collection_more, collection_reject, pool_generate, state_machine_next_rule),
\* local for those that do not (stop_span, target, new_collection, new_pool,
\* pool_add, pool_consume, new_state_machine, an unknown command).
Conclusions == {"VALID", "INVALID", "INTERESTING"}
Statuses == Conclusions \cup {"OVERRUN"}
Asks == {"draw", "local"}
Messages == Asks \cup Conclusions \cup {"bad", "close"}
Replies == {"Value", "Error", "StopTest", "Flaky"}

Phases == {"setup", "engine", "open", "opening", "reading", "report", "reporting", "replay",
           "done", "lost"}

VARIABLES
  \* the worker
  kind,
  phase,    \* where it is in the code
  case,     \* the number of the test case under way
  final,    \* its is_final
  status,   \* its data.status
  flaky,    \* state.flaky_error is set
  found,    \* the engine's interesting test cases
  result,   \* the results of test_done
  left,     \* final test cases still to send
  \* the connection
  up,
  events,   \* what the server has sent on the run's stream
  acks,     \* the client's replies to them, not yet read
  inbox,    \* by test case: the client's packets, not yet read
  outbox,   \* by test case: every reply of the server
  \* the client
  client,   \* where it is: awaiting an event, testing, waiting for a reply, left
            \* by an exception, over, gone
  seen,     \* events it has read
  doing,    \* the test case it is in, as the server numbers them
  asked, got,   \* commands written in it, replies read
  due,      \* final test cases it still expects
  failed    \* history: it has reported a failure, replays aside

workerVars == <<kind, phase, case, final, status, flaky, found, result, left>>
wireVars == <<up, events, acks, inbox, outbox>>
clientVars == <<client, seen, doing, asked, got, due, failed>>
vars == <<workerVars, wireVars, clientVars>>

\* error: "health" and "flaky" name the results' own keys, "error" is a refused
\* setting; n is interesting_test_cases.
Result(error, n, passed) == [error |-> error, n |-> n, passed |-> passed]
NoResult == Result("none", 0, FALSE)
TestCase(f) == [event |-> "test_case", final |-> f, n |-> 0]
TestDone(n) == [event |-> "test_done", final |-> FALSE, n |-> n]

Init ==
  /\ kind \in Kinds /\ phase = "setup" /\ case = 0 /\ final = FALSE
  /\ status = "VALID" /\ flaky = FALSE /\ found = 0 /\ result = NoResult /\ left = 0
  /\ up = TRUE /\ events = <<>> /\ acks = <<>>
  /\ inbox = [c \in Cases |-> <<>>] /\ outbox = [c \in Cases |-> <<>>]
  /\ client = "awaiting" /\ seen = 0 /\ doing = 0 /\ asked = 0 /\ got = 0
  /\ due = 0 /\ failed = FALSE

-----------------------------------------------------------------------------
(* The worker.                                                             *)

\* An exception leaves _run_test: it is printed, and the run ends without
\* another packet (server.py:774-779).
Lost == phase' = "lost" /\ UNCHANGED <<kind, case, final, status, flaky, found, result, left>>

Reads == \/ phase \in {"opening", "reporting"} /\ acks = <<>>
         \/ phase = "reading" /\ inbox[case] = <<>>

\* The ways a call on the connection raises: nobody has written for
\* STREAM_TIMEOUT, or the connection is closed and what came before is read.
Timeout_Loop ==  \* mutant: the answer to an event is waited for without a limit
  /\ up /\ Reads /\ phase = "reading" /\ ("slow" \in Faults \/ client \in {"left", "over"})
  /\ Lost /\ UNCHANGED <<wireVars, clientVars>>

Timeout ==
  /\ up /\ Reads /\ ("slow" \in Faults \/ client \in {"left", "over"})
  /\ Lost /\ UNCHANGED <<wireVars, clientVars>>

ReadClosed == ~up /\ Reads /\ Lost /\ UNCHANGED <<wireVars, clientVars>>

Sends == phase \in {"open", "report", "replay"} /\ (phase = "replay" => left > 0)
SendFails == ~up /\ Sends /\ Lost /\ UNCHANGED <<wireVars, clientVars>>

\* _run_test up to the engine or the blob, _single_test_case up to execute_once.
SetUp ==
  /\ phase = "setup"
  /\ phase' = IF kind = "run_test" THEN "engine" ELSE "open"
  /\ UNCHANGED <<kind, case, final, status, flaky, found, result, left, wireVars, clientVars>>

BadName ==
  /\ phase = "setup" /\ kind # "single" /\ "badname" \in Faults
  /\ phase' = "report" /\ result' = Result("error", 0, FALSE)
  /\ UNCHANGED <<kind, case, final, status, flaky, found, left, wireVars, clientVars>>

SetUpFails ==
  /\ phase = "setup" /\ kind # "single" /\ "badsettings" \in Faults
  /\ Lost /\ UNCHANGED <<wireVars, clientVars>>

\* runner.run() asks for another test case, ...
EngineGoesOn ==
  /\ phase = "engine" /\ case < MaxCases
  /\ phase' = "open"
  /\ UNCHANGED <<kind, case, final, status, flaky, found, result, left, wireVars, clientVars>>

EngineReturns_Flagged ==  \* mutant: a flag leaves the engine's verdict
  /\ phase = "engine"
  /\ \E n \in 0..found, exitFlaky \in BOOLEAN :
       /\ n = 0 <=> found = 0
       /\ exitFlaky => n > 0
       /\ result' = Result(IF flaky \/ exitFlaky THEN "flaky" ELSE "none", n, n = 0)
  /\ phase' = "report"
  /\ UNCHANGED <<kind, case, final, status, flaky, found, left, wireVars, clientVars>>

\* ... returns, with one example of each kind of failure it was shown and, if it
\* could not show one again, exit_reason flaky.  Either flag fails the run and
\* leaves the examples in (server.py:695-740) ...
EngineReturns ==
  /\ phase = "engine"
  /\ \E n \in 0..found, exitFlaky \in BOOLEAN :
       /\ n = 0 <=> found = 0
       /\ exitFlaky => n > 0
       /\ result' = IF flaky \/ exitFlaky THEN Result("flaky", n, FALSE)
                                          ELSE Result("none", n, n = 0)
  /\ phase' = "report"
  /\ UNCHANGED <<kind, case, final, status, flaky, found, left, wireVars, clientVars>>

\* ... or raises a failed health check or its own Flaky: the verdict has no interesting
\* test case then (server.py:714-731).
EngineRaises ==
  /\ phase = "engine" /\ case > 0
  /\ \E e \in {"health", "flaky"} : result' = Result(e, 0, FALSE)
  /\ phase' = "report"
  /\ UNCHANGED <<kind, case, final, status, flaky, found, left, wireVars, clientVars>>

\* execute_once: a new stream and the test_case event.
SendCase ==
  /\ up /\ (phase = "open" \/ (phase = "replay" /\ left > 0))
  /\ case' = case + 1 /\ status' = "VALID"
  /\ final' = (phase = "replay" \/ kind = "single")
  /\ left' = IF phase = "replay" THEN left - 1 ELSE left
  /\ events' = Append(events, TestCase(phase = "replay" \/ kind = "single"))
  /\ phase' = "opening"
  /\ UNCHANGED <<kind, flaky, found, result, up, acks, inbox, outbox, clientVars>>

\* PendingRequest.get of that event, and of test_done below.
CaseAcked ==
  /\ phase = "opening" /\ acks # <<>>
  /\ acks' = Tail(acks)
  /\ IF Head(acks) = "error" THEN Lost
     ELSE /\ phase' = "reading"
          /\ UNCHANGED <<kind, case, final, status, flaky, found, result, left>>
  /\ UNCHANGED <<up, events, inbox, outbox, clientVars>>

SendDone_Flaky ==  \* mutant: announces a flaky run's examples, replays none
  /\ up /\ phase = "report"
  /\ events' = Append(events, TestDone(result.n))
  /\ left' = IF kind = "single" \/ result.error = "flaky" THEN 0 ELSE result.n
  /\ phase' = "reporting"
  /\ UNCHANGED <<kind, case, final, status, flaky, found, result, up, acks, inbox, outbox,
                 clientVars>>

SendDone ==
  /\ up /\ phase = "report"
  /\ events' = Append(events, TestDone(result.n))
  /\ left' = IF kind = "single" THEN 0 ELSE result.n
  /\ phase' = "reporting"
  /\ UNCHANGED <<kind, case, final, status, flaky, found, result, up, acks, inbox, outbox,
                 clientVars>>

DoneAcked ==
  /\ phase = "reporting" /\ acks # <<>>
  /\ acks' = Tail(acks)
  /\ IF Head(acks) = "error" THEN Lost
     ELSE /\ phase' = "replay"
          /\ UNCHANGED <<kind, case, final, status, flaky, found, result, left>>
  /\ UNCHANGED <<up, events, inbox, outbox, clientVars>>

\* The loop over interesting_choices is through; a single_test_case has none.
Finish ==
  /\ phase = "replay" /\ left = 0
  /\ phase' = "done"
  /\ UNCHANGED <<kind, case, final, status, flaky, found, result, left, wireVars, clientVars>>

\* handle_client_request: the answer, whether `done` is set, and data.status.
\* Flaky comes from the engine's own record of its test cases, which a blob, a
\* final and a single test case do not have.
Answer(reply, ends, s, f) == [reply |-> reply, ends |-> ends, status |-> s, flaky |-> f]
Stops(s) == Answer("StopTest", TRUE, s, FALSE)
Flakes(s) == IF kind = "run_test" /\ ~final THEN {Answer("Flaky", TRUE, s, TRUE)} ELSE {}

Answers_GoOn(m) ==  \* mutant: Flaky does not set done
  IF m = "bad" THEN {Answer("Error", TRUE, status, FALSE)}
  ELSE IF m \in Conclusions THEN {Stops(m)} \cup Flakes(m)
  ELSE {Answer(r, FALSE, status, FALSE) : r \in {"Value", "Error"}}
       \cup (IF m = "local" THEN {}
             ELSE {Stops("INVALID"), Stops("OVERRUN")}
                  \cup {[a EXCEPT !.ends = FALSE] : a \in Flakes(status)})

Answers_NotDone(m) ==  \* mutant: mark_complete sets done after it looks at the status
  IF m = "bad" THEN {Answer("Error", FALSE, status, FALSE)}
  ELSE IF m \in Conclusions THEN {Stops(m)} \cup Flakes(m)
  ELSE {Answer(r, FALSE, status, FALSE) : r \in {"Value", "Error"}}
       \cup (IF m = "local" THEN {} ELSE {Stops("INVALID"), Stops("OVERRUN")} \cup Flakes(status))

Answers(m) ==
  IF m = "bad" THEN {Answer("Error", TRUE, status, FALSE)}
  ELSE IF m \in Conclusions THEN {Stops(m)} \cup Flakes(m)
  ELSE {Answer(r, FALSE, status, FALSE) : r \in {"Value", "Error"}}
       \cup (IF m = "local" THEN {} ELSE {Stops("INVALID"), Stops("OVERRUN")} \cup Flakes(status))

\* What _run_test and _single_test_case make of a test case that has ended with
\* status s: nothing of a replay; the engine takes note; a blob and a single test
\* case are the result.
Replaying == final /\ kind # "single"

CaseOver(s) ==
  \/ Replaying /\ phase' = "replay" /\ UNCHANGED <<found, result>>
  \/ /\ kind = "run_test" /\ ~Replaying
     /\ phase' = "engine" /\ UNCHANGED result
     /\ found' = IF s = "INTERESTING" THEN found + 1 ELSE found
  \/ /\ kind # "run_test" /\ ~Replaying
     /\ phase' = "report" /\ UNCHANGED found
     /\ result' = Result("none", IF s = "INTERESTING" THEN 1 ELSE 0, s # "INTERESTING")

\* One round of handle_requests, or its exit when the stream was closed.  The
\* reply cannot be written once the connection is gone.
Handle ==
  /\ phase = "reading" /\ inbox[case] # <<>>
  /\ inbox' = [inbox EXCEPT ![case] = Tail(@)]
  /\ IF Head(inbox[case]) = "close" \/ ~up THEN Lost /\ UNCHANGED outbox
     ELSE \E a \in Answers(Head(inbox[case])) :
            /\ outbox' = [outbox EXCEPT ![case] = Append(@, a.reply)]
            /\ status' = a.status /\ flaky' = (flaky \/ a.flaky)
            /\ IF a.ends THEN CaseOver(a.status) ELSE UNCHANGED <<phase, result, found>>
            /\ UNCHANGED <<kind, case, final, left>>
  /\ UNCHANGED <<up, events, acks, clientVars>>

Worker ==
  \/ SetUp \/ BadName \/ SetUpFails \/ EngineGoesOn \/ EngineReturns \/ EngineRaises
  \/ SendCase \/ CaseAcked \/ Handle \/ SendDone \/ DoneAcked \/ Finish
  \/ Timeout \/ ReadClosed \/ SendFails

-----------------------------------------------------------------------------
(* The client.                                                             *)

\* The loop of run_test and single_test_case, and the loop over final test cases.
Receive ==
  /\ client = "awaiting" /\ seen < Len(events)
  /\ seen' = seen + 1 /\ acks' = Append(acks, "ok")
  /\ IF events[seen + 1].event = "test_case"
     THEN /\ client' = "testing" /\ doing' = doing + 1 /\ asked' = 0 /\ got' = 0
          /\ UNCHANGED due
     ELSE /\ due' = result.n
          /\ client' = IF result.error # "none" \/ (kind = "single" /\ result.n > 0) THEN "left"
                       ELSE IF result.n = 0 THEN "over" ELSE "awaiting"
          /\ UNCHANGED <<doing, asked, got>>
  /\ UNCHANGED <<workerVars, up, events, inbox, outbox, failed>>

\* An event the client does not know.
Refuse ==
  /\ client = "awaiting" /\ seen < Len(events) /\ "refuse" \in Faults
  /\ seen' = seen + 1 /\ acks' = Append(acks, "error")
  /\ UNCHANGED <<workerVars, up, events, inbox, outbox, client, doing, asked, got, due, failed>>

Write(ms) == inbox' = [inbox EXCEPT ![doing] = @ \o ms]

\* A command, whose reply the client waits for.
Ask(m) ==
  /\ client = "testing" /\ asked < MaxAsks
  /\ asked' = asked + 1 /\ Write(<<m>>)
  /\ client' = "waiting" \/ (client' = "testing" /\ "pipeline" \in Faults)
  /\ UNCHANGED <<workerVars, up, events, acks, outbox, seen, doing, got, due, failed>>

Leave_Uncounted(raised) ==  \* mutant: counts final test cases in ordinary ones too
  /\ client' = IF raised /\ kind = "single" THEN "left"
               ELSE IF due = 1 THEN "over" ELSE "awaiting"
  /\ due' = due - 1

\* Out of a test case.  An exception of the test leaves single_test_case at once;
\* run_test goes on, or collects it when the test case is a replay.
Leave(raised) ==
  /\ client' = IF raised /\ kind = "single" THEN "left"
               ELSE IF due = 1 THEN "over" ELSE "awaiting"
  /\ due' = IF due > 0 THEN due - 1 ELSE 0

\* The reply, StopTest and Flaky errors ending the test case for the client.
TakeReply ==
  /\ client = "waiting" /\ got < Len(outbox[doing])
  /\ got' = got + 1
  /\ IF outbox[doing][got + 1] \in {"StopTest", "Flaky"}
     THEN Write(<<"close">>) /\ Leave(FALSE)
     ELSE /\ client' = IF got + 1 = asked THEN "testing" ELSE "waiting"
          /\ UNCHANGED <<due, inbox>>
  /\ UNCHANGED <<workerVars, up, events, acks, outbox, seen, doing, asked, failed>>

\* mark_complete, not waited for, and the close of the stream behind it.
Complete(s) ==
  /\ client = "testing"
  /\ Write(<<s, "close">>)
  /\ failed' = (failed \/ (s = "INTERESTING" /\ due = 0))
  /\ Leave(s = "INTERESTING")
  /\ UNCHANGED <<workerVars, up, events, acks, outbox, seen, doing, asked, got>>

\* The client's end of the connection goes away: the reader closes ours.
Vanish ==
  /\ up /\ "vanish" \in Faults
  /\ up' = FALSE /\ client' = "gone"
  /\ UNCHANGED <<workerVars, events, acks, inbox, outbox, seen, doing, asked, got, due, failed>>

Client ==
  \/ Receive \/ TakeReply
  \/ \E m \in Asks : Ask(m)
  \/ \E s \in Conclusions \cup (IF "badcomplete" \in Faults THEN {"bad"} ELSE {}) : Complete(s)

Next == Worker \/ Client \/ Refuse \/ Vanish

Spec == Init /\ [][Next]_vars

\* The thread of a run in progress has the processor, and a get() with a timeout
\* returns; of the client nothing is assumed.
FairSpec == Spec /\ WF_vars(Worker)

\* With a client that keeps answering.
CooperativeSpec == FairSpec /\ WF_vars(Client)

-----------------------------------------------------------------------------
(* Properties.                                                             *)

TypeOK ==
  /\ kind \in Kinds /\ phase \in Phases
  /\ case \in 0..(2 * MaxCases) /\ final \in BOOLEAN /\ status \in Statuses /\ flaky \in BOOLEAN
  /\ found \in 0..MaxCases /\ left \in 0..MaxCases
  /\ result \in [error : {"none", "error", "health", "flaky"}, n : 0..MaxCases, passed : BOOLEAN]
  /\ up \in BOOLEAN
  /\ events \in Seq([event : {"test_case", "test_done"}, final : BOOLEAN, n : 0..MaxCases])
  /\ acks \in Seq({"ok", "error"})
  /\ inbox \in [Cases -> Seq(Messages)] /\ outbox \in [Cases -> Seq(Replies)]
  /\ client \in {"awaiting", "testing", "waiting", "left", "over", "gone"}
  /\ seen \in Nat /\ doing \in 0..(2 * MaxCases) /\ asked \in 0..MaxAsks /\ got \in Nat
  /\ due \in 0..MaxCases /\ failed \in BOOLEAN

\* The run's stream carries test cases, then one test_done, then exactly the final
\* test cases test_done announced, whatever the client, the engine and the
\* connection do, unless the run is lost (server.py:543, 754-773).
Life ==
  CASE phase = "done" -> "over"
    [] phase = "lost" -> "lost"
    [] phase \in {"reporting", "replay"} -> "told"
    [] phase \in {"opening", "reading"} -> IF Replaying THEN "told" ELSE "serving"
    [] OTHER -> "serving"
Promise == INSTANCE RunPromise WITH MaxReplays <- MaxCases, single <- kind = "single", life <- Life
KeepsPromise == Promise!PromiseSpec

\* The verdict of test_done: a failure the client has reported is never passed
\* over, a run is not passed that a health check or a flaky test case spoilt, the
\* flaky test case being named, and one without an error key fails only for a
\* failure the client reported (server.py:388-395, 684-690, 697, 714-740).
VerdictIsTrue ==
  (\E i \in DOMAIN events : events[i].event = "test_done") =>
     /\ failed \/ result.error # "none" => ~result.passed
     /\ flaky => result.error \in {"flaky", "health"}
     /\ ~result.passed /\ result.error = "none" => failed

\* A reply that tells the client its test case is over is the last one on the
\* test case's stream, even to a client that has written more commands by then
\* (stream.py:144, server.py:386-395); the client relies on it (_test_aborted).
StopIsLast ==
  \A c \in Cases : \A i \in DOMAIN outbox[c] :
    outbox[c][i] \in {"StopTest", "Flaky"} => i = Len(outbox[c])

\* What a client that answers everything may be waited for, and may wait for.
ServerWaits == up /\ Reads
ClientWaits ==
  \/ client \in {"left", "over"}
  \/ client = "awaiting" /\ seen = Len(events)
  \/ client = "waiting" /\ got = Len(outbox[doing])
Deserted ==
  /\ client = "left"
  /\ (kind = "single" /\ failed) \/ (result.error = "flaky" /\ result.n > 0)

\* With a client that answers everything, the worker and the client never wait for
\* each other, and no run is lost, but where the client has raised and left: a single
\* test case that fails never gets its test_done read (client.py:85), and a flaky run
\* replays failures nobody expects (server.py:756).  The close of a test case's
\* stream, which would throw the whole run away if the worker still read the stream,
\* always comes after something that ends the test case, a mark_complete without a
\* status it knows included (server.py:309-322, 387-395).
HurtOnlyByDeserter == (ServerWaits /\ ClientWaits) \/ phase = "lost" => Deserted

\* Every run ends: with the client slow, silent, refusing or gone, no worker of
\* the pool is kept for ever (stream.py:145, 199).
RunEnds == <>(phase \in {"done", "lost"})

\* With a client that answers, and is answered, a run comes to its end.
RunCompletes == <>(phase = "done" \/ Deserted)
=============================================================================
