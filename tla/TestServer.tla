----------------------------- MODULE TestServer -----------------------------
(***************************************************************************)
(* The test server (test_server.py): run by run_server_stdio in place of   *)
(* the real one, it follows a script that injects one error, against the    *)
(* client library under test.  The client is the reference client of        *)
(* tests/client, or the one the modes' tests are written with, or one that  *)
(* does not do as the protocol says.                                        *)
(*                                                                         *)
(* A stream is what module Connection shows of it: a queue, read to its     *)
(* end before a close is noticed; a request to a stream the server has      *)
(* closed is answered by the reader thread with an error.                   *)
(***************************************************************************)
EXTENDS Naturals, Sequences

CONSTANTS
  Modes,    \* values of HEGEL_PROTOCOL_TEST_MODE
  Faults,   \* what the client may do wrong, any of them together
  MaxAsks   \* bound: commands of a test that is not written for the mode

CrashModes == {"crash_after_handshake", "crash_after_handshake_with_stderr"}

\* The steps of a mode.  Expect takes one command and no other, Until answers every
\* other command with a value, Grace takes any one and does without it.
Step(do, cmd, reply) == [do |-> do, cmd |-> cmd, reply |-> reply]
SendCase == Step("case", "", "")
CloseStream == Step("close", "", "")
SendDone == Step("done", "", "")
Expect(cmd, reply) == Step("expect", cmd, reply)
Until(cmd) == Step("until", cmd, "StopTest")
Grace == Step("grace", "", "Value")

\* The _mode_ functions.
StopOnGenerate_Polite ==  \* mutant: a mark_complete after StopTest is waited for and answered
  <<SendCase, Expect("generate", "Value"), Expect("mark_complete", "Value"), CloseStream,
    SendCase, Expect("generate", "StopTest"), Grace, CloseStream, SendDone>>

StopOnGenerate ==
  <<SendCase, Expect("generate", "Value"), Expect("mark_complete", "Value"), CloseStream,
    SendCase, Expect("generate", "StopTest"), CloseStream, SendDone>>

StopOnMarkComplete ==
  <<SendCase, Expect("generate", "Value"), Expect("mark_complete", "StopTest"),
    CloseStream, SendDone>>

StopOnCommand(cmd) == <<SendCase, Until(cmd), CloseStream, SendDone>>

ErrorResponse ==
  <<SendCase, Expect("generate", "RequestError"), Grace, CloseStream, SendDone>>

Script(mode) ==
  CASE mode = "stop_test_on_generate" -> StopOnGenerate
    [] mode = "stop_test_on_mark_complete" -> StopOnMarkComplete
    [] mode = "stop_test_on_collection_more" -> StopOnCommand("collection_more")
    [] mode = "stop_test_on_new_collection" -> StopOnCommand("new_collection")
    [] mode = "error_response" -> ErrorResponse
    [] mode = "empty_test" -> <<SendDone>>

Scripted == {"stop_test_on_generate", "stop_test_on_mark_complete",
             "stop_test_on_collection_more", "stop_test_on_new_collection",
             "error_response", "empty_test"}

\* body: a test that does not do what the mode needs; insist: mark_complete after
\* StopTest; mute: none after another error; badcommand: not run_test; refuse: an
\* error reply to an event; slow: no packet until a read times out; vanish: the
\* client's end of the connection goes away.
AllFaults == {"body", "insist", "mute", "badcommand", "refuse", "slow", "vanish"}

ASSUME TestServerAssumption == Faults \subseteq AllFaults /\ MaxAsks \in Nat

\* What the test under way asks for, one command after another.
Suited(mode) ==
  CASE mode = "stop_test_on_collection_more" ->
         <<"generate", "new_collection", "collection_more">>
    [] mode = "stop_test_on_new_collection" -> <<"start_span", "new_collection">>
    [] OTHER -> <<"generate">>
Commands == {"generate", "start_span", "new_collection", "collection_more"}
AnyTest == UNION {[1..n -> Commands] : n \in 0..MaxAsks}

VARIABLES
  mode, faults, patient, body,   \* what the behaviour is of
  \* the server
  pc,      \* handshake, control, script, waiting (for an event's reply), ended
  step,    \* the next step of the script
  case,    \* the test case under way, as it numbers them
  exit,    \* how run_test_server ended
  \* the connection
  running, answered,   \* open; the reply to the client's command is written
  events, acks,        \* what the server sent on the test stream, the replies to it
  inbox, outbox,       \* by test case: commands not yet read, replies written
  shut,                \* by test case: who has closed its stream
  \* the client
  client, seen, doing, asked, got   \* as in module Run

settings == <<mode, faults, patient, body>>
server == <<pc, step, case, exit>>
wire == <<running, answered, events, acks, inbox, outbox, shut>>
clientVars == <<client, seen, doing, asked, got>>
vars == <<settings, server, wire, clientVars>>

Cases == 1..2
Now == Script(mode)[step]

Init ==
  /\ mode \in Modes /\ faults \in SUBSET Faults /\ patient \in BOOLEAN
  /\ body \in IF "body" \in faults THEN AnyTest ELSE {Suited(mode)}
  /\ pc = "handshake" /\ step = 1 /\ case = 0 /\ exit = "none"
  /\ running = TRUE /\ answered = FALSE /\ events = <<>> /\ acks = <<>>
  /\ inbox = [c \in Cases |-> <<>>] /\ outbox = [c \in Cases |-> <<>>]
  /\ shut = [c \in Cases |-> {}]
  /\ client = "starting" /\ seen = 0 /\ doing = 0 /\ asked = 0 /\ got = 0

-----------------------------------------------------------------------------
(* The server.                                                             *)

\* Out of run_test_server, by the end of the script or an exception: the connection
\* is closed, by it or, for an unknown mode, by run_server_stdio.
Leave(how) ==
  /\ pc' = "ended" /\ exit' = how /\ running' = FALSE
  /\ UNCHANGED <<settings, step, case, answered, events, acks, inbox, outbox, shut, clientVars>>

Handshake ==
  /\ pc = "handshake"
  /\ IF ~running THEN Leave("lost")
     ELSE IF mode \in CrashModes THEN Leave("crash")
     ELSE IF mode \notin Scripted THEN Leave("unknown_mode")
     ELSE /\ pc' = "control"
          /\ UNCHANGED <<settings, step, case, exit, wire, clientVars>>

\* The command on the control stream, and its reply.
TakeCommand ==
  /\ pc = "control"
  /\ IF "badcommand" \in faults THEN Leave("value_error")
     ELSE IF ~running THEN Leave("quiet")
     ELSE /\ answered' = TRUE /\ pc' = "script"
          /\ UNCHANGED <<settings, step, case, exit, running, events, acks, inbox, outbox, shut,
                         clientVars>>

SendEvent_Counts ==  \* mutant: test_done counts as a test case
  /\ pc = "script" /\ step <= Len(Script(mode)) /\ Now.do \in {"case", "done"}
  /\ IF ~running THEN Leave("quiet")
     ELSE /\ events' = Append(events, Now.do) /\ case' = case + 1 /\ pc' = "waiting"
          /\ UNCHANGED <<settings, step, exit, running, answered, acks, inbox, outbox, shut,
                         clientVars>>

\* _send_test_case and _send_test_done up to the wait for the reply.
SendEvent ==
  /\ pc = "script" /\ step <= Len(Script(mode)) /\ Now.do \in {"case", "done"}
  /\ IF ~running THEN Leave("quiet")
     ELSE /\ events' = Append(events, Now.do)
          /\ case' = IF Now.do = "case" THEN case + 1 ELSE case
          /\ pc' = "waiting"
          /\ UNCHANGED <<settings, step, exit, running, answered, acks, inbox, outbox, shut,
                         clientVars>>

TakeAck_Quiet ==  \* mutant: an error reply is taken for the end of the connection
  /\ pc = "waiting" /\ acks # <<>>
  /\ IF Head(acks) = "error" THEN Leave("quiet")
     ELSE /\ acks' = Tail(acks) /\ step' = step + 1 /\ pc' = "script"
          /\ UNCHANGED <<settings, case, exit, running, answered, events, inbox, outbox, shut,
                         clientVars>>

\* PendingRequest.get
TakeAck ==
  /\ pc = "waiting" /\ acks # <<>>
  /\ IF Head(acks) = "error" THEN Leave("request_error")
     ELSE /\ acks' = Tail(acks) /\ step' = step + 1 /\ pc' = "script"
          /\ UNCHANGED <<settings, case, exit, running, answered, events, inbox, outbox, shut,
                         clientVars>>

\* Neither arrives in time.
NeverStarts ==
  /\ "slow" \in faults /\ pc \in {"handshake", "control"}
  /\ Leave(IF pc = "handshake" THEN "lost" ELSE "timeout")

Reading == pc = "script" /\ step <= Len(Script(mode)) /\ Now.do \in {"expect", "until", "grace"}
Nothing == IF Reading THEN inbox[case] = <<>> ELSE pc = "waiting" /\ acks = <<>>
Ended == ~running \/ (Reading /\ "client" \in shut[case])

TakeRequest_Shut ==  \* mutant: no reply can be written on a stream the client has closed
  /\ Reading /\ inbox[case] # <<>>
  /\ IF Now.do = "expect" /\ Head(inbox[case]) # Now.cmd THEN Leave("value_error")
     ELSE IF "client" \in shut[case] /\ Now.do # "grace" THEN Leave("quiet")
     ELSE LET passing == Now.do = "until" /\ Head(inbox[case]) # Now.cmd IN
          /\ inbox' = [inbox EXCEPT ![case] = Tail(@)]
          /\ outbox' = [outbox EXCEPT ![case] =
                          Append(@, IF passing THEN "Value" ELSE Now.reply)]
          /\ step' = IF passing THEN step ELSE step + 1
          /\ UNCHANGED <<settings, pc, case, exit, running, answered, events, acks, shut,
                         clientVars>>

\* A command of the client and the answer to it.
TakeRequest ==
  /\ Reading /\ inbox[case] # <<>>
  /\ IF Now.do = "expect" /\ Head(inbox[case]) # Now.cmd THEN Leave("value_error")
     ELSE IF ~running /\ Now.do # "grace" THEN Leave("quiet")
     ELSE LET passing == Now.do = "until" /\ Head(inbox[case]) # Now.cmd IN
          /\ inbox' = [inbox EXCEPT ![case] = Tail(@)]
          /\ outbox' = [outbox EXCEPT ![case] =
                          Append(@, IF passing THEN "Value" ELSE Now.reply)]
          /\ step' = IF passing THEN step ELSE step + 1
          /\ UNCHANGED <<settings, pc, case, exit, running, answered, events, acks, shut,
                         clientVars>>

GiveUp(how) ==
  IF Reading /\ Now.do = "grace"
  THEN step' = step + 1 /\ UNCHANGED <<settings, pc, case, exit, wire, clientVars>>
  ELSE Leave(how)

ReadClosed_GoOn ==  \* mutant: the client's close of a stream ends a step, not the mode
  /\ Nothing /\ Ended
  /\ IF running THEN step' = step + 1 /\ UNCHANGED <<settings, pc, case, exit, wire, clientVars>>
                ELSE GiveUp("quiet")

\* ConnectionError, caught around the whole of it, ...
ReadClosed == Nothing /\ Ended /\ GiveUp("quiet")

\* ... and TimeoutError, which is not.
Blocked ==
  \/ client = "starting" /\ ~answered
  \/ client = "awaiting" /\ seen = Len(events)
  \/ client = "waiting" /\ got = Len(outbox[doing])

ReadTimeout_Grace ==  \* mutant: only the read after an error response has a timeout
  /\ Nothing /\ ~Ended /\ ("slow" \in faults \/ Blocked)
  /\ Reading /\ Now.do = "grace" /\ GiveUp("timeout")

ReadTimeout ==
  /\ Nothing /\ ~Ended /\ ("slow" \in faults \/ Blocked)
  /\ GiveUp("timeout")

\* A stream the client has closed is not announced as closed.
Close ==
  /\ pc = "script" /\ step <= Len(Script(mode)) /\ Now.do = "close"
  /\ shut' = [shut EXCEPT ![case] = @ \cup {"server"}]
  /\ step' = step + 1
  /\ UNCHANGED <<settings, pc, case, exit, running, answered, events, acks, inbox, outbox,
                 clientVars>>

Return == pc = "script" /\ step > Len(Script(mode)) /\ Leave("returned")

Server ==
  \/ Handshake \/ TakeCommand \/ NeverStarts \/ SendEvent \/ TakeAck \/ TakeRequest
  \/ ReadClosed \/ ReadTimeout \/ Close \/ Return

-----------------------------------------------------------------------------
(* The client.                                                             *)

unsaid == <<settings, server, running, answered, events>>

Start ==
  /\ client = "starting" /\ answered /\ client' = "awaiting"
  /\ UNCHANGED <<unsaid, acks, inbox, outbox, shut, seen, doing, asked, got>>

Receive ==
  /\ client = "awaiting" /\ seen < Len(events)
  /\ seen' = seen + 1
  /\ IF "refuse" \in faults
     THEN acks' = Append(acks, "error") /\ UNCHANGED <<client, doing, asked, got>>
     ELSE /\ acks' = Append(acks, "ok") /\ asked' = 0 /\ got' = 0
          /\ IF events[seen + 1] = "case" THEN client' = "testing" /\ doing' = doing + 1
                                          ELSE client' = "over" /\ UNCHANGED doing
  /\ UNCHANGED <<unsaid, inbox, outbox, shut>>

\* A request on the test case's stream.
Write(m) ==
  IF "server" \in shut[doing] /\ running
  THEN outbox' = [outbox EXCEPT ![doing] = Append(@, "Refused")] /\ UNCHANGED inbox
  ELSE inbox' = [inbox EXCEPT ![doing] = Append(@, m)] /\ UNCHANGED outbox

Ask ==
  /\ client = "testing" /\ asked < Len(body)
  /\ Write(body[asked + 1]) /\ asked' = asked + 1 /\ client' = "waiting"
  /\ UNCHANGED <<unsaid, acks, shut, seen, doing, got>>

\* The reference client closes the stream behind its mark_complete; the client of
\* the modes' tests waits for the reply and closes nothing.
Hangs == patient /\ UNCHANGED shut
Closes == ~patient /\ shut' = [shut EXCEPT ![doing] = @ \cup {"client"}]

Complete ==
  /\ client = "testing" /\ asked = Len(body)
  /\ Write("mark_complete") /\ asked' = asked + 1
  /\ \/ Hangs /\ client' = "waiting"
     \/ Closes /\ client' = "awaiting"
  /\ UNCHANGED <<unsaid, acks, seen, doing, got>>

\* The reply: a test goes on after a value, ends without a word after StopTest, and
\* fails, which it reports, after another error.
Reports(reply) ==
  \/ reply \in {"RequestError", "Refused"} /\ "mute" \notin faults
  \/ reply = "StopTest" /\ "insist" \in faults

TakeReply ==
  /\ client = "waiting" /\ got < Len(outbox[doing])
  /\ got' = got + 1
  /\ LET reply == outbox[doing][got + 1]
         completing == asked > Len(body)
     IN \/ /\ reply = "Value" /\ ~completing
           /\ client' = "testing" /\ UNCHANGED <<asked, inbox, outbox, shut>>
        \/ /\ completing
           /\ client' = "awaiting" /\ UNCHANGED <<asked, inbox, outbox, shut>>
        \/ /\ reply # "Value" /\ ~completing /\ Reports(reply)
           /\ Write("mark_complete") /\ asked' = Len(body) + 1
           /\ \/ Hangs /\ client' = "waiting"
              \/ Closes /\ client' = "awaiting"
        \/ /\ reply # "Value" /\ ~completing /\ ~Reports(reply)
           /\ client' = "awaiting"
           /\ Hangs \/ Closes
           /\ UNCHANGED <<asked, inbox, outbox>>
  /\ UNCHANGED <<unsaid, acks, seen, doing>>

\* A read behind the end of the connection raises, whatever it waits for.
Released ==
  /\ ~running /\ Blocked
  /\ client' = "raised"
  /\ UNCHANGED <<unsaid, acks, inbox, outbox, shut, seen, doing, asked, got>>

\* Out of the with statement, or gone without one.
Quit ==
  /\ client = "over" \/ ("vanish" \in faults /\ client # "raised")
  /\ client' = IF client = "over" THEN "left" ELSE "gone"
  /\ client \notin {"left", "gone"}
  /\ running' = FALSE
  /\ UNCHANGED <<settings, server, answered, events, acks, inbox, outbox, shut, seen, doing,
                 asked, got>>

Client == Start \/ Receive \/ Ask \/ Complete \/ TakeReply \/ Released \/ Quit

Next == Server \/ Client

\* The server's thread runs, and a get() with a timeout returns; a client that is
\* not blocked goes on, until it vanishes.
Spec == Init /\ [][Next]_vars /\ WF_vars(Server) /\ WF_vars(Client)

-----------------------------------------------------------------------------
(* Properties.                                                             *)

Injected(c) == \E i \in DOMAIN outbox[c] : outbox[c][i] \in {"StopTest", "RequestError"}

TypeOK ==
  /\ patient \in BOOLEAN /\ faults \subseteq Faults
  /\ pc \in {"handshake", "control", "script", "waiting", "ended"}
  /\ step \in 1..12 /\ case \in 0..2 /\ doing \in 0..2 /\ seen \in 0..Len(events)
  /\ exit \in {"none", "returned", "quiet", "timeout", "value_error", "request_error",
               "crash", "unknown_mode", "lost"}
  /\ running \in BOOLEAN /\ answered \in BOOLEAN
  /\ events \in Seq({"case", "done"}) /\ acks \in Seq({"ok", "error"})
  /\ \A c \in Cases : /\ outbox[c] \in Seq({"Value", "StopTest", "RequestError", "Refused"})
                      /\ shut[c] \subseteq {"server", "client"}
  /\ client \in {"starting", "awaiting", "testing", "waiting", "over", "left", "raised", "gone"}

\* A library that is told its test is done has met the error the mode is for,
\* whatever test it ran: test_done never vouches for an error that was not injected
\* (test_server.py:203, 231, 292).
DoneMeansInjected ==
  (\E i \in DOMAIN events : events[i] = "done") /\ mode # "empty_test" => Injected(case)

\* The ConnectionError swallowed at test_server.py:78 hides only a client that went
\* away, or closed its test case before the error of its mode.
QuietMeansClientLeft ==
  exit = "quiet" => \/ client \in {"gone", "left"}
                    \/ case > 0 /\ "client" \in shut[case] /\ ~Injected(case)

\* After StopTest the handler is silent on that stream: what a client that insists
\* gets there is the reader's refusal or nothing (test_server.py:152, 169).
SilentAfterStopTest ==
  \A c \in Cases : \A i, j \in DOMAIN outbox[c] :
    outbox[c][i] = "StopTest" /\ j > i => outbox[c][j] = "Refused"

\* A library that obeys, of either kind, comes to the end of every scripted mode,
\* and so does the server, by its own return (or swallowing that the client, which
\* has answered test_done, is gone).
ObedientFinishes ==
  (faults = {} /\ mode \in Scripted) => <>(exit = "returned" /\ client = "left")

\* Whatever the client does, run_test_server ends: a client that waits for an answer
\* the script will not give, while the script waits for it, is ended by the timeout.
\* And the client is never left waiting: the connection is closed in every way out.
BothEnd == <>(pc = "ended") /\ <>(client \in {"left", "raised", "gone"})
=============================================================================
