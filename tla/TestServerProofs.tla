--------------------------- MODULE TestServerProofs ---------------------------
(***************************************************************************)
(* Proofs about module TestServer: whatever the client does, the error of   *)
(* a mode is injected where its script says, or the mode is not taken for   *)
(* one that ran.                                                           *)
(***************************************************************************)
EXTENDS TestServer, TLAPS

\* How many test cases the script has begun before step k, and the step that injects the
\* error; empty_test has none.
Before(k) ==
  CASE mode = "stop_test_on_generate" -> IF k <= 1 THEN 0 ELSE IF k <= 5 THEN 1 ELSE 2
    [] mode = "empty_test" -> 0
    [] OTHER -> IF k <= 1 THEN 0 ELSE 1
ErrorStep ==
  CASE mode = "stop_test_on_generate" -> 6
    [] mode = "stop_test_on_mark_complete" -> 3
    [] OTHER -> 2

Injections == {"StopTest", "RequestError"}
Replies == {"Value", "StopTest", "RequestError", "Refused"}
Unread == Len(events) - seen
Last == events[Len(events)]

Types ==
  /\ patient \in BOOLEAN /\ faults \subseteq Faults
  /\ pc \in {"handshake", "control", "script", "waiting", "ended"}
  /\ exit \in {"none", "returned", "quiet", "timeout", "value_error", "request_error",
               "crash", "unknown_mode", "lost"}
  /\ running \in BOOLEAN /\ answered \in BOOLEAN
  /\ events \in Seq({"case", "done"}) /\ acks \in Seq({"ok", "error"})
  /\ outbox \in [Cases -> Seq(Replies)] /\ shut \in [Cases -> SUBSET {"server", "client"}]
  /\ client \in {"starting", "awaiting", "testing", "waiting", "over", "left", "raised", "gone"}
  /\ step \in Nat /\ case \in Nat /\ doing \in Nat /\ seen \in Nat

\* Where the server is in its script.
PlaceInv ==
  /\ mode \in Scripted => step >= 1 /\ step <= Len(Script(mode)) + 1
  /\ mode \notin Scripted => step = 1 /\ pc \in {"handshake", "ended"} /\ exit # "quiet"
  /\ pc \in {"handshake", "control"} => step = 1 /\ case = 0
  /\ pc = "script" => case = Before(step)
  /\ pc = "waiting" =>
       /\ step <= Len(Script(mode)) /\ Now.do \in {"case", "done"} /\ Last = Now.do
       /\ case = Before(step + 1)
  /\ case <= 2 /\ (exit # "none" <=> pc = "ended")

\* At most one event is not read, or read and its reply is not, and the server waits for it.
FlowInv ==
  /\ Unread \in {0, 1}
  /\ pc = "waiting" => Len(acks) + Unread = 1 /\ events # <<>>
  /\ pc \notin {"waiting", "ended"} => acks = <<>> /\ Unread = 0
  /\ pc \in {"handshake", "control"} => events = <<>>
  /\ doing <= case /\ (Unread = 1 /\ Last = "case" => doing < case)
  /\ client \in {"testing", "waiting"} => doing \in Cases
  /\ \A i \in DOMAIN events : events[i] = "done" => mode \in Scripted /\ step >= Len(Script(mode))

\* The error is injected at its step, and at no other.
ErrorInv ==
  /\ step <= ErrorStep => \A c \in Cases : ~Injected(c)
  /\ step > ErrorStep => case \in Cases /\ Injected(case)
  /\ mode = "error_response" =>
         \A c \in Cases : \A i \in DOMAIN outbox[c] : outbox[c][i] # "StopTest"
  /\ SilentAfterStopTest

\* As long as the server goes on, only its client can have closed the connection.
QuietInv ==
  /\ pc # "ended" /\ ~running => client \in {"gone", "left"}
  /\ QuietMeansClientLeft

Inv == Types /\ PlaceInv /\ FlowInv /\ ErrorInv /\ QuietInv

-----------------------------------------------------------------------------
(* The scripts, step by step.                                              *)

LEMMA StepFields ==
  /\ SendCase.do = "case" /\ CloseStream.do = "close" /\ SendDone.do = "done"
  /\ Grace.do = "grace" /\ Grace.reply = "Value"
  /\ \A cmd : Until(cmd).do = "until" /\ Until(cmd).reply = "StopTest"
  /\ \A cmd, r : Expect(cmd, r).do = "expect" /\ Expect(cmd, r).reply = r
  <1>1. \A d, c, r : Step(d, c, r).do = d /\ Step(d, c, r).reply = r
    BY DEF Step
  <1>2. SendCase.do = "case" /\ CloseStream.do = "close" /\ SendDone.do = "done"
    BY <1>1, ZenonT(60) DEF SendCase, CloseStream, SendDone
  <1>3. Grace.do = "grace" /\ Grace.reply = "Value"
    BY <1>1, ZenonT(60) DEF Grace
  <1>4. \A cmd : Until(cmd).do = "until" /\ Until(cmd).reply = "StopTest"
    BY <1>1, ZenonT(60) DEF Until
  <1>5. \A cmd, r : Expect(cmd, r).do = "expect" /\ Expect(cmd, r).reply = r
    BY <1>1, ZenonT(60) DEF Expect
  <1> QED
    BY <1>2, <1>3, <1>4, <1>5

LEMMA StopOnGenerateIs ==
  ASSUME NEW s, s = StopOnGenerate
  PROVE  /\ Len(s) = 8
         /\ s[1] = SendCase /\ s[2] = Expect("generate", "Value")
         /\ s[3] = Expect("mark_complete", "Value") /\ s[4] = CloseStream
         /\ s[5] = SendCase /\ s[6] = Expect("generate", "StopTest")
         /\ s[7] = CloseStream /\ s[8] = SendDone
  BY DEF StopOnGenerate

LEMMA StopOnMarkCompleteIs ==
  ASSUME NEW s, s = StopOnMarkComplete
  PROVE  /\ Len(s) = 5
         /\ s[1] = SendCase /\ s[2] = Expect("generate", "Value")
         /\ s[3] = Expect("mark_complete", "StopTest") /\ s[4] = CloseStream /\ s[5] = SendDone
  BY DEF StopOnMarkComplete

LEMMA StopOnCommandIs ==
  ASSUME NEW cmd, NEW s, s = StopOnCommand(cmd)
  PROVE  /\ Len(s) = 4
         /\ s[1] = SendCase /\ s[2] = Until(cmd) /\ s[3] = CloseStream /\ s[4] = SendDone
  BY DEF StopOnCommand

LEMMA ErrorResponseIs ==
  ASSUME NEW s, s = ErrorResponse
  PROVE  /\ Len(s) = 5
         /\ s[1] = SendCase /\ s[2] = Expect("generate", "RequestError") /\ s[3] = Grace
         /\ s[4] = CloseStream /\ s[5] = SendDone
  BY DEF ErrorResponse

Kind(s, k) ==
  \/ s.do = "case" /\ k < ErrorStep /\ Before(k + 1) = Before(k) + 1
  \/ s.do = "done" /\ k = Len(Script(mode)) /\ Before(k + 1) = Before(k)
  \/ s.do = "close" /\ k < Len(Script(mode)) /\ k # ErrorStep /\ Before(k + 1) = Before(k)
  \/ /\ s.do \in {"expect", "until"} /\ k <= ErrorStep /\ k < Len(Script(mode))
     /\ Before(k) \in Cases /\ Before(k + 1) = Before(k)
     /\ IF k = ErrorStep
        THEN s.reply \in Injections /\ (mode = "error_response" => s.reply # "StopTest")
                         ELSE s.do = "expect" /\ s.reply = "Value"
  \/ /\ s.do = "grace" /\ mode = "error_response" /\ k > ErrorStep /\ k < Len(Script(mode))
     /\ Before(k) \in Cases /\ Before(k + 1) = Before(k) /\ s.reply = "Value"

\* What each step of a script is, and where it stands.
LEMMA StepKinds ==
  ASSUME mode \in Scripted
  PROVE  /\ Len(Script(mode)) \in 1..8 /\ ErrorStep \in 2..6
         /\ mode # "empty_test" => ErrorStep < Len(Script(mode))
         /\ mode = "empty_test" => Len(Script(mode)) = 1
         /\ Before(1) = 0 /\ \A k \in Nat : Before(k) \in 0..2
         /\ \A k \in 1..Len(Script(mode)) : Kind(Script(mode)[k], k)
  <1> DEFINE s == Script(mode)
  <1>1. CASE mode = "stop_test_on_generate"
    <2>1. s = StopOnGenerate
      BY <1>1 DEF Script
    <2>2. ErrorStep = 6 /\ \A k \in Nat : Before(k) = IF k <= 1 THEN 0 ELSE IF k <= 5 THEN 1 ELSE 2
      BY <1>1 DEF ErrorStep, Before
    <2>3. /\ s[1].do = "case" /\ s[2].do = "expect" /\ s[3].do = "expect" /\ s[4].do = "close"
          /\ s[5].do = "case" /\ s[6].do = "expect" /\ s[7].do = "close" /\ s[8].do = "done"
          /\ s[2].reply = "Value" /\ s[3].reply = "Value" /\ s[6].reply = "StopTest" /\ Len(s) = 8
      BY <2>1, StopOnGenerateIs, StepFields
    <2> HIDE DEF s
    <2>4. \A k \in 1..8 : Kind(s[k], k)
      <3> SUFFICES ASSUME NEW k \in 1..8 PROVE Kind(s[k], k)
        OBVIOUS
      <3>1. CASE k = 1 \/ k = 5
        BY <2>2, <2>3, <3>1 DEF Kind
      <3>2. CASE k = 2 \/ k = 3
        BY <2>2, <2>3, <3>2 DEF Kind, Cases, s
      <3>3. CASE k = 6
        BY SMTT(30), <1>1, <2>2, <2>3, <3>3 DEF Kind, Cases, Injections, s
      <3>4. CASE k = 4 \/ k = 7
        BY <2>2, <2>3, <3>4 DEF Kind, s
      <3>5. CASE k = 8
        BY <2>2, <2>3, <3>5 DEF Kind, s
      <3> QED
        BY <3>1, <3>2, <3>3, <3>4, <3>5
    <2> QED
      BY SMTT(30), <1>1, <2>2, <2>3, <2>4 DEF s
  <1>2. CASE mode = "stop_test_on_mark_complete"
    <2>1. s = StopOnMarkComplete
      BY <1>2 DEF Script
    <2>2. ErrorStep = 3 /\ \A k \in Nat : Before(k) = IF k <= 1 THEN 0 ELSE 1
      BY <1>2 DEF ErrorStep, Before
    <2>3. /\ s[1].do = "case" /\ s[2].do = "expect" /\ s[3].do = "expect" /\ s[4].do = "close"
          /\ s[5].do = "done" /\ s[2].reply = "Value" /\ s[3].reply = "StopTest" /\ Len(s) = 5
      BY <2>1, StopOnMarkCompleteIs, StepFields
    <2> HIDE DEF s
    <2>4. \A k \in 1..5 : Kind(s[k], k)
      <3> SUFFICES ASSUME NEW k \in 1..5 PROVE Kind(s[k], k)
        OBVIOUS
      <3>1. CASE k = 1
        BY <2>2, <2>3, <3>1 DEF Kind
      <3>2. CASE k = 2
        BY <2>2, <2>3, <3>2 DEF Kind, Cases, s
      <3>3. CASE k = 3
        BY <1>2, <2>2, <2>3, <3>3 DEF Kind, Cases, Injections, s
      <3>4. CASE k = 4 \/ k = 5
        BY <2>2, <2>3, <3>4 DEF Kind, s
      <3> QED
        BY <3>1, <3>2, <3>3, <3>4
    <2> QED
      BY SMTT(30), <1>2, <2>2, <2>3, <2>4 DEF s
  <1>3. CASE mode \in {"stop_test_on_collection_more", "stop_test_on_new_collection"}
    <2>1. PICK cmd : s = StopOnCommand(cmd)
      BY <1>3 DEF Script
    <2>2. ErrorStep = 2 /\ \A k \in Nat : Before(k) = IF k <= 1 THEN 0 ELSE 1
      BY <1>3 DEF ErrorStep, Before
    <2>3. /\ s[1].do = "case" /\ s[2].do = "until" /\ s[3].do = "close" /\ s[4].do = "done"
          /\ s[2].reply = "StopTest" /\ Len(s) = 4
      BY <2>1, StopOnCommandIs, StepFields
    <2> HIDE DEF s
    <2>4. \A k \in 1..4 : Kind(s[k], k)
      <3> SUFFICES ASSUME NEW k \in 1..4 PROVE Kind(s[k], k)
        OBVIOUS
      <3>1. CASE k = 1
        BY <2>2, <2>3, <3>1 DEF Kind
      <3>2. CASE k = 2
        BY <1>3, <2>2, <2>3, <3>2 DEF Kind, Cases, Injections, s
      <3>3. CASE k = 3 \/ k = 4
        BY <2>2, <2>3, <3>3 DEF Kind, s
      <3> QED
        BY <3>1, <3>2, <3>3
    <2> QED
      BY <1>3, <2>2, <2>3, <2>4 DEF s
  <1>4. CASE mode = "error_response"
    <2>1. s = ErrorResponse
      BY <1>4 DEF Script
    <2>2. ErrorStep = 2 /\ \A k \in Nat : Before(k) = IF k <= 1 THEN 0 ELSE 1
      BY <1>4 DEF ErrorStep, Before
    <2>3. /\ s[1].do = "case" /\ s[2].do = "expect" /\ s[3].do = "grace" /\ s[4].do = "close"
          /\ s[5].do = "done" /\ s[2].reply = "RequestError" /\ s[3].reply = "Value" /\ Len(s) = 5
      BY <2>1, ErrorResponseIs, StepFields
    <2> HIDE DEF s
    <2>4. \A k \in 1..5 : Kind(s[k], k)
      <3> SUFFICES ASSUME NEW k \in 1..5 PROVE Kind(s[k], k)
        OBVIOUS
      <3>1. CASE k = 1
        BY <2>2, <2>3, <3>1 DEF Kind
      <3>2. CASE k = 2
        BY <1>4, <2>2, <2>3, <3>2 DEF Kind, Cases, Injections, s
      <3>3. CASE k = 3
        BY <1>4, <2>2, <2>3, <3>3 DEF Kind, Cases, s
      <3>4. CASE k = 4 \/ k = 5
        BY <2>2, <2>3, <3>4 DEF Kind, s
      <3> QED
        BY <3>1, <3>2, <3>3, <3>4
    <2>5. mode # "empty_test" /\ Len(s) = 5 /\ Before(1) = 0
      BY <1>4, <2>2, <2>3
    <2>6. \A k \in Nat : Before(k) \in 0..2
      BY <2>2
    <2> QED
      BY <2>2, <2>4, <2>5, <2>6 DEF s
  <1>5. CASE mode = "empty_test"
    <2>1. s = <<SendDone>>
      BY <1>5 DEF Script
    <2>2. ErrorStep = 2 /\ \A k \in Nat : Before(k) = 0
      BY <1>5 DEF ErrorStep, Before
    <2>3. s[1] = SendDone /\ Len(s) = 1
      BY <2>1
    <2>4. s[1].do = "done"
      BY <2>3, StepFields
    <2> HIDE DEF s
    <2>5. \A k \in 1..1 : Kind(s[k], k)
      BY <2>2, <2>3, <2>4 DEF Kind, s
    <2> QED
      BY <1>5, <2>2, <2>3, <2>5 DEF s
  <1> QED
    BY <1>1, <1>2, <1>3, <1>4, <1>5 DEF Scripted

-----------------------------------------------------------------------------
LEMMA InitInv == Init => Inv
  <1> SUFFICES ASSUME Init PROVE Inv
    OBVIOUS
  <1>1. /\ patient \in BOOLEAN /\ faults \subseteq Faults
        /\ pc = "handshake" /\ step = 1 /\ case = 0 /\ exit = "none"
        /\ running = TRUE /\ answered = FALSE /\ events = <<>> /\ acks = <<>>
        /\ outbox = [c \in Cases |-> <<>>] /\ shut = [c \in Cases |-> {}]
        /\ client = "starting" /\ seen = 0 /\ doing = 0
    BY DEF Init
  <1>2. Types
    <2>1. outbox \in [Cases -> Seq(Replies)] /\ shut \in [Cases -> SUBSET {"server", "client"}]
      BY <1>1
    <2>2. events \in Seq({"case", "done"}) /\ acks \in Seq({"ok", "error"})
      BY <1>1
    <2> QED
      BY <1>1, <2>1, <2>2 DEF Types
  <1>3. PlaceInv
    <2>1. mode \in Scripted => Len(Script(mode)) \in 1..8
      BY StepKinds
    <2> QED
      BY <1>1, <2>1 DEF PlaceInv
  <1>4. Unread = 0
    BY <1>1 DEF Unread
  <1>5. FlowInv
    BY <1>1, <1>4 DEF FlowInv
  <1>6. ErrorInv
    <2>1. ErrorStep > 1
      BY DEF ErrorStep
    <2>2. \A c \in Cases : outbox[c] = <<>>
      BY <1>1
    <2>3. \A c \in Cases : ~Injected(c)
      BY <2>2 DEF Injected
    <2>4. SilentAfterStopTest
      BY <2>2 DEF SilentAfterStopTest
    <2>5. \A c \in Cases : \A i \in DOMAIN outbox[c] : outbox[c][i] # "StopTest"
      BY <2>2
    <2>6. step <= ErrorStep /\ ~(step > ErrorStep)
      BY <1>1, <2>1 DEF ErrorStep
    <2> QED
      BY <2>3, <2>4, <2>5, <2>6, Zenon DEF ErrorInv
  <1>7. QuietInv
    BY <1>1 DEF QuietInv, QuietMeansClientLeft
  <1> QED
    BY <1>2, <1>3, <1>5, <1>6, <1>7 DEF Inv

-----------------------------------------------------------------------------
(* The end of the server, and of its client.                                *)

\* What no step from now on undoes once the server has ended.
LEMMA LeaveKeeps ==
  ASSUME Inv, pc # "ended", NEW how, Leave(how),
         how \in {"returned", "quiet", "timeout", "value_error", "request_error", "crash",
                  "unknown_mode", "lost"},
         how = "quiet" =>
           /\ mode \in Scripted
           /\ \/ ~running
              \/ case \in Cases /\ "client" \in shut[case] /\ ~Injected(case)
  PROVE  Inv'
  <1>1. /\ pc' = "ended" /\ exit' = how /\ running' = FALSE
        /\ UNCHANGED <<mode, faults, patient, body, step, case, answered, events, acks, outbox,
                       shut, client, seen, doing>>
    BY DEF Leave, settings, clientVars
  <1>2. Types'
    BY ZenonT(60), <1>1 DEF Inv, Types
  <1>3. PlaceInv'
    BY <1>1 DEF Inv, PlaceInv
  <1>4. FlowInv'
    BY <1>1 DEF Inv, FlowInv, Unread, Last
  <1>5. ErrorInv'
    BY <1>1 DEF Inv, ErrorInv, ErrorStep, Injected, SilentAfterStopTest
  <1>6. QuietInv'
    <2>1. ~running => client \in {"gone", "left"}
      BY DEF Inv, QuietInv
    <2>2. case \in Cases => case > 0
      BY DEF Cases
    <2> QED
      BY <1>1, <2>1, <2>2 DEF QuietInv, QuietMeansClientLeft, Injected
  <1> QED
    BY <1>2, <1>3, <1>4, <1>5, <1>6 DEF Inv

\* Before the script begins.
LEMMA BeginsKeeps ==
  ASSUME Inv, Handshake \/ TakeCommand \/ NeverStarts
  PROVE  Inv'
  <1>1. pc \in {"handshake", "control"}
    BY DEF Handshake, TakeCommand, NeverStarts
  <1>2. CASE \E how \in {"lost", "crash", "unknown_mode", "value_error", "timeout"} : Leave(how)
    BY <1>1, <1>2, LeaveKeeps
  <1>3. CASE TakeCommand /\ ~running /\ Leave("quiet")
    <2>1. mode \in Scripted
      BY <1>3 DEF TakeCommand, Inv, PlaceInv
    <2> QED
      BY <1>1, <1>3, <2>1, LeaveKeeps
  <1>4. CASE /\ Handshake /\ pc' = "control"
             /\ UNCHANGED <<settings, step, case, exit, wire, clientVars>>
    <2>1. /\ pc = "handshake" /\ mode \in Scripted
          /\ UNCHANGED <<mode, faults, patient, body, step, case, exit, running, answered, events,
                         acks, outbox, shut, client, seen, doing>>
      BY <1>4 DEF Handshake, Leave, settings, wire, clientVars
    <2>2. Types' /\ FlowInv'
      BY <1>4, <2>1 DEF Inv, Types, FlowInv, Unread, Last
    <2>3. PlaceInv'
      BY <1>4, <2>1 DEF Inv, PlaceInv
    <2>4. ErrorInv'
      BY <2>1 DEF Inv, ErrorInv, ErrorStep, Injected, SilentAfterStopTest
    <2>5. QuietInv'
      BY <1>4, <2>1 DEF Inv, QuietInv, QuietMeansClientLeft, Injected
    <2> QED
      BY <2>2, <2>3, <2>4, <2>5 DEF Inv
  <1>5. CASE TakeCommand /\ pc' = "script" /\ answered' = TRUE
             /\ UNCHANGED <<settings, step, case, exit, running, events, acks, inbox, outbox, shut,
                            clientVars>>
    <2>1. /\ pc = "control" /\ mode \in Scripted
          /\ UNCHANGED <<mode, faults, patient, body, step, case, exit, running, events,
                         acks, outbox, shut, client, seen, doing>>
      BY <1>5 DEF TakeCommand, settings, clientVars, Inv, PlaceInv
    <2>2. Types'
      BY <1>5, <2>1 DEF Inv, Types
    <2>3. PlaceInv'
      <3>1. Before(1) = 0
        BY <2>1, StepKinds
      <3>2. step = 1 /\ case = 0
        BY <2>1 DEF Inv, PlaceInv
      <3>3. Before(step)' = Before(step)
        BY <2>1 DEF Before
      <3> QED
        BY <1>5, <2>1, <3>1, <3>2, <3>3 DEF Inv, PlaceInv
    <2>4. FlowInv'
      BY <1>5, <2>1 DEF Inv, FlowInv, Unread, Last
    <2>5. ErrorInv'
      BY <2>1 DEF Inv, ErrorInv, ErrorStep, Injected, SilentAfterStopTest
    <2>6. QuietInv'
      BY <1>5, <2>1 DEF Inv, QuietInv, QuietMeansClientLeft, Injected
    <2> QED
      BY <2>2, <2>3, <2>4, <2>5, <2>6 DEF Inv
  <1> QED
    BY <1>2, <1>3, <1>4, <1>5 DEF Handshake, TakeCommand, NeverStarts

-----------------------------------------------------------------------------
(* The script.                                                             *)

LEMMA KindTells ==
  ASSUME NEW s, NEW k, Kind(s, k)
  PROVE  /\ s.do = "case" => k < ErrorStep /\ Before(k + 1) = Before(k) + 1
         /\ s.do = "done" => k = Len(Script(mode)) /\ Before(k + 1) = Before(k)
         /\ s.do = "close" => k # ErrorStep /\ k < Len(Script(mode)) /\ Before(k + 1) = Before(k)
  BY DEF Kind

\* The step of the script that the server is at.
LEMMA AtStep ==
  ASSUME Inv, pc \in {"script", "waiting"}, step <= Len(Script(mode))
  PROVE  /\ mode \in Scripted /\ step \in 1..Len(Script(mode)) /\ Kind(Now, step)
         /\ ErrorStep \in 2..6 /\ Len(Script(mode)) \in 1..8 /\ step \in Nat
         /\ \A k \in Nat : Before(k) \in 0..2
  <1>1. mode \in Scripted /\ step \in Nat /\ step >= 1
    BY DEF Inv, PlaceInv, Types
  <1>2. Len(Script(mode)) \in 1..8
    BY <1>1, StepKinds
  <1>3. step \in 1..Len(Script(mode))
    BY <1>1, <1>2
  <1> QED
    BY <1>1, <1>2, <1>3, StepKinds DEF Now

LEMMA SendEventKeeps ==
  ASSUME Inv, SendEvent
  PROVE  Inv'
  <1>1. pc = "script" /\ step <= Len(Script(mode)) /\ Now.do \in {"case", "done"}
    BY DEF SendEvent
  <1>2. CASE ~running
    <2>1. Leave("quiet") /\ mode \in Scripted
      BY <1>1, <1>2 DEF SendEvent, Inv, PlaceInv
    <2> QED
      BY <1>1, <1>2, <2>1, LeaveKeeps
  <1>3. CASE running
    <2>1. /\ events' = Append(events, Now.do) /\ case' = IF Now.do = "case" THEN case + 1 ELSE case
          /\ pc' = "waiting"
          /\ UNCHANGED <<mode, faults, patient, body, step, exit, running, answered, acks, outbox,
                         shut, client, seen, doing>>
      BY <1>1, <1>3 DEF SendEvent, settings, clientVars
    <2>2. /\ mode \in Scripted /\ step \in Nat /\ Kind(Now, step) /\ Before(step + 1) \in 0..2
          /\ case = Before(step) /\ step <= Len(Script(mode)) /\ Now.do \in {"case", "done"}
          /\ Len(Script(mode)) \in 1..8 /\ ErrorStep \in 2..6
      BY <1>1, AtStep DEF Inv, PlaceInv
    <2>3. /\ case \in Nat /\ doing \in Nat /\ seen \in Nat /\ Len(events) \in Nat
          /\ events \in Seq({"case", "done"})
      BY DEF Inv, Types
    <2>4. case' = Before(step + 1) /\ case' \in 0..2
      <3>1. CASE Now.do = "case"
        BY <2>1, <2>2, <3>1, KindTells
      <3>2. CASE Now.do = "done"
        BY <2>1, <2>2, <3>2, KindTells
      <3>3. Now.do = "case" \/ Now.do = "done"
        BY <1>1
      <3> QED
        BY <3>1, <3>2, <3>3, Zenon
    <2>5. Types'
      <3>1. events' \in Seq({"case", "done"})
        BY <2>1, <2>2, <2>3
      <3>2. case' \in Nat
        BY <2>4
      <3> QED
        BY ZenonT(60), <2>1, <3>1, <3>2 DEF Inv, Types
    <2>6. /\ Now' = Now /\ Script(mode)' = Script(mode) /\ ErrorStep' = ErrorStep
          /\ Before(step + 1)' = Before(step + 1)
      BY <2>1 DEF Now, ErrorStep, Before
    <2>7. /\ Len(events') = Len(events) + 1 /\ events'[Len(events')] = Now.do /\ events' # <<>>
          /\ \A i \in DOMAIN events : events'[i] = events[i]
          /\ \A i \in DOMAIN events' : i \in DOMAIN events \/ i = Len(events')
      BY <2>1, <2>3
    <2>8. PlaceInv'
      BY SMTT(30), <1>1, <2>1, <2>2, <2>4, <2>6, <2>7 DEF Inv, PlaceInv, Last
    <2>9. FlowInv'
      <3>1. acks = <<>> /\ Unread = 0
        BY <1>1 DEF Inv, FlowInv
      <3>2. Unread' = 1 /\ Len(acks') = 0
        BY <2>1, <2>3, <2>7, <3>1 DEF Unread
      <3>3. doing' <= case' /\ (Now.do = "case" => doing' < case')
        BY <2>1, <2>3 DEF Inv, FlowInv
      <3>4. \A i \in DOMAIN events' : events'[i] = "done" => step >= Len(Script(mode))
        <4> SUFFICES ASSUME NEW i \in DOMAIN events', events'[i] = "done"
                     PROVE  step >= Len(Script(mode))
          OBVIOUS
        <4>1. CASE i \in DOMAIN events
          BY <2>7, <4>1 DEF Inv, FlowInv
        <4>2. CASE i = Len(events')
          <5>1. Now.do = "done"
            BY <2>7, <4>2
          <5>2. step = Len(Script(mode))
            BY <2>2, <5>1 DEF Kind
          <5> QED
            BY <2>2, <5>2
        <4> QED
          BY <2>7, <4>1, <4>2
      <3>5. client' \in {"testing", "waiting"} => doing' \in Cases
        BY <2>1 DEF Inv, FlowInv
      <3> QED
        BY <2>1, <2>2, <2>6, <2>7, <3>2, <3>3, <3>4, <3>5 DEF FlowInv, Last
    <2>10. ErrorInv'
      <3>1. step > ErrorStep => case' = case
        <4>1. Now.do = "case" => ~(step > ErrorStep)
          BY <2>2 DEF Kind
        <4> QED
          BY <2>1, <4>1
      <3> QED
        BY <2>1, <2>6, <3>1 DEF Inv, ErrorInv, Injected, SilentAfterStopTest
    <2>11. QuietInv'
      <3>1. exit' = "none"
        BY <1>1, <2>1 DEF Inv, PlaceInv, Types
      <3> QED
        BY <1>1, <2>1, <3>1 DEF Inv, QuietInv, QuietMeansClientLeft
    <2> QED
      BY <2>5, <2>8, <2>9, <2>10, <2>11 DEF Inv
  <1> QED
    BY <1>2, <1>3

LEMMA TakeAckKeeps ==
  ASSUME Inv, TakeAck
  PROVE  Inv'
  <1>1. pc = "waiting" /\ acks # <<>>
    BY DEF TakeAck
  <1>2. CASE Head(acks) = "error"
    BY <1>1, <1>2, LeaveKeeps DEF TakeAck
  <1>3. CASE Head(acks) # "error"
    <2>1. /\ acks' = Tail(acks) /\ step' = step + 1 /\ pc' = "script"
          /\ UNCHANGED <<mode, faults, patient, body, case, exit, running, answered, events, outbox,
                         shut, client, seen, doing>>
      BY <1>1, <1>3 DEF TakeAck, settings, clientVars
    <2>2. /\ mode \in Scripted /\ step \in Nat /\ Kind(Now, step) /\ Now.do \in {"case", "done"}
          /\ case = Before(step + 1) /\ step <= Len(Script(mode)) /\ step >= 1
          /\ Len(Script(mode)) \in 1..8 /\ ErrorStep \in 2..6
      BY <1>1, AtStep DEF Inv, PlaceInv
    <2>3. /\ Script(mode)' = Script(mode) /\ ErrorStep' = ErrorStep
          /\ Before(step)' = Before(step + 1)
      BY <2>1 DEF ErrorStep, Before
    <2>4. Types'
      BY <1>1, <2>1, <2>2 DEF Inv, Types
    <2>5. PlaceInv'
      BY <1>1, <2>1, <2>2, <2>3 DEF Inv, PlaceInv
    <2>6. FlowInv'
      <3>1. Unread = 0 /\ Len(acks) = 1
        <4>1. Len(acks) + Unread = 1 /\ Unread \in {0, 1} /\ Len(acks) \in Nat \ {0}
          BY <1>1 DEF Inv, FlowInv, Types
        <4>2. \A a \in Nat \ {0}, b \in {0, 1} : a + b = 1 => b = 0 /\ a = 1
          OBVIOUS
        <4> QED
          BY <4>1, <4>2, Zenon
      <3>2. Unread' = 0 /\ acks' = <<>>
        BY <2>1, <3>1 DEF Unread, Inv, Types
      <3>3. \A i \in DOMAIN events : events[i] = "done" => step' >= Len(Script(mode))
        BY <2>1, <2>2 DEF Inv, FlowInv
      <3> QED
        BY <2>1, <2>2, <2>3, <3>2, <3>3 DEF Inv, FlowInv
    <2>7. ErrorInv'
      <3>1. step # ErrorStep
        <4>1. CASE Now.do = "case"
          BY <2>2, <4>1, KindTells
        <4>2. CASE Now.do = "done"
          BY <2>2, <4>2, KindTells, StepKinds
        <4> QED
          BY <2>2, <4>1, <4>2
      <3>2. (step' <= ErrorStep => step <= ErrorStep) /\ (step' > ErrorStep => step > ErrorStep)
        BY <2>1, <2>2, <3>1
      <3> QED
        BY <2>1, <2>3, <3>2 DEF Inv, ErrorInv, Injected, SilentAfterStopTest
    <2>8. QuietInv'
      <3>1. exit' = "none"
        BY <1>1, <2>1 DEF Inv, PlaceInv, Types
      <3> QED
        BY <1>1, <2>1, <3>1 DEF Inv, QuietInv, QuietMeansClientLeft
    <2> QED
      BY <2>4, <2>5, <2>6, <2>7, <2>8 DEF Inv
  <1> QED
    BY <1>2, <1>3

\* A step of the script that reads is done, or done without.
LEMMA NextStepKeeps ==
  ASSUME Inv, pc = "script", step <= Len(Script(mode)), Before(step + 1) = Before(step),
         step # ErrorStep, Now.do # "done",
         step' = step + 1,
         UNCHANGED <<mode, faults, patient, body, pc, case, exit, running, answered>>,
         UNCHANGED <<events, acks, outbox, client, seen, doing>>,
         shut' \in [Cases -> SUBSET {"server", "client"}],
         \A c \in Cases : shut[c] \subseteq shut'[c]
  PROVE  Inv'
  <1>1. /\ mode \in Scripted /\ step \in Nat /\ case = Before(step) /\ step >= 1
        /\ ErrorStep \in 2..6
        /\ Len(Script(mode)) \in 1..8
    BY AtStep DEF Inv, PlaceInv
  <1>2. /\ Script(mode)' = Script(mode) /\ ErrorStep' = ErrorStep
        /\ Before(step)' = Before(step + 1)
    BY DEF ErrorStep, Before
  <1>3. Types'
    BY <1>1 DEF Inv, Types
  <1>4. PlaceInv'
    BY <1>1, <1>2 DEF Inv, PlaceInv
  <1>5. FlowInv'
    <2>1. \A i \in DOMAIN events : events[i] = "done" => step' >= Len(Script(mode))
      BY <1>1 DEF Inv, FlowInv
    <2>2. Unread' = Unread /\ (Last = "case")' = (Last = "case")
      BY DEF Unread, Last
    <2> QED
      BY <1>1, <1>2, <2>1, <2>2 DEF Inv, FlowInv
  <1>6. ErrorInv'
    <2>1. (step' <= ErrorStep => step <= ErrorStep) /\ (step' > ErrorStep => step > ErrorStep)
      BY <1>1
    <2> QED
      BY <1>2, <2>1 DEF Inv, ErrorInv, Injected, SilentAfterStopTest
  <1>7. QuietInv'
    <2>1. exit' = "none"
      BY DEF Inv, PlaceInv, Types
    <2> QED
      BY <2>1 DEF Inv, QuietInv, QuietMeansClientLeft
  <1> QED
    BY <1>3, <1>4, <1>5, <1>6, <1>7 DEF Inv

LEMMA ReadingTells ==
  ASSUME Inv, Reading
  PROVE  /\ pc = "script" /\ step <= Len(Script(mode)) /\ mode \in Scripted /\ step \in Nat
         /\ case = Before(step) /\ case \in Cases /\ Before(step + 1) = Before(step)
         /\ step < Len(Script(mode))
         /\ IF Now.do = "grace"
            THEN step > ErrorStep /\ mode = "error_response" /\ Now.reply = "Value"
            ELSE step <= ErrorStep
         /\ step = ErrorStep =>
             Now.reply \in Injections /\ (mode = "error_response" => Now.reply # "StopTest")
         /\ step # ErrorStep => Now.do # "until" /\ Now.reply = "Value"
  <1>1. pc = "script" /\ step <= Len(Script(mode)) /\ Now.do \in {"expect", "until", "grace"}
    BY DEF Reading
  <1>2. /\ mode \in Scripted /\ step \in Nat /\ Kind(Now, step) /\ case = Before(step)
        /\ ErrorStep \in 2..6
    BY <1>1, AtStep DEF Inv, PlaceInv
  <1>3. CASE Now.do = "grace"
    BY <1>1, <1>2, <1>3 DEF Kind
  <1>4. CASE Now.do \in {"expect", "until"}
    BY <1>1, <1>2, <1>4 DEF Kind
  <1> QED
    BY <1>1, <1>3, <1>4

\* An answer, injecting the error or not.
LEMMA AnswerKeeps ==
  ASSUME Inv, Reading, NEW reply \in Replies \ {"Refused"},
         outbox' = [outbox EXCEPT ![case] = Append(@, reply)],
         UNCHANGED <<mode, faults, patient, body, pc, case, exit, running, answered>>,
         UNCHANGED <<events, acks, shut, client, seen, doing>>,
         \/ /\ step' = step + 1
            /\ IF step = ErrorStep
               THEN reply \in Injections /\ (mode = "error_response" => reply # "StopTest")
                                   ELSE reply = "Value"
         \/ step' = step /\ step = ErrorStep /\ reply = "Value"
  PROVE  Inv'
  <1>1. /\ pc = "script" /\ step <= Len(Script(mode)) /\ mode \in Scripted /\ step \in Nat
        /\ case = Before(step) /\ case \in Cases /\ Before(step + 1) = Before(step)
        /\ step < Len(Script(mode)) /\ Len(Script(mode)) \in 1..8 /\ ErrorStep \in 2..6
        /\ step > ErrorStep => mode = "error_response"
    BY ReadingTells, AtStep DEF Reading
  <1>2. /\ Script(mode)' = Script(mode) /\ ErrorStep' = ErrorStep
        /\ \A k \in Nat : Before(k)' = Before(k)
    BY DEF ErrorStep, Before
  <1>3. Before(step)' = Before(step)
    <2>1. CASE step' = step
      BY <2>1 DEF Before
    <2>2. CASE step' = step + 1
      <3>1. Before(step)' = Before(step + 1)
        BY <2>2 DEF Before
      <3> QED
        BY <1>1, <3>1
    <2> QED
      BY <2>1, <2>2
  <1>4. outbox \in [Cases -> Seq(Replies)]
    BY DEF Inv, Types
  <1>5. /\ outbox'[case] = Append(outbox[case], reply) /\ outbox[case] \in Seq(Replies)
        /\ \A c \in Cases \ {case} : outbox'[c] = outbox[c]
    BY <1>1, <1>4
  <1>6. Types'
    <2>1. outbox' \in [Cases -> Seq(Replies)]
      BY <1>1, <1>4, <1>5
    <2>2. step' \in Nat
      BY <1>1
    <2> QED
      BY <2>1, <2>2 DEF Inv, Types
  <1>7. PlaceInv'
    <2>1. step' >= 1 /\ step' <= Len(Script(mode)) + 1
      BY <1>1 DEF Inv, PlaceInv
    <2> QED
      BY <1>1, <1>2, <1>3, <2>1 DEF Inv, PlaceInv
  <1>8. FlowInv'
    <2>1. \A i \in DOMAIN events : events[i] = "done" => FALSE
      BY <1>1 DEF Inv, FlowInv
    <2>2. Unread' = Unread /\ (Last = "case")' = (Last = "case")
      BY DEF Unread, Last
    <2> QED
      BY <1>1, <1>2, <2>1, <2>2 DEF Inv, FlowInv
  <1>9. /\ \A i \in DOMAIN outbox[case] :
             i \in DOMAIN outbox'[case] /\ outbox'[case][i] = outbox[case][i]
        /\ Len(outbox[case]) \in Nat /\ Len(outbox'[case]) = Len(outbox[case]) + 1
        /\ outbox'[case][Len(outbox'[case])] = reply /\ Len(outbox'[case]) \in DOMAIN outbox'[case]
        /\ \A i \in DOMAIN outbox'[case] : i \in DOMAIN outbox[case] \/ i = Len(outbox'[case])
        /\ \A i \in DOMAIN outbox[case] : i < Len(outbox'[case])
    BY <1>5
  <1>10. ErrorInv'
    <2>1. step' <= ErrorStep => \A c \in Cases : ~Injected(c)'
      <3> SUFFICES ASSUME step' <= ErrorStep, NEW c \in Cases PROVE ~Injected(c)'
        OBVIOUS
      <3>1. step <= ErrorStep /\ reply = "Value"
        BY <1>1
      <3>2. ~Injected(c)
        BY <3>1 DEF Inv, ErrorInv
      <3>3. CASE c # case
        BY <1>5, <3>2, <3>3 DEF Injected
      <3>4. CASE c = case
        BY <1>9, <3>1, <3>2, <3>4 DEF Injected
      <3> QED
        BY <3>3, <3>4
    <2>2. step' > ErrorStep => case' \in Cases /\ Injected(case)'
      <3> SUFFICES ASSUME step' > ErrorStep PROVE Injected(case)'
        BY <1>1
      <3>1. step = ErrorStep \/ step > ErrorStep
        BY <1>1
      <3>2. CASE step = ErrorStep
        <4>1. reply \in Injections
          BY <1>1, <3>2
        <4> QED
          BY <1>9, <4>1 DEF Injected, Injections
      <3>3. CASE step > ErrorStep
        <4>1. Injected(case)
          BY <3>3 DEF Inv, ErrorInv
        <4> QED
          BY <1>9, <4>1 DEF Injected
      <3> QED
        BY <3>1, <3>2, <3>3
    <2>3. mode = "error_response" =>
            \A c \in Cases : \A i \in DOMAIN outbox'[c] : outbox'[c][i] # "StopTest"
      <3> SUFFICES ASSUME mode = "error_response", NEW c \in Cases, NEW i \in DOMAIN outbox'[c]
                   PROVE  outbox'[c][i] # "StopTest"
        OBVIOUS
      <3>1. reply # "StopTest"
        OBVIOUS
      <3>2. \A j \in DOMAIN outbox[c] : outbox[c][j] # "StopTest"
        BY DEF Inv, ErrorInv
      <3>3. CASE c # case
        BY <1>5, <3>2, <3>3
      <3>4. CASE c = case
        BY <1>9, <3>1, <3>2, <3>4
      <3> QED
        BY <3>3, <3>4
    <2>4. SilentAfterStopTest'
      <3> SUFFICES ASSUME NEW c \in Cases, NEW i \in DOMAIN outbox'[c],
                          NEW j \in DOMAIN outbox'[c],
                          outbox'[c][i] = "StopTest", j > i
                   PROVE  outbox'[c][j] = "Refused"
        BY DEF SilentAfterStopTest
      <3>1. CASE c # case
        BY <1>5, <3>1 DEF Inv, ErrorInv, SilentAfterStopTest
      <3>2. CASE c = case
        <4>1. \A k \in DOMAIN outbox[case] : outbox[case][k] # "StopTest"
          <5>1. CASE step <= ErrorStep
            BY <1>1, <5>1 DEF Inv, ErrorInv, Injected
          <5>2. CASE step > ErrorStep
            BY <1>1, <5>2 DEF Inv, ErrorInv
          <5> QED
            BY <1>1, <5>1, <5>2
        <4>2. i = Len(outbox'[case])
          BY <1>9, <3>2, <4>1
        <4>3. j <= i
          <5>1. j \in 1..Len(outbox'[case])
            BY <1>5, <3>2
          <5> QED
            BY <4>2, <5>1
        <4>4. i \in Nat /\ j \in Nat
          BY <1>5, <3>2
        <4> QED
          BY <4>3, <4>4
      <3> QED
        BY <3>1, <3>2
    <2> QED
      BY <1>2, <2>1, <2>2, <2>3, <2>4 DEF ErrorInv
  <1>11. QuietInv'
    <2>1. exit' = "none"
      BY <1>1 DEF Inv, PlaceInv, Types
    <2> QED
      BY <1>1, <2>1 DEF Inv, QuietInv, QuietMeansClientLeft
  <1> QED
    BY <1>6, <1>7, <1>8, <1>10, <1>11 DEF Inv

LEMMA TakeRequestKeeps ==
  ASSUME Inv, TakeRequest
  PROVE  Inv'
  <1>1. Reading
    BY DEF TakeRequest
  <1>2. /\ pc = "script" /\ mode \in Scripted
        /\ step = ErrorStep =>
             Now.reply \in Injections /\ (mode = "error_response" => Now.reply # "StopTest")
        /\ step # ErrorStep => Now.do # "until" /\ Now.reply = "Value"
    BY <1>1, ReadingTells
  <1>3. CASE Leave("value_error")
    BY <1>2, <1>3, LeaveKeeps
  <1>4. CASE ~running /\ Leave("quiet")
    BY <1>2, <1>4, LeaveKeeps
  <1>5. CASE ~Leave("value_error") /\ ~(~running /\ Leave("quiet"))
    <2> DEFINE passing == Now.do = "until" /\ Head(inbox[case]) # Now.cmd
               reply == IF passing THEN "Value" ELSE Now.reply
    <2>1. /\ outbox' = [outbox EXCEPT ![case] = Append(@, reply)]
          /\ step' = IF passing THEN step ELSE step + 1
          /\ UNCHANGED <<mode, faults, patient, body, pc, case, exit, running, answered>>
          /\ UNCHANGED <<events, acks, shut, client, seen, doing>>
      BY <1>5 DEF TakeRequest, settings, clientVars
    <2>2. reply \in Replies \ {"Refused"}
      BY <1>2 DEF Replies, Injections
    <2>3. passing => step = ErrorStep
      BY <1>2
    <2>4. \/ /\ step' = step + 1
             /\ IF step = ErrorStep
                THEN reply \in Injections /\ (mode = "error_response" => reply # "StopTest")
                                    ELSE reply = "Value"
          \/ step' = step /\ step = ErrorStep /\ reply = "Value"
      <3>1. CASE passing
        BY <2>1, <2>3, <3>1
      <3>2. CASE ~passing
        BY <1>2, <2>1, <3>2
      <3> QED
        BY <3>1, <3>2
    <2> HIDE DEF reply
    <2> QED
      BY <1>1, <2>1, <2>2, <2>4, AnswerKeeps
  <1> QED
    BY <1>3, <1>4, <1>5

LEMMA GiveUpKeeps ==
  ASSUME Inv, Nothing, NEW how \in {"quiet", "timeout"}, GiveUp(how),
         how = "quiet" => Ended
  PROVE  Inv'
  <1>1. CASE Reading /\ Now.do = "grace"
    <2>1. /\ step' = step + 1
          /\ UNCHANGED <<mode, faults, patient, body, pc, case, exit, running, answered>>
          /\ UNCHANGED <<events, acks, outbox, shut, client, seen, doing>>
      BY <1>1 DEF GiveUp, settings, wire, clientVars
    <2>2. /\ pc = "script" /\ step <= Len(Script(mode)) /\ Before(step + 1) = Before(step)
          /\ step > ErrorStep /\ step \in Nat
      BY <1>1, ReadingTells
    <2>3. step # ErrorStep
      BY <2>2, AtStep
    <2>4. /\ shut' \in [Cases -> SUBSET {"server", "client"}]
          /\ \A c \in Cases : shut[c] \subseteq shut'[c]
      BY <2>1 DEF Inv, Types
    <2> QED
      BY <1>1, <2>1, <2>2, <2>3, <2>4, NextStepKeeps
  <1>2. CASE ~(Reading /\ Now.do = "grace")
    <2>1. Leave(how)
      BY <1>2 DEF GiveUp
    <2>2. pc \in {"script", "waiting"}
      BY DEF Nothing, Reading
    <2>3. mode \in Scripted
      BY <2>2 DEF Inv, PlaceInv
    <2>4. how = "quiet" => \/ ~running
                           \/ case \in Cases /\ "client" \in shut[case] /\ ~Injected(case)
      <3> SUFFICES ASSUME how = "quiet", running
                   PROVE  case \in Cases /\ "client" \in shut[case] /\ ~Injected(case)
        OBVIOUS
      <3>1. Reading /\ "client" \in shut[case]
        BY DEF Ended
      <3>2. case \in Cases /\ step <= ErrorStep
        BY <1>2, <3>1, ReadingTells
      <3> QED
        BY <3>1, <3>2 DEF Inv, ErrorInv
    <2> QED
      BY <2>1, <2>2, <2>3, <2>4, LeaveKeeps
  <1> QED
    BY <1>1, <1>2

LEMMA ReadKeeps ==
  ASSUME Inv, ReadClosed \/ ReadTimeout
  PROVE  Inv'
  BY GiveUpKeeps DEF ReadClosed, ReadTimeout

LEMMA CloseKeeps ==
  ASSUME Inv, Close
  PROVE  Inv'
  <1>1. /\ pc = "script" /\ step <= Len(Script(mode)) /\ Now.do = "close"
        /\ shut' = [shut EXCEPT ![case] = @ \cup {"server"}] /\ step' = step + 1
        /\ UNCHANGED <<mode, faults, patient, body, pc, case, exit, running, answered>>
        /\ UNCHANGED <<events, acks, outbox, client, seen, doing>>
    BY DEF Close, settings, clientVars
  <1>2. step # ErrorStep /\ Before(step + 1) = Before(step)
    BY <1>1, AtStep, KindTells
  <1>3. /\ shut' \in [Cases -> SUBSET {"server", "client"}]
        /\ \A c \in Cases : shut[c] \subseteq shut'[c]
    BY <1>1 DEF Inv, Types
  <1> QED
    BY <1>1, <1>2, <1>3, NextStepKeeps

LEMMA ReturnKeeps ==
  ASSUME Inv, Return
  PROVE  Inv'
  BY LeaveKeeps DEF Return

-----------------------------------------------------------------------------
(* The client.                                                             *)

\* What a step of the client leaves alone, and what it may do to the rest: an answer it
\* is given without the server is a refusal.
LEMMA ClientKeeps ==
  ASSUME Inv, UNCHANGED <<mode, faults, patient, body, pc, step, case, exit, answered, events>>,
         Types', FlowInv', QuietInv',
         \/ outbox' = outbox
         \/ \E c \in Cases : outbox' = [outbox EXCEPT ![c] = Append(@, "Refused")]
  PROVE  Inv'
  <1>1. PlaceInv'
    BY DEF Inv, PlaceInv, Now, Last, Before
  <1>2. ErrorInv'
    <2>1. ErrorStep' = ErrorStep
      BY DEF ErrorStep
    <2>2. CASE outbox' = outbox
      BY <2>1, <2>2 DEF Inv, ErrorInv, Injected, SilentAfterStopTest
    <2>3. CASE \E c \in Cases : outbox' = [outbox EXCEPT ![c] = Append(@, "Refused")]
      <3>1. PICK d \in Cases : outbox' = [outbox EXCEPT ![d] = Append(@, "Refused")]
        BY <2>3
      <3>2. outbox \in [Cases -> Seq(Replies)]
        BY DEF Inv, Types
      <3>3. /\ outbox'[d] = Append(outbox[d], "Refused") /\ outbox[d] \in Seq(Replies)
            /\ \A c \in Cases \ {d} : outbox'[c] = outbox[c]
        BY <3>1, <3>2
      <3>4. \A c \in Cases : \A i \in DOMAIN outbox[c] :
              i \in DOMAIN outbox'[c] /\ outbox'[c][i] = outbox[c][i]
        BY SMTT(30), <3>3
      <3>5. \A c \in Cases : \A i \in DOMAIN outbox'[c] :
              i \in DOMAIN outbox[c] \/ outbox'[c][i] = "Refused"
        BY <3>3
      <3>6. \A c \in Cases : Injected(c)' <=> Injected(c)
        <4> SUFFICES ASSUME NEW c \in Cases PROVE Injected(c)' <=> Injected(c)
          OBVIOUS
        <4>1. ASSUME Injected(c) PROVE Injected(c)'
          BY <3>4, <4>1 DEF Injected
        <4>2. ASSUME Injected(c)' PROVE Injected(c)
          <5>1. PICK i \in DOMAIN outbox'[c] : outbox'[c][i] \in {"StopTest", "RequestError"}
            BY <4>2 DEF Injected
          <5>2. i \in DOMAIN outbox[c]
            BY <3>5, <5>1
          <5> QED
            BY <3>4, <5>1, <5>2 DEF Injected
        <4> QED
          BY <4>1, <4>2
      <3>7. step > ErrorStep => Injected(case)'
        <4> SUFFICES ASSUME step > ErrorStep PROVE Injected(case)'
          OBVIOUS
        <4>1. Injected(case)
          BY DEF Inv, ErrorInv
        <4>2. case \in Cases
          BY DEF Inv, ErrorInv
        <4> QED
          BY <3>6, <4>1, <4>2
      <3>8. mode = "error_response" =>
              \A c \in Cases : \A i \in DOMAIN outbox'[c] : outbox'[c][i] # "StopTest"
        <4> SUFFICES ASSUME mode = "error_response", NEW c \in Cases, NEW i \in DOMAIN outbox'[c]
                     PROVE  outbox'[c][i] # "StopTest"
          OBVIOUS
        <4>1. CASE i \in DOMAIN outbox[c]
          BY <3>4, <4>1 DEF Inv, ErrorInv
        <4>2. CASE i \notin DOMAIN outbox[c]
          BY <3>5, <4>2
        <4> QED
          BY <4>1, <4>2
      <3>9. SilentAfterStopTest'
        <4> SUFFICES ASSUME NEW c \in Cases, NEW i \in DOMAIN outbox'[c],
                            NEW j \in DOMAIN outbox'[c],
                            outbox'[c][i] = "StopTest", j > i
                     PROVE  outbox'[c][j] = "Refused"
          BY DEF SilentAfterStopTest
        <4>1. CASE j \in DOMAIN outbox[c]
          <5>1. i \in DOMAIN outbox[c]
            BY <3>5
          <5> QED
            BY <3>4, <4>1, <5>1 DEF Inv, ErrorInv, SilentAfterStopTest
        <4>2. CASE j \notin DOMAIN outbox[c]
          BY <3>5, <4>2
        <4> QED
          BY <4>1, <4>2
      <3> QED
        BY <2>1, <3>6, <3>7, <3>8, <3>9 DEF Inv, ErrorInv
    <2> QED
      BY <2>2, <2>3
  <1> QED
    BY <1>1, <1>2 DEF Inv

\* The invariant's types, for a step that leaves them.
LEMMA ClientTypes ==
  ASSUME Types, UNCHANGED <<mode, faults, patient, body, pc, step, case, exit, answered, events>>,
         running' \in BOOLEAN, acks' \in Seq({"ok", "error"}),
         outbox' \in [Cases -> Seq(Replies)], shut' \in [Cases -> SUBSET {"server", "client"}],
         client' \in {"starting", "awaiting", "testing", "waiting", "over", "left", "raised",
                     "gone"},
         doing' \in Nat, seen' \in Nat
  PROVE  Types'
  BY ZenonT(60) DEF Types

\* A client that is neither gone nor left goes on: nothing the server sent is touched.
LEMMA QuietStays ==
  ASSUME Inv, UNCHANGED <<mode, faults, patient, body, pc, step, case, exit, answered, events>>,
         running' = running, client \notin {"gone", "left"} \/ client' = client,
         shut \in [Cases -> SUBSET {"server", "client"}],
         \A c \in Cases : shut[c] \subseteq shut'[c],
         case \in Cases => (Injected(case)' => Injected(case))
  PROVE  QuietInv'
  <1>1. CASE pc # "ended"
    <2>1. exit = "none"
      BY <1>1 DEF Inv, PlaceInv, Types
    <2> QED
      BY <1>1, <2>1 DEF Inv, QuietInv, QuietMeansClientLeft
  <1>2. CASE pc = "ended"
    <2>1. exit = "quiet" /\ client \notin {"gone", "left"} =>
            case \in Cases /\ "client" \in shut[case] /\ ~Injected(case)
      <3>1. case <= 2 /\ case \in Nat
        BY DEF Inv, PlaceInv, Types
      <3>2. case > 0 => case \in Cases
        BY <3>1 DEF Cases
      <3> QED
        BY <3>2 DEF Inv, QuietInv, QuietMeansClientLeft
    <2>2. case \in Cases => case > 0
      BY DEF Cases
    <2> QED
      BY <1>2, <2>1, <2>2 DEF Inv, QuietInv, QuietMeansClientLeft
  <1> QED
    BY <1>1, <1>2

LEMMA FlowStays ==
  ASSUME Inv, UNCHANGED <<mode, faults, patient, body, pc, step, case, exit, answered, events>>,
         UNCHANGED <<acks, seen, doing>>, client' \in {"testing", "waiting"} => doing \in Cases
  PROVE  FlowInv'
  BY DEF Inv, FlowInv, Unread, Last

\* The answers a client has, after a step that changes none of the server's.
LEMMA InjectedStays ==
  ASSUME outbox \in [Cases -> Seq(Replies)],
         \/ outbox' = outbox
         \/ \E c \in Cases : outbox' = [outbox EXCEPT ![c] = Append(@, "Refused")]
  PROVE  /\ outbox' \in [Cases -> Seq(Replies)]
         /\ \A c \in Cases : Injected(c)' => Injected(c)
  <1>1. CASE outbox' = outbox
    BY <1>1 DEF Injected
  <1>2. CASE \E c \in Cases : outbox' = [outbox EXCEPT ![c] = Append(@, "Refused")]
    <2>1. PICK d \in Cases : outbox' = [outbox EXCEPT ![d] = Append(@, "Refused")]
      BY <1>2
    <2>2. outbox'[d] = Append(outbox[d], "Refused") /\ outbox[d] \in Seq(Replies)
      BY <2>1
    <2>3. \A c \in Cases \ {d} : outbox'[c] = outbox[c]
      BY <2>1
    <2>4. outbox' \in [Cases -> Seq(Replies)]
      BY <2>1, <2>2 DEF Replies
    <2>5. \A c \in Cases : \A i \in DOMAIN outbox'[c] :
            \/ i \in DOMAIN outbox[c] /\ outbox'[c][i] = outbox[c][i]
            \/ outbox'[c][i] = "Refused"
      BY SMTT(30), <2>2, <2>3
    <2> QED
      BY <2>4, <2>5 DEF Injected
  <1> QED
    BY <1>1, <1>2

\* A step on the stream of a test: what is written reaches the server, or the reader's refusal
\* comes back.
LEMMA TestKeeps ==
  ASSUME Inv,
         UNCHANGED <<mode, faults, patient, body, pc, step, case, exit, running, answered>>,
         UNCHANGED <<events, acks, seen, doing>>,
         outbox' = outbox \/ \E m : Write(m),
         shut' = shut \/ shut' = [shut EXCEPT ![doing] = @ \cup {"client"}],
         client \in {"testing", "waiting"}, client' \in {"testing", "waiting", "awaiting"}
  PROVE  Inv'
  <1>0. doing \in Cases
    BY DEF Inv, FlowInv
  <1>1. \/ outbox' = outbox
        \/ \E c \in Cases : outbox' = [outbox EXCEPT ![c] = Append(@, "Refused")]
    BY <1>0 DEF Write
  <1>2. /\ outbox \in [Cases -> Seq(Replies)] /\ shut \in [Cases -> SUBSET {"server", "client"}]
        /\ Types /\ running \in BOOLEAN /\ acks \in Seq({"ok", "error"}) /\ doing \in Nat
        /\ seen \in Nat
    BY DEF Inv, Types
  <1>3. outbox' \in [Cases -> Seq(Replies)] /\ \A c \in Cases : Injected(c)' => Injected(c)
    BY <1>1, <1>2, InjectedStays
  <1>4. /\ shut' \in [Cases -> SUBSET {"server", "client"}]
        /\ \A c \in Cases : shut[c] \subseteq shut'[c]
    BY ZenonT(60), <1>2
  <1>5. Types'
    BY <1>2, <1>3, <1>4, ClientTypes
  <1>6. FlowInv'
    BY <1>0, FlowStays
  <1>7. QuietInv'
    BY <1>2, <1>3, <1>4, QuietStays
  <1> QED
    BY <1>1, <1>5, <1>6, <1>7, ClientKeeps

LEMMA ReceiveKeeps ==
  ASSUME Inv, Receive
  PROVE  Inv'
  <1>1. /\ client = "awaiting" /\ seen < Len(events) /\ seen' = seen + 1
        /\ UNCHANGED <<mode, faults, patient, body, pc, step, case, exit, running, answered>>
        /\ UNCHANGED <<events, outbox, shut>>
    BY DEF Receive, unsaid, settings, server
  <1>2. /\ Types /\ seen \in Nat /\ doing \in Nat /\ case \in Nat /\ case <= 2
        /\ events \in Seq({"case", "done"}) /\ Len(events) \in Nat /\ acks \in Seq({"ok", "error"})
        /\ doing <= case
    BY DEF Inv, Types, PlaceInv, FlowInv
  <1>3. Unread = 1 /\ Len(events) = seen + 1 /\ Unread' = 0
    BY <1>1, <1>2 DEF Inv, FlowInv, Unread
  <1>4. PICK reply \in {"ok", "error"} : acks' = Append(acks, reply)
    BY DEF Receive
  <1>5. acks' \in Seq({"ok", "error"}) /\ Len(acks') = Len(acks) + 1
    BY <1>2, <1>4
  <1>6. \/ doing' = doing /\ client' \in {"awaiting", "over"}
        \/ Last = "case" /\ doing' = doing + 1 /\ client' = "testing"
    BY <1>1, <1>3 DEF Receive, Last
  <1>7. doing' \in Nat /\ doing' <= case /\ (client' \in {"testing", "waiting"} => doing' \in Cases)
    <2>1. CASE doing' = doing /\ client' \in {"awaiting", "over"}
      BY <1>2, <2>1
    <2>2. CASE Last = "case" /\ doing' = doing + 1 /\ client' = "testing"
      <3>1. doing < case
        BY <1>3, <2>2 DEF Inv, FlowInv
      <3> QED
        BY <1>2, <2>2, <3>1 DEF Cases
    <2> QED
      BY <1>6, <2>1, <2>2
  <1>8. Types'
    <2>1. outbox \in [Cases -> Seq(Replies)] /\ shut \in [Cases -> SUBSET {"server", "client"}]
          /\ running \in BOOLEAN /\ seen' \in Nat
      BY <1>1, <1>2 DEF Types
    <2>2. client' \in {"starting", "awaiting", "testing", "waiting", "over", "left", "raised",
                     "gone"}
      BY <1>6
    <2> QED
      BY <1>1, <1>2, <1>5, <1>7, <2>1, <2>2, ClientTypes
  <1>9. FlowInv'
    <2>1. pc = "waiting" => Len(acks') + Unread' = 1
      <3> SUFFICES ASSUME pc = "waiting" PROVE Len(acks') + Unread' = 1
        OBVIOUS
      <3>1. Len(acks) + Unread = 1 /\ Len(acks) \in Nat
        BY <1>2 DEF Inv, FlowInv
      <3> QED
        BY <1>3, <1>5, <3>1
    <2>2. pc \in {"waiting", "ended"}
      BY <1>3 DEF Inv, FlowInv
    <2> QED
      BY <1>1, <1>2, <1>3, <1>7, <2>1, <2>2 DEF Inv, FlowInv, Last
  <1>10. QuietInv'
    <2>1. shut \in [Cases -> SUBSET {"server", "client"}]
      BY <1>2 DEF Types
    <2> QED
      BY <1>1, <2>1, QuietStays DEF Injected
  <1> QED
    BY <1>1, <1>8, <1>9, <1>10, ClientKeeps

\* Starting and being released.
LEMMA MoveKeeps ==
  ASSUME Inv, Start \/ Released
  PROVE  Inv'
  <1>1. /\ UNCHANGED <<mode, faults, patient, body, pc, step, case, exit, running, answered>>
        /\ UNCHANGED <<events, acks, outbox, shut, seen, doing>>
        /\ client \in {"starting", "awaiting", "waiting"} /\ client' \in {"awaiting", "raised"}
    BY DEF Start, Released, Blocked, unsaid, settings, server
  <1>2. /\ Types /\ shut \in [Cases -> SUBSET {"server", "client"}] /\ acks \in Seq({"ok", "error"})
        /\ outbox \in [Cases -> Seq(Replies)] /\ running \in BOOLEAN /\ doing \in Nat
        /\ seen \in Nat
    BY DEF Inv, Types
  <1>3. Types'
    BY <1>1, <1>2, ClientTypes
  <1>4. FlowInv'
    BY <1>1, FlowStays
  <1>5. QuietInv'
    BY <1>1, <1>2, QuietStays DEF Injected
  <1> QED
    BY <1>1, <1>3, <1>4, <1>5, ClientKeeps

\* The client's end of the connection goes away.
LEMMA QuitKeeps ==
  ASSUME Inv, Quit
  PROVE  Inv'
  <1>1. /\ UNCHANGED <<mode, faults, patient, body, pc, step, case, exit, answered, events>>
        /\ UNCHANGED <<acks, outbox, shut, seen, doing>>
        /\ running' = FALSE /\ client' \in {"left", "gone"}
    BY DEF Quit, settings, server
  <1>2. /\ Types /\ shut \in [Cases -> SUBSET {"server", "client"}] /\ acks \in Seq({"ok", "error"})
        /\ outbox \in [Cases -> Seq(Replies)] /\ doing \in Nat /\ seen \in Nat
    BY DEF Inv, Types
  <1>3. Types'
    BY <1>1, <1>2, ClientTypes
  <1>4. FlowInv'
    BY <1>1, FlowStays
  <1>5. QuietInv'
    BY <1>1 DEF QuietInv, QuietMeansClientLeft
  <1> QED
    BY <1>1, <1>3, <1>4, <1>5, ClientKeeps

LEMMA AskKeeps ==
  ASSUME Inv, Ask \/ Complete
  PROVE  Inv'
  <1>1. CASE Ask
    BY <1>1, TestKeeps DEF Ask, unsaid, settings, server
  <1>2. CASE Complete
    <2>1. shut' = shut \/ shut' = [shut EXCEPT ![doing] = @ \cup {"client"}]
      BY <1>2 DEF Complete, Hangs, Closes
    <2>2. \E m : Write(m)
      BY <1>2 DEF Complete
    <2>3. /\ UNCHANGED <<mode, faults, patient, body, pc, step, case, exit, running, answered>>
          /\ UNCHANGED <<events, acks, seen, doing>>
          /\ client = "testing" /\ client' \in {"waiting", "awaiting"}
      BY <1>2 DEF Complete, unsaid, settings, server
    <2> QED
      BY <2>1, <2>2, <2>3, TestKeeps
  <1> QED
    BY <1>1, <1>2

LEMMA TakeReplyKeeps ==
  ASSUME Inv, TakeReply
  PROVE  Inv'
  <1>1. /\ UNCHANGED <<mode, faults, patient, body, pc, step, case, exit, running, answered>>
        /\ UNCHANGED <<events, acks, seen, doing>>
        /\ client = "waiting"
    BY DEF TakeReply, unsaid, settings, server
  <1>2. client' \in {"testing", "waiting", "awaiting"}
    BY DEF TakeReply
  <1>3. shut' = shut \/ shut' = [shut EXCEPT ![doing] = @ \cup {"client"}]
    BY DEF TakeReply, Hangs, Closes
  <1>4. outbox' = outbox \/ \E m : Write(m)
    BY DEF TakeReply
  <1> QED
    BY <1>1, <1>2, <1>3, <1>4, TestKeeps

-----------------------------------------------------------------------------
(* The invariant, and what it says.                                        *)

LEMMA NextKeeps ==
  ASSUME Inv, [Next]_vars
  PROVE  Inv'
  <1>1. CASE Server
    BY <1>1, BeginsKeeps, SendEventKeeps, TakeAckKeeps, TakeRequestKeeps, ReadKeeps, CloseKeeps,
       ReturnKeeps DEF Server
  <1>2. CASE Client
    BY <1>2, MoveKeeps, ReceiveKeeps, AskKeeps, TakeReplyKeeps, QuitKeeps DEF Client
  <1>3. CASE UNCHANGED vars
    <2>1. /\ UNCHANGED <<mode, faults, patient, body, pc, step, case, exit, running, answered>>
          /\ UNCHANGED <<events, acks, outbox, shut, client, seen, doing>>
      BY <1>3 DEF vars, settings, server, wire, clientVars
    <2>2. Types' /\ PlaceInv' /\ FlowInv'
      BY SMTT(30), <2>1 DEF Inv, Types, PlaceInv, FlowInv, Now, Unread, Last, Before
    <2>3. ErrorInv' /\ QuietInv'
      BY <2>1 DEF Inv, ErrorInv, ErrorStep, QuietInv, QuietMeansClientLeft, Injected,
                  SilentAfterStopTest
    <2> QED
      BY <2>2, <2>3 DEF Inv
  <1> QED
    BY <1>1, <1>2, <1>3 DEF Next

LEMMA Invariant == Spec => []Inv
  BY InitInv, NextKeeps, PTL DEF Spec

\* The state is of the types the code gives it: the step stays inside the script that the
\* _mode_ function is (test_server.py:122-297), and the client reads no event nobody sent.
THEOREM TypeCorrect == Spec => []TypeOK
  <1>1. ASSUME Inv PROVE TypeOK
    <2>1. step \in 1..12
      <3>1. CASE mode \in Scripted
        <4>1. /\ Len(Script(mode)) \in 1..8 /\ step \in Nat
              /\ step >= 1 /\ step <= Len(Script(mode)) + 1
          BY <1>1, <3>1, StepKinds DEF Inv, PlaceInv, Types
        <4>2. \A n \in 1..8, k \in Nat : k >= 1 /\ k <= n + 1 => k \in 1..12
          OBVIOUS
        <4> QED
          BY <4>1, <4>2, Zenon
      <3>2. CASE mode \notin Scripted
        BY <1>1, <3>2 DEF Inv, PlaceInv
      <3> QED
        BY <3>1, <3>2
    <2>2. case \in 0..2 /\ doing \in 0..2
      BY <1>1 DEF Inv, PlaceInv, FlowInv, Types
    <2>3. seen \in 0..Len(events)
      <3>1. Unread \in {0, 1} /\ seen \in Nat /\ Len(events) \in Nat
        BY <1>1 DEF Inv, FlowInv, Types
      <3> QED
        BY <3>1 DEF Unread
    <2>4. \A c \in Cases : /\ outbox[c] \in Seq({"Value", "StopTest", "RequestError", "Refused"})
                           /\ shut[c] \subseteq {"server", "client"}
      BY <1>1 DEF Inv, Types, Replies
    <2> QED
      BY <1>1, <2>1, <2>2, <2>3, <2>4, Zenon DEF Inv, Types, TypeOK
  <1> QED
    BY <1>1, Invariant, PTL

\* test_done vouches for a mode only when its error was injected (test_server.py:203, 231,
\* 292): no client, whatever test it runs, in whatever order it asks, is told it is done before.
THEOREM DoneIsInjected == Spec => []DoneMeansInjected
  <1>1. ASSUME Inv PROVE DoneMeansInjected
    <2> SUFFICES ASSUME NEW i \in DOMAIN events, events[i] = "done", mode # "empty_test"
                 PROVE  Injected(case)
      BY DEF DoneMeansInjected
    <2>1. mode \in Scripted /\ step >= Len(Script(mode)) /\ step \in Nat
      BY <1>1 DEF Inv, FlowInv, Types
    <2>2. ErrorStep < Len(Script(mode)) /\ ErrorStep \in 2..6 /\ Len(Script(mode)) \in 1..8
      BY <2>1, StepKinds
    <2>3. step > ErrorStep
      BY <2>1, <2>2
    <2> QED
      BY <1>1, <2>3 DEF Inv, ErrorInv
  <1> QED
    BY <1>1, Invariant, PTL

\* The ConnectionError that run_test_server swallows (test_server.py:78) hides a client that
\* left, or one that closed its test case before the error, and nothing else.
THEOREM QuietIsHonest == Spec => []QuietMeansClientLeft
  <1>1. Inv => QuietMeansClientLeft
    BY DEF Inv, QuietInv
  <1> QED
    BY <1>1, Invariant, PTL

\* Nothing but the reader's refusal follows StopTest on a test case's stream, however the
\* client insists (test_server.py:152, 169).
THEOREM SilentStop == Spec => []SilentAfterStopTest
  <1>1. Inv => SilentAfterStopTest
    BY DEF Inv, ErrorInv
  <1> QED
    BY <1>1, Invariant, PTL
=============================================================================
